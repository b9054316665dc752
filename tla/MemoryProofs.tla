----------------------------- MODULE MemoryProofs -----------------------------
(***************************************************************************)
(* Proofs about the stores of what the agent remembers: the database and   *)
(* its vector index, the files a background task extracts to and the files *)
(* a dream rewrites.                                                       *)
(***************************************************************************)
EXTENDS MemoryVectors, MemoryExtraction, DreamConsolidation, FiniteSetTheorems, TLAPS

-----------------------------------------------------------------------------
(* The database and the index *)

\* A client's step replaces its own operation and no other.
LEMMA StoreStep ==
    ASSUME MemoryTypeOK, NEW c \in Stores, NEW new, proceeds(c, new), new \in Operation,
           IF new.op = "retry" THEN new.todo \subseteq Intent ELSE new.todo \subseteq Items
    PROVE  /\ store'[c] = new
           /\ store' \in [Stores -> Operation]
           /\ \A d \in Stores : IF store'[d].op = "retry" THEN store'[d].todo \subseteq Intent
                                                          ELSE store'[d].todo \subseteq Items
BY DEF MemoryTypeOK, proceeds

\* What the invariant says of the only client there is.
LEMMA OnlyClient ==
    ASSUME OneStore, NEW c \in Stores, MemoryTypeOK', DriftIsQueued', DeletesAreMeant',
           \A i \in store'[c].batch :
               /\ queue'[i] = store'[c].note
               /\ store'[c].pc = "index" /\ store'[c].call = "upsert" =>
                      Live(i)' /\ store'[c].version = row'[i].version
               /\ store'[c].pc = "index" /\ store'[c].call # "upsert" => ~Active(i)'
               /\ store'[c].pc = "reread" =>
                      vector'[i] = store'[c].version /\ store'[c].version = row'[i].version
               /\ store'[c].pc = "clear" => UpToDate(i)'
               /\ store'[c].op = "reindex" => Live(i)',
           store'[c].op = "retry" =>
               \A e \in store'[c].todo : queue'[e.item] = e.op /\ e.item \notin store'[c].batch,
           store'[c].op = "reindex" =>
               \A i \in store'[c].todo : /\ Live(i)' /\ i \notin store'[c].batch
                                         /\ store'[c].pc # "seed" => queue'[i] = "upsert",
           store'[c].pc \in {"seed", "reset"} =>
               /\ store'[c].op = "reindex" /\ store'[c].batch = {}
               /\ \A i \in Items : Active(i)' => i \in store'[c].todo,
           store'[c].pc \in {"read", "reread"} => store'[c].op = "reindex",
           store'[c].pc = "next" => store'[c].batch = {},
           store'[c].op = "reindex" => \A i, j \in store'[c].batch : i = j
    PROVE  MemoryInv'
<1>1. \A d \in Stores : d = c
  BY DEF OneStore
<1>2. CallIsQueued'
  BY <1>1 DEF CallIsQueued, StoreAt
<1>3. RestIsQueued'
  BY <1>1 DEF RestIsQueued, StoreAt
<1>4. OneAtATime'
  BY <1>1 DEF OneAtATime
<1>. QED
  BY <1>2, <1>3, <1>4 DEF MemoryInv

\* A change: the rows, the intents and the call that follows agree.
LEMMA ChangeShape ==
    ASSUME MemoryInv, OneStore, NEW c \in Stores, StoreAt(c, "idle"),
           NEW is \in SUBSET Items, NEW op \in {"upsert", "delete"},
           NEW version \in 0 .. MaxVersion,
           row' \in [Items -> [status : {"unused", "live", "deleted", "purged"},
                               version : 0 .. MaxVersion, lapsed : BOOLEAN]],
           \A i \in Items \ is : row'[i] = row[i],
           \A i \in is : IF op = "upsert" THEN row'[i].status = "live" /\ row'[i].version = version
                                          ELSE row'[i].status \in {"deleted", "purged"},
           queue' = Intends(is, op), Follows(c, is, op, version), UNCHANGED <<vector, storeFaults>>
    PROVE  MemoryInv'
<1>1. \A i \in Items : queue'[i] = IF i \in is THEN op ELSE queue[i]
  BY DEF Intends
<1>2. queue' \in [Items -> {"none", "upsert", "delete"}]
  BY DEF Intends, MemoryInv, MemoryTypeOK
<1> DEFINE new == [NoOp EXCEPT !.op = "change", !.pc = "index", !.call = op, !.note = op,
                               !.batch = is, !.version = version]
<1>3. /\ new \in Operation /\ new.op = "change" /\ new.pc = "index" /\ new.call = op
      /\ new.note = op /\ new.batch = is /\ new.version = version /\ new.todo = {}
  BY MemoryAssumption DEF NoOp, Operation
<1>4. proceeds(c, new)
  BY DEF Follows
<1> HIDE DEF new
<1>5. store'[c] = new /\ MemoryTypeOK'
  BY <1>2, <1>3, <1>4, StoreStep DEF MemoryInv, MemoryTypeOK
<1>6. DriftIsQueued'
  BY <1>1 DEF MemoryInv, DriftIsQueued, Active, Live
<1>7. DeletesAreMeant'
  BY <1>1 DEF MemoryInv, DeletesAreMeant
<1>. QED
  BY <1>1, <1>3, <1>5, <1>6, <1>7, OnlyClient DEF Live, Active

LEMMA ChangeStep ==
    ASSUME MemoryInv, OneStore, NEW c \in Stores, Change(c)
    PROVE  MemoryInv'
<1> USE MemoryAssumption
<1>1. /\ row \in [Items -> [status : {"unused", "live", "deleted", "purged"},
                            version : 0 .. MaxVersion, lapsed : BOOLEAN]]
  BY DEF MemoryInv, MemoryTypeOK
<1>2. ASSUME NEW i \in Items, Upsert(c, i) PROVE MemoryInv'
  <2>1. row[i].version + 1 \in 0 .. MaxVersion
    BY <1>1, <1>2 DEF Upsert
  <2>2. /\ row'[i].status = "live" /\ row'[i].version = row[i].version + 1
        /\ \A j \in Items \ {i} : row'[j] = row[j]
        /\ row' \in [Items -> [status : {"unused", "live", "deleted", "purged"},
                               version : 0 .. MaxVersion, lapsed : BOOLEAN]]
    BY <1>1, <1>2, <2>1 DEF Upsert
  <2>. QED
    BY <1>2, <2>1, <2>2, ChangeShape DEF Upsert
<1>3. ASSUME NEW i \in Items, Restore(c, i) PROVE MemoryInv'
  <2>1. row[i].version \in 0 .. MaxVersion
    BY <1>1
  <2>2. /\ row'[i].status = "live" /\ row'[i].version = row[i].version
        /\ \A j \in Items \ {i} : row'[j] = row[j]
        /\ row' \in [Items -> [status : {"unused", "live", "deleted", "purged"},
                               version : 0 .. MaxVersion, lapsed : BOOLEAN]]
    BY <1>1, <1>3 DEF Restore
  <2>. QED
    BY <1>3, <2>1, <2>2, ChangeShape DEF Restore
<1>4. ASSUME NEW is \in SUBSET Items, SoftDelete(c, is) PROVE MemoryInv'
  <2>1. /\ \A j \in Items \ is : row'[j] = row[j]
        /\ \A j \in is : row'[j].status = "deleted"
        /\ row' \in [Items -> [status : {"unused", "live", "deleted", "purged"},
                               version : 0 .. MaxVersion, lapsed : BOOLEAN]]
    BY <1>1, <1>4 DEF SoftDelete
  <2>2. /\ queue' = Intends(is, "delete") /\ Follows(c, is, "delete", 0)
        /\ StoreAt(c, "idle") /\ UNCHANGED <<vector, storeFaults>>
    BY <1>4 DEF SoftDelete
  <2>3. 0 \in 0 .. MaxVersion
    OBVIOUS
  <2>. QED
    BY <2>1, <2>2, <2>3, ChangeShape
<1>5. ASSUME NEW is \in SUBSET Items, Maintain(c, is) PROVE MemoryInv'
  <2> DEFINE lapsed == {i \in Items : Live(i) /\ row[i].lapsed}
             gone == lapsed \cup is
  <2>1. /\ \A j \in Items \ gone : row'[j] = row[j]
        /\ \A j \in gone : row'[j].status \in {"deleted", "purged"}
        /\ row' \in [Items -> [status : {"unused", "live", "deleted", "purged"},
                               version : 0 .. MaxVersion, lapsed : BOOLEAN]]
    BY <1>1, <1>5 DEF Maintain
  <2>2. gone \in SUBSET Items
    OBVIOUS
  <2>3. /\ queue' = Intends(gone, "delete") /\ Follows(c, gone, "delete", 0)
        /\ StoreAt(c, "idle") /\ UNCHANGED <<vector, storeFaults>>
    BY <1>5 DEF Maintain
  <2> HIDE DEF gone
  <2>. QED
    BY <2>1, <2>2, <2>3, ChangeShape
<1>. QED
  BY <1>2, <1>3, <1>4, <1>5 DEF Change

\* A reindex is at one item at a time.
LEMMA Single ==
    ASSUME MemoryInv, NEW c \in Stores, store[c].op = "reindex"
    PROVE  \A i, j \in store[c].batch : i = j
BY DEF MemoryInv, OneAtATime

\* Ends of an operation, and of one of its calls.
LEMMA NoOpFacts ==
    /\ NoOp \in Operation /\ NoOp.op = "none" /\ NoOp.pc = "idle" /\ NoOp.batch = {} /\ NoOp.todo = {}
BY MemoryAssumption DEF NoOp, Operation

LEMMA GivesUp ==
    ASSUME MemoryInv, OneStore, NEW c \in Stores, proceeds(c, NoOp),
           storeFaults' \in 0 .. MaxStoreFaults, UNCHANGED <<row, vector, queue>>
    PROVE  MemoryInv'
<1>1. store'[c] = NoOp /\ MemoryTypeOK'
  BY NoOpFacts, StoreStep DEF MemoryInv, MemoryTypeOK
<1>2. DriftIsQueued' /\ DeletesAreMeant'
  BY DEF MemoryInv, DriftIsQueued, DeletesAreMeant, Active, Live
<1>. QED
  BY <1>1, <1>2, NoOpFacts, OnlyClient

LEMMA Facts ==
    ASSUME MemoryInv, NEW c \in Stores
    PROVE  /\ store[c] \in Operation /\ store[c].batch \subseteq Items
           /\ store[c].op = "retry" => store[c].todo \subseteq Intent
           /\ store[c].op # "retry" => store[c].todo \subseteq Items
           /\ row \in [Items -> [status : {"unused", "live", "deleted", "purged"},
                                 version : 0 .. MaxVersion, lapsed : BOOLEAN]]
           /\ vector \in [Items -> 0 .. MaxVersion]
           /\ queue \in [Items -> {"none", "upsert", "delete"}]
BY DEF MemoryInv, MemoryTypeOK, Operation

LEMMA CallFacts ==
    ASSUME MemoryInv, NEW c \in Stores, NEW i \in store[c].batch
    PROVE  /\ i \in Items /\ queue[i] = store[c].note
           /\ store[c].pc = "index" /\ store[c].call = "upsert" =>
                  Live(i) /\ store[c].version = row[i].version
           /\ store[c].pc = "index" /\ store[c].call # "upsert" => ~Active(i)
           /\ store[c].pc = "reread" =>
                  vector[i] = store[c].version /\ store[c].version = row[i].version
           /\ store[c].pc = "clear" => UpToDate(i)
           /\ store[c].op = "reindex" => Live(i)
BY Facts DEF MemoryInv, CallIsQueued, StoreAt

LEMMA RestFacts ==
    ASSUME MemoryInv, NEW c \in Stores
    PROVE  /\ store[c].op = "retry" =>
                  \A e \in store[c].todo : queue[e.item] = e.op /\ e.item \notin store[c].batch
           /\ store[c].op = "reindex" =>
                  \A i \in store[c].todo : /\ Live(i) /\ i \notin store[c].batch
                                           /\ store[c].pc # "seed" => queue[i] = "upsert"
           /\ store[c].pc \in {"seed", "reset"} =>
                  /\ store[c].op = "reindex" /\ store[c].batch = {}
                  /\ \A i \in Items : Active(i) => i \in store[c].todo
           /\ store[c].pc \in {"read", "reread"} => store[c].op = "reindex"
           /\ store[c].pc = "next" => store[c].batch = {}
BY DEF MemoryInv, RestIsQueued, StoreAt

LEMMA DriftFacts ==
    ASSUME MemoryInv, NEW i \in Items
    PROVE  /\ Active(i) /\ vector[i] # row[i].version => queue[i] = "upsert"
           /\ row[i].status = "deleted" /\ vector[i] # 0 => queue[i] # "none"
           /\ row[i].status = "purged" /\ vector[i] # 0 => queue[i] = "delete"
           /\ queue[i] = "delete" => row[i].status \in {"deleted", "purged"}
BY DEF MemoryInv, DriftIsQueued, DeletesAreMeant

\* An operation that only moves on, to a call it has looked up.
LEMMA MovesOn ==
    ASSUME MemoryInv, OneStore, NEW c \in Stores, NEW new \in Operation, proceeds(c, new),
           new.op = store[c].op, new.todo = store[c].todo, new.batch = store[c].batch,
           new.note = store[c].note, new.pc \in {"index", "read", "note", "clear", "next"},
           new.pc = "read" => store[c].op = "reindex", new.pc = "next" => store[c].batch = {},
           \A i \in store[c].batch :
               /\ new.pc = "index" /\ new.call = "upsert" => Live(i) /\ new.version = row[i].version
               /\ new.pc = "index" /\ new.call # "upsert" => ~Active(i)
               /\ new.pc = "clear" => UpToDate(i),
           store[c].pc # "seed",
           storeFaults' \in 0 .. MaxStoreFaults, UNCHANGED <<row, vector, queue>>
    PROVE  MemoryInv'
<1>1. store'[c] = new /\ MemoryTypeOK'
  BY Facts, StoreStep DEF MemoryInv, MemoryTypeOK
<1>2. DriftIsQueued' /\ DeletesAreMeant'
  BY DEF MemoryInv, DriftIsQueued, DeletesAreMeant, Active, Live
<1>3. \A i \in Items : (Live(i)' <=> Live(i)) /\ (Active(i)' <=> Active(i)) /\ (UpToDate(i)' <=> UpToDate(i))
  BY DEF Live, Active, UpToDate
<1>. QED
  BY <1>1, <1>2, <1>3, CallFacts, RestFacts, Facts, Single, OnlyClient

LEMMA CallIndexStep ==
    ASSUME MemoryInv, OneStore, NEW c \in Stores, CallIndex(c)
    PROVE  MemoryInv'
<1>1. store[c].pc = "index" /\ UNCHANGED <<row, queue, storeFaults>>
  BY DEF CallIndex, StoreAt
<1>2. \A i \in Items : vector'[i] = IF i \notin store[c].batch THEN vector[i] ELSE
                                    IF store[c].call = "upsert" THEN store[c].version ELSE 0
  BY DEF CallIndex, Indexed
<1>3. vector' \in [Items -> 0 .. MaxVersion]
  BY Facts, MemoryAssumption DEF CallIndex, Indexed, Operation
<1> DEFINE new == [store[c] EXCEPT !.pc = IF store[c].op = "reindex" /\ store[c].call = "upsert"
                                          THEN "reread" ELSE "clear"]
<1>4. /\ new \in Operation /\ new.op = store[c].op /\ new.todo = store[c].todo
      /\ new.batch = store[c].batch /\ new.note = store[c].note /\ new.version = store[c].version
      /\ new.pc = IF store[c].op = "reindex" /\ store[c].call = "upsert" THEN "reread" ELSE "clear"
  BY Facts DEF Operation
<1>5. proceeds(c, new)
  BY DEF CallIndex
<1> HIDE DEF new
<1>6. store'[c] = new /\ MemoryTypeOK'
  BY <1>1, <1>3, <1>4, <1>5, Facts, StoreStep DEF MemoryInv, MemoryTypeOK
<1>7. \A i \in store[c].batch : UpToDate(i)'
  BY <1>1, <1>2, CallFacts, DriftFacts, Facts DEF UpToDate, Active, Live
<1>8. DriftIsQueued'
  BY <1>1, <1>2, <1>7, DriftFacts, Facts DEF DriftIsQueued, UpToDate, Active, Live
<1>9. DeletesAreMeant'
  BY <1>1 DEF MemoryInv, DeletesAreMeant
<1>10. \A i \in Items : (Live(i)' <=> Live(i)) /\ (Active(i)' <=> Active(i))
  BY <1>1 DEF Live, Active
<1>. QED
  BY <1>1, <1>2, <1>4, <1>6, <1>7, <1>8, <1>9, <1>10, CallFacts, RestFacts, Facts, Single, OnlyClient

\* One item of the call is settled.
LEMMA SettlesOne ==
    ASSUME MemoryInv, OneStore, NEW c \in Stores, NEW i \in store[c].batch,
           store[c].pc \in {"clear", "note"}, proceeds(c, OneLess(c, i)),
           queue' \in [Items -> {"none", "upsert", "delete"}],
           \A j \in Items \ {i} : queue'[j] = queue[j],
           queue'[i] = queue[i] \/ (queue'[i] = "none" /\ UpToDate(i)),
           storeFaults' \in 0 .. MaxStoreFaults, UNCHANGED <<row, vector>>
    PROVE  MemoryInv'
<1> DEFINE new == OneLess(c, i)
<1>1. CASE new = NoOp
  <2>1. /\ NoOp \in Operation /\ NoOp.op = "none" /\ NoOp.pc = "idle" /\ NoOp.batch = {} /\ NoOp.todo = {}
    BY NoOpFacts
  <2>2. store'[c] = NoOp /\ MemoryTypeOK'
    BY <1>1, <2>1, StoreStep DEF MemoryInv, MemoryTypeOK
  <2>3. DriftIsQueued' /\ DeletesAreMeant'
    BY Facts, DriftFacts DEF DriftIsQueued, DeletesAreMeant, UpToDate, Active, Live
  <2>. QED
    BY <2>1, <2>2, <2>3, OnlyClient
<1>2. CASE new # NoOp
  <2>1. /\ new \in Operation /\ new.op = store[c].op /\ new.todo = store[c].todo /\ new.note = store[c].note
        /\ new.batch = store[c].batch \ {i}
        /\ \/ new.pc = store[c].pc
           \/ new.pc = "next" /\ new.batch = {}
    BY <1>2, Facts DEF OneLess, Operation
  <2>2. proceeds(c, new)
    OBVIOUS
  <2> HIDE DEF new
  <2>3. store'[c] = new /\ MemoryTypeOK'
    BY <2>1, <2>2, Facts, StoreStep DEF MemoryInv, MemoryTypeOK
  <2>4. DriftIsQueued' /\ DeletesAreMeant'
    BY Facts, DriftFacts DEF DriftIsQueued, DeletesAreMeant, UpToDate, Active, Live
  <2>5. \A j \in Items : (Live(j)' <=> Live(j)) /\ (Active(j)' <=> Active(j)) /\ (UpToDate(j)' <=> UpToDate(j))
    BY DEF Live, Active, UpToDate
  <2>6. \A j \in new.batch : j \in store[c].batch /\ j # i /\ j \in Items /\ queue'[j] = queue[j]
    BY <2>1, Facts
  <2>7. \A j \in store[c].todo : store[c].op = "reindex" => j # i /\ j \in Items
    BY RestFacts, Facts
  <2>8. \A e \in store[c].todo : store[c].op = "retry" => e.item # i /\ e.item \in Items
    BY RestFacts, Facts DEF Intent
  <2>. QED
    BY <2>1, <2>3, <2>4, <2>5, <2>6, <2>7, <2>8, CallFacts, RestFacts, Single, OnlyClient
<1>. QED
  BY <1>1, <1>2

LEMMA QueueStep ==
    ASSUME MemoryInv, OneStore, NEW c \in Stores, NEW i \in Items,
           ClearIntent(c, i) \/ Note(c, i) \/ QueueFails(c, i)
    PROVE  MemoryInv'
<1>0. storeFaults \in 0 .. MaxStoreFaults /\ storeFaults' \in 0 .. MaxStoreFaults
  BY MemoryAssumption DEF MemoryInv, MemoryTypeOK, ClearIntent, Note, QueueFails, StoreFault
<1>1. CASE ClearIntent(c, i)
  <2>1. UpToDate(i) /\ queue'[i] = "none"
    BY <1>1, CallFacts, Facts DEF ClearIntent, StoreAt
  <2>. QED
    BY <1>0, <1>1, <2>1, SettlesOne, Facts DEF ClearIntent, StoreAt
<1>2. CASE Note(c, i)
  <2>1. queue' = queue
    BY <1>2, CallFacts, Facts DEF Note
  <2>. QED
    BY <1>0, <1>2, <2>1, SettlesOne, Facts DEF Note, StoreAt
<1>3. CASE QueueFails(c, i)
  BY <1>0, <1>3, SettlesOne, Facts DEF QueueFails
<1>. QED
  BY <1>1, <1>2, <1>3

\* A call fails, a row is read, or read again.
LEMMA CallStep ==
    ASSUME MemoryInv, OneStore, NEW c \in Stores, IndexFails(c) \/ ReadRow(c) \/ RereadRow(c)
    PROVE  MemoryInv'
<1>0. storeFaults \in 0 .. MaxStoreFaults
  BY DEF MemoryInv, MemoryTypeOK
<1>1. CASE IndexFails(c)
  <2> DEFINE new == [store[c] EXCEPT !.pc = "note"]
  <2>1. /\ new \in Operation /\ new.op = store[c].op /\ new.todo = store[c].todo
        /\ new.note = store[c].note /\ new.batch = store[c].batch /\ new.pc = "note"
    BY Facts DEF Operation
  <2>2. /\ proceeds(c, new) /\ store[c].pc = "index" /\ storeFaults' \in 0 .. MaxStoreFaults
        /\ UNCHANGED <<row, vector, queue>>
    BY <1>0, <1>1, MemoryAssumption DEF IndexFails, StoreAt, StoreFault
  <2> HIDE DEF new
  <2>. QED
    BY <2>1, <2>2, MovesOn
<1>2. ASSUME ReadRow(c) PROVE MemoryInv'
  <2>1. /\ store[c].pc = "read" /\ store[c].op = "reindex"
        /\ storeFaults' \in 0 .. MaxStoreFaults /\ UNCHANGED <<row, vector, queue>>
    BY <1>0, <1>2, RestFacts DEF ReadRow, StoreAt
  <2>2. PICK i \in store[c].batch :
           proceeds(c, IF Missing(i) \/ store[c].tries = 3 THEN [store[c] EXCEPT !.pc = "note"]
                       ELSE InLine(c, i))
    BY <1>2 DEF ReadRow
  <2> DEFINE new == IF Missing(i) \/ store[c].tries = 3 THEN [store[c] EXCEPT !.pc = "note"]
                    ELSE InLine(c, i)
  <2>3. \A j \in store[c].batch : j = i
    BY <2>1, Single
  <2>4. /\ new \in Operation /\ new.op = store[c].op /\ new.todo = store[c].todo
        /\ new.note = store[c].note /\ new.batch = store[c].batch /\ new.pc \in {"note", "index"}
        /\ new.pc = "index" /\ new.call = "upsert" => Active(i) /\ new.version = row[i].version
        /\ new.pc = "index" /\ new.call # "upsert" => ~Active(i)
    BY Facts, MemoryAssumption DEF Operation, InLine
  <2>5. proceeds(c, new)
    BY <2>2
  <2> HIDE DEF new
  <2>. QED
    BY <2>1, <2>3, <2>4, <2>5, MovesOn DEF Active
<1>3. ASSUME RereadRow(c) PROVE MemoryInv'
  <2>1. /\ store[c].pc = "reread" /\ store[c].op = "reindex"
        /\ storeFaults' \in 0 .. MaxStoreFaults /\ UNCHANGED <<row, vector, queue>>
    BY <1>0, <1>3, RestFacts DEF RereadRow, StoreAt
  <2> DEFINE next(i) ==
        CASE Missing(i) -> [store[c] EXCEPT !.pc = "note"]
          [] Active(i) /\ row[i].version = store[c].version -> [store[c] EXCEPT !.pc = "clear"]
          [] Active(i) /\ row[i].version # store[c].version ->
                 [store[c] EXCEPT !.pc = "read", !.tries = @ + 1]
          [] OTHER -> [store[c] EXCEPT !.pc = "index", !.call = "delete"]
  <2>2. PICK i \in store[c].batch : proceeds(c, next(i))
    BY <1>3 DEF RereadRow
  <2>3. \A j \in store[c].batch : j = i
    BY <2>1, Single
  <2>4. /\ Live(i) /\ vector[i] = store[c].version /\ store[c].version = row[i].version
    BY <2>1, CallFacts
  <2>5. UpToDate(i)
    BY <2>4 DEF UpToDate, Live
  <2>6. ~Missing(i)
    BY <2>4 DEF Missing, Live
  <2> DEFINE new == IF Active(i) THEN [store[c] EXCEPT !.pc = "clear"]
                    ELSE [store[c] EXCEPT !.pc = "index", !.call = "delete"]
  <2>7. /\ new \in Operation /\ new.op = store[c].op /\ new.todo = store[c].todo
        /\ new.note = store[c].note /\ new.batch = store[c].batch /\ new.pc \in {"clear", "index"}
        /\ new.pc = "index" => new.call = "delete" /\ ~Active(i)
    BY Facts DEF Operation
  <2>8. proceeds(c, new)
    <3>1. next(i) = new
      BY <2>4, <2>6
    <3>. QED
      BY <2>2, <3>1
  <2> HIDE DEF new
  <2>. QED
    BY <2>1, <2>3, <2>5, <2>7, <2>8, MovesOn
<1>. QED
  BY <1>1, <1>2, <1>3

\* A retry loads the intents.
LEMMA LoadIntentsStep ==
    ASSUME MemoryInv, OneStore, NEW c \in Stores, LoadIntents(c)
    PROVE  MemoryInv'
<1> DEFINE loaded == {[item |-> i, op |-> queue[i]] : i \in Intents}
           new == [NoOp EXCEPT !.op = "retry", !.pc = "next", !.todo = loaded]
<1>1. loaded \subseteq Intent /\ \A e \in loaded : queue[e.item] = e.op
  BY Facts DEF Intents, Intent
<1>4. proceeds(c, new) /\ UNCHANGED <<row, vector, queue, storeFaults>>
  BY DEF LoadIntents
<1> HIDE DEF loaded
<1>2. /\ new \in Operation /\ new.op = "retry" /\ new.pc = "next" /\ new.batch = {}
      /\ new.todo = loaded
  <2>1. loaded \in SUBSET (Items \cup Intent)
    BY <1>1
  <2>. QED
    BY <2>1, NoOpFacts DEF Operation
<1>3. \A e \in new.todo : queue[e.item] = e.op
  BY <1>1, <1>2
<1>5. new.todo \subseteq Intent
  BY <1>1, <1>2
<1> HIDE DEF new
<1>6. store'[c] = new /\ MemoryTypeOK'
  BY <1>2, <1>4, <1>5, StoreStep DEF MemoryInv, MemoryTypeOK
<1>7. DriftIsQueued' /\ DeletesAreMeant'
  BY <1>4 DEF MemoryInv, DriftIsQueued, DeletesAreMeant, Active, Live
<1>. QED
  BY <1>2, <1>3, <1>4, <1>6, <1>7, OnlyClient

LEMMA RetryNextStep ==
    ASSUME MemoryInv, OneStore, NEW c \in Stores, RetryNext(c)
    PROVE  MemoryInv'
<1>1. /\ store[c].pc = "next" /\ store[c].op = "retry" /\ store[c].batch = {}
      /\ UNCHANGED <<row, vector, queue, storeFaults>>
  BY RestFacts DEF RetryNext, StoreAt
<1>2. storeFaults \in 0 .. MaxStoreFaults
  BY DEF MemoryInv, MemoryTypeOK
<1>3. CASE proceeds(c, NoOp)
  BY <1>1, <1>2, <1>3, GivesUp
<1>4. ASSUME NEW e \in store[c].todo, ~proceeds(c, NoOp),
             LET new == Retried(c, e) IN
             proceeds(c, IF new = NoOp THEN NoOp
                         ELSE [new EXCEPT !.batch = {e.item}, !.note = e.op, !.todo = @ \ {e}])
      PROVE  MemoryInv'
  <2>1. /\ e \in Intent /\ e.item \in Items /\ e.op \in {"upsert", "delete"} /\ queue[e.item] = e.op
        /\ \A x \in store[c].todo : x \in Intent /\ queue[x.item] = x.op
    BY <1>1, Facts, RestFacts DEF Intent
  <2> DEFINE r == Retried(c, e)
             new == [r EXCEPT !.batch = {e.item}, !.note = e.op, !.todo = @ \ {e}]
  <2>2. r # NoOp
    BY <1>4
  <2>3. /\ r \in Operation /\ r.op = "retry" /\ r.pc = "index" /\ r.todo = store[c].todo
        /\ r.call = "upsert" => Active(e.item) /\ r.version = row[e.item].version
        /\ r.call # "upsert" => ~Active(e.item)
    <3>1. CASE e.op = "delete"
      <4>1. r = [store[c] EXCEPT !.pc = "index", !.call = "delete"]
        BY <3>1 DEF Retried
      <4>2. ~Active(e.item)
        BY <2>1, <3>1, DriftFacts DEF Active, Live
      <4> HIDE DEF r
      <4>. QED
        BY <1>1, <4>1, <4>2, Facts DEF Operation
    <3>2. CASE e.op # "delete"
      BY <1>1, <2>1, <2>2, <3>2, Facts, MemoryAssumption DEF Retried, InLine, Operation
    <3>. QED
      BY <3>1, <3>2
  <2> HIDE DEF r
  <2>4. /\ new \in Operation /\ new.op = "retry" /\ new.pc = "index"
        /\ new.todo = store[c].todo \ {e} /\ new.batch = {e.item} /\ new.note = e.op
        /\ new.call = r.call /\ new.version = r.version
    BY <2>1, <2>3 DEF Operation
  <2>5. proceeds(c, new)
    BY <1>4, <2>2 DEF r
  <2>6. new.todo \subseteq Intent
    BY <2>1, <2>4
  <2> HIDE DEF new
  <2>7. store'[c] = new /\ MemoryTypeOK'
    BY <1>1, <2>4, <2>5, <2>6, StoreStep DEF MemoryInv, MemoryTypeOK
  <2>8. DriftIsQueued' /\ DeletesAreMeant'
    BY <1>1 DEF MemoryInv, DriftIsQueued, DeletesAreMeant, Active, Live
  <2>9. \A x \in store[c].todo : x.item = e.item => x = e
    <3> SUFFICES ASSUME NEW x \in store[c].todo, x.item = e.item PROVE x = e
      OBVIOUS
    <3>1. x \in Intent /\ x.op = e.op
      BY <2>1
    <3>. QED
      BY <2>1, <3>1 DEF Intent
  <2>10. \A x \in new.todo : queue[x.item] = x.op /\ x.item # e.item
    BY <2>1, <2>4, <2>9
  <2>11. (Live(e.item)' <=> Live(e.item)) /\ (Active(e.item)' <=> Active(e.item))
    BY <1>1 DEF Live, Active
  <2>. QED
    BY <1>1, <2>1, <2>3, <2>4, <2>7, <2>8, <2>10, <2>11, OnlyClient DEF Active
<1>. QED
  BY <1>3, <1>4 DEF RetryNext

\* A reindex loads the rows, seeds their intents, empties the index and goes
\* through them.
LEMMA ReindexStep ==
    ASSUME MemoryInv, OneStore, NEW c \in Stores,
           LoadItems(c) \/ SeedIntents(c) \/ ResetIndex(c) \/ ReindexNext(c)
    PROVE  MemoryInv'
<1>0. storeFaults \in 0 .. MaxStoreFaults
  BY DEF MemoryInv, MemoryTypeOK
<1>1. ASSUME LoadItems(c) PROVE MemoryInv'
  <2> DEFINE active == {i \in Items : Active(i)}
             new == [NoOp EXCEPT !.op = "reindex", !.pc = "seed", !.todo = active]
  <2>1. active \subseteq Items /\ (\A i \in active : Live(i)) /\ \A i \in Items : Active(i) => i \in active
    BY DEF Active
  <2>2. proceeds(c, new) /\ UNCHANGED <<row, vector, queue, storeFaults>>
    BY <1>1 DEF LoadItems
  <2> HIDE DEF active
  <2>3. /\ new \in Operation /\ new.op = "reindex" /\ new.pc = "seed" /\ new.batch = {} /\ new.todo = active
    <3>1. active \in SUBSET (Items \cup Intent)
      BY <2>1
    <3>. QED
      BY <3>1, NoOpFacts DEF Operation
  <2> HIDE DEF new
  <2>4. store'[c] = new /\ MemoryTypeOK'
    BY <2>1, <2>2, <2>3, StoreStep DEF MemoryInv, MemoryTypeOK
  <2>5. DriftIsQueued' /\ DeletesAreMeant'
    BY <2>2 DEF MemoryInv, DriftIsQueued, DeletesAreMeant, Active, Live
  <2>6. \A i \in Items : (Live(i)' <=> Live(i)) /\ (Active(i)' <=> Active(i))
    BY <2>2 DEF Live, Active
  <2>. QED
    BY <2>1, <2>3, <2>4, <2>5, <2>6, OnlyClient
<1>2. ASSUME SeedIntents(c) PROVE MemoryInv'
  <2> DEFINE new == [store[c] EXCEPT !.pc = "reset"]
  <2>1. /\ store[c].pc = "seed" /\ store[c].op = "reindex" /\ store[c].batch = {}
        /\ store[c].todo \subseteq Items /\ \A i \in store[c].todo : Live(i)
        /\ \A i \in Items : Active(i) => i \in store[c].todo
    BY <1>2, RestFacts, Facts DEF SeedIntents, StoreAt
  <2>2. proceeds(c, new) /\ UNCHANGED <<row, vector, storeFaults>>
    BY <1>2 DEF SeedIntents
  <2>3. /\ new \in Operation /\ new.op = "reindex" /\ new.pc = "reset" /\ new.batch = {}
        /\ new.todo = store[c].todo
    BY <2>1, Facts DEF Operation
  <2>4. /\ queue' \in [Items -> {"none", "upsert", "delete"}]
        /\ \A i \in Items : queue'[i] = IF i \in store[c].todo THEN "upsert" ELSE queue[i]
    BY <1>2, Facts DEF SeedIntents, Seeded, Intends
  <2> HIDE DEF new
  <2>5. store'[c] = new /\ MemoryTypeOK'
    BY <2>1, <2>2, <2>3, <2>4, StoreStep DEF MemoryInv, MemoryTypeOK
  <2>6. DriftIsQueued' /\ DeletesAreMeant'
    BY <2>1, <2>2, <2>4, DriftFacts DEF DriftIsQueued, DeletesAreMeant, Active, Live
  <2>7. \A i \in Items : (Live(i)' <=> Live(i)) /\ (Active(i)' <=> Active(i))
    BY <2>2 DEF Live, Active
  <2>. QED
    BY <2>1, <2>3, <2>4, <2>5, <2>6, <2>7, OnlyClient
<1>3. ASSUME ResetIndex(c) PROVE MemoryInv'
  <2>1. /\ store[c].pc = "reset" /\ store[c].op = "reindex" /\ store[c].batch = {}
        /\ \A i \in store[c].todo : Live(i) /\ queue[i] = "upsert"
        /\ store[c].todo \subseteq Items
        /\ \A i \in Items : Active(i) => i \in store[c].todo
    BY <1>3, RestFacts, Facts DEF ResetIndex, StoreAt
  <2>2. CASE StoreFault /\ proceeds(c, NoOp) /\ UNCHANGED vector
    BY <1>0, <1>3, <2>2, GivesUp, MemoryAssumption DEF ResetIndex, StoreFault
  <2>3. CASE vector' = [i \in Items |-> 0] /\ UNCHANGED storeFaults
             /\ proceeds(c, [store[c] EXCEPT !.pc = "next"])
    <3> DEFINE new == [store[c] EXCEPT !.pc = "next"]
    <3>1. /\ new \in Operation /\ new.op = "reindex" /\ new.pc = "next" /\ new.batch = {}
          /\ new.todo = store[c].todo
      BY <2>1, Facts DEF Operation
    <3>2. proceeds(c, new) /\ UNCHANGED <<row, queue, storeFaults>>
      BY <1>3, <2>3 DEF ResetIndex
    <3>3. vector' \in [Items -> 0 .. MaxVersion] /\ \A i \in Items : vector'[i] = 0
      BY <2>3, MemoryAssumption
    <3> HIDE DEF new
    <3>4. store'[c] = new /\ MemoryTypeOK'
      BY <2>1, <3>1, <3>2, <3>3, StoreStep DEF MemoryInv, MemoryTypeOK
    <3>5. DriftIsQueued' /\ DeletesAreMeant'
      BY <2>1, <3>2, <3>3, DriftFacts DEF DriftIsQueued, DeletesAreMeant, Active, Live
    <3>6. \A i \in Items : (Live(i)' <=> Live(i)) /\ (Active(i)' <=> Active(i))
      BY <3>2 DEF Live, Active
    <3>. QED
      BY <2>1, <3>1, <3>2, <3>4, <3>5, <3>6, OnlyClient
  <2>. QED
    BY <1>3, <2>2, <2>3 DEF ResetIndex
<1>4. ASSUME ReindexNext(c) PROVE MemoryInv'
  <2>1. /\ store[c].pc = "next" /\ store[c].op = "reindex" /\ store[c].batch = {}
        /\ \A i \in store[c].todo : Live(i) /\ queue[i] = "upsert"
        /\ store[c].todo \subseteq Items
        /\ UNCHANGED <<row, vector, queue, storeFaults>>
    BY <1>4, RestFacts, Facts DEF ReindexNext, StoreAt
  <2>2. CASE proceeds(c, NoOp)
    BY <1>0, <2>1, <2>2, GivesUp
  <2>3. ASSUME NEW i \in store[c].todo,
               proceeds(c, [store[c] EXCEPT !.pc = "read", !.batch = {i}, !.todo = @ \ {i},
                                            !.note = "upsert", !.tries = 0])
        PROVE  MemoryInv'
    <3> DEFINE new == [store[c] EXCEPT !.pc = "read", !.batch = {i}, !.todo = @ \ {i},
                                       !.note = "upsert", !.tries = 0]
    <3>1. /\ new \in Operation /\ new.op = "reindex" /\ new.pc = "read" /\ new.batch = {i}
          /\ new.todo = store[c].todo \ {i} /\ new.note = "upsert"
      <4>1. store[c].todo \ {i} \in SUBSET (Items \cup Intent) /\ {i} \in SUBSET Items
        BY <2>1
      <4>2. 0 \in Nat /\ store[c] \in Operation
        BY Facts
      <4>. QED
        BY <2>1, <4>1, <4>2 DEF Operation
    <3>2. proceeds(c, new)
      BY <2>3
    <3> HIDE DEF new
    <3>3. store'[c] = new /\ MemoryTypeOK'
      BY <2>1, <3>1, <3>2, StoreStep DEF MemoryInv, MemoryTypeOK
    <3>4. DriftIsQueued' /\ DeletesAreMeant'
      BY <2>1 DEF MemoryInv, DriftIsQueued, DeletesAreMeant, Active, Live
    <3>5. \A j \in Items : (Live(j)' <=> Live(j)) /\ (Active(j)' <=> Active(j))
      BY <2>1 DEF Live, Active
    <3>. QED
      BY <2>1, <3>1, <3>3, <3>4, <3>5, OnlyClient
  <2>. QED
    BY <1>4, <2>2, <2>3 DEF ReindexNext
<1>. QED
  BY <1>1, <1>2, <1>3, <1>4

\* A row that lapses asks less of the index.
LEMMA LapsesStep ==
    ASSUME MemoryInv, OneStore, NEW x \in Items, Lapses(x)
    PROVE  MemoryInv'
<1>1. /\ row' \in [Items -> [status : {"unused", "live", "deleted", "purged"},
                             version : 0 .. MaxVersion, lapsed : BOOLEAN]]
      /\ \A i \in Items : row'[i].status = row[i].status /\ row'[i].version = row[i].version
      /\ \A i \in Items : (Live(i)' <=> Live(i)) /\ (Active(i)' => Active(i))
      /\ UNCHANGED <<vector, queue, store, storeFaults>>
  BY DEF MemoryInv, MemoryTypeOK, Lapses, Live, Active
<1>2. \A i \in Items : UpToDate(i) => UpToDate(i)'
  BY <1>1 DEF UpToDate
<1>3. MemoryTypeOK'
  BY <1>1 DEF MemoryInv, MemoryTypeOK
<1>4. DriftIsQueued' /\ DeletesAreMeant' /\ OneAtATime'
  BY <1>1 DEF MemoryInv, DriftIsQueued, DeletesAreMeant, OneAtATime
<1>5. CallIsQueued'
  <2> SUFFICES ASSUME NEW c \in Stores, NEW i \in store[c].batch
               PROVE  /\ queue[i] = store[c].note
                      /\ StoreAt(c, "index") /\ store[c].call = "upsert" =>
                             Live(i)' /\ store[c].version = row'[i].version
                      /\ StoreAt(c, "index") /\ store[c].call # "upsert" => ~Active(i)'
                      /\ StoreAt(c, "reread") =>
                             vector[i] = store[c].version /\ store[c].version = row'[i].version
                      /\ StoreAt(c, "clear") => UpToDate(i)'
                      /\ store[c].op = "reindex" => Live(i)'
    BY <1>1 DEF CallIsQueued, StoreAt
  <2>. QED
    BY <1>1, <1>2, CallFacts DEF StoreAt
<1>6. RestIsQueued'
  <2> SUFFICES ASSUME NEW c \in Stores
               PROVE  /\ store[c].op = "retry" =>
                             \A e \in store[c].todo : queue[e.item] = e.op /\ e.item \notin store[c].batch
                      /\ store[c].op = "reindex" =>
                             \A i \in store[c].todo : /\ Live(i)' /\ i \notin store[c].batch
                                                      /\ store[c].pc # "seed" => queue[i] = "upsert"
                      /\ store[c].pc \in {"seed", "reset"} =>
                             /\ store[c].op = "reindex" /\ store[c].batch = {}
                             /\ \A i \in Items : Active(i)' => i \in store[c].todo
                      /\ store[c].pc \in {"read", "reread"} => store[c].op = "reindex"
                      /\ store[c].pc = "next" => store[c].batch = {}
    BY <1>1 DEF RestIsQueued, StoreAt
  <2>. QED
    BY <1>1, Facts, RestFacts
<1>. QED
  BY <1>3, <1>4, <1>5, <1>6 DEF MemoryInv

\* With a single client of the database, wherever the index differs from the
\* rows an intent in the queue puts it right, whatever fails or dies.
THEOREM DriftIsQueuedHolds ==
    ASSUME OneStore
    PROVE  MemorySpec => []DriftIsQueued
<1>1. MemoryInit => MemoryInv
  <2> SUFFICES ASSUME MemoryInit PROVE MemoryInv
    OBVIOUS
  <2>1. /\ NoOp \in Operation /\ NoOp.op = "none" /\ NoOp.pc = "idle" /\ NoOp.batch = {} /\ NoOp.todo = {}
    BY NoOpFacts
  <2>2. \A c \in Stores : store[c] = NoOp
    BY DEF MemoryInit
  <2>3. MemoryTypeOK
    <3>1. store \in [Stores -> Operation]
      BY <2>1 DEF MemoryInit
    <3>2. /\ row \in [Items -> [status : {"unused", "live", "deleted", "purged"},
                                version : 0 .. MaxVersion, lapsed : BOOLEAN]]
          /\ vector \in [Items -> 0 .. MaxVersion]
          /\ queue \in [Items -> {"none", "upsert", "delete"}]
          /\ storeFaults \in 0 .. MaxStoreFaults
      BY MemoryAssumption DEF MemoryInit, NoRow
    <3>. QED
      BY <2>1, <2>2, <3>1, <3>2 DEF MemoryTypeOK
  <2>4. DriftIsQueued /\ DeletesAreMeant
    BY DEF MemoryInit, NoRow, DriftIsQueued, DeletesAreMeant, Active, Live
  <2>. QED
    BY <2>1, <2>2, <2>3, <2>4 DEF MemoryInv, CallIsQueued, RestIsQueued, OneAtATime, StoreAt
<1>2. MemoryInv /\ [MemoryNext]_memoryVars => MemoryInv'
  <2> SUFFICES ASSUME MemoryInv, [MemoryNext]_memoryVars PROVE MemoryInv'
    OBVIOUS
  <2>1. ASSUME NEW c \in Stores, Change(c) \/ Sync(c) \/ StoreDies(c) PROVE MemoryInv'
    <3>1. CASE StoreDies(c)
      BY <3>1, GivesUp, MemoryAssumption DEF StoreDies, StoreFault, MemoryInv, MemoryTypeOK
    <3>. QED
      BY <2>1, <3>1, ChangeStep, CallIndexStep, CallStep, QueueStep, LoadIntentsStep, RetryNextStep,
         ReindexStep DEF Sync
  <2>2. CASE \E i \in Items : Lapses(i)
    BY <2>2, LapsesStep
  <2>3. CASE UNCHANGED memoryVars
    BY <2>3 DEF memoryVars, MemoryInv, MemoryTypeOK, DriftIsQueued, DeletesAreMeant, CallIsQueued,
                RestIsQueued, OneAtATime, StoreAt, Active, Live, UpToDate
  <2>. QED
    BY <2>1, <2>2, <2>3 DEF MemoryNext
<1>3. MemoryInv => DriftIsQueued
  BY DEF MemoryInv
<1>. QED
  BY <1>1, <1>2, <1>3, PTL DEF MemorySpec

-----------------------------------------------------------------------------
(* The extraction of a memory file *)

LEMMA ExtractFacts ==
    ASSUME ExtractInv
    PROVE  /\ marker \in {"none", "fresh", "stale"}
           /\ journal \in [alive : BOOLEAN, old : BOOLEAN, exists : BOOLEAN]
           /\ memory_file \subseteq Extractions
           /\ cursor \in 0 .. MaxMessages /\ length \in [Conversations -> 0 .. MaxMessages]
           /\ talk \in [Conversations -> [pc : {"idle", "turn", "create", "clean", "journal"},
                                          base : 0 .. MaxMessages]]
           /\ extractor \in [Extractors -> [pc : {"idle", "read", "run", "settle", "save", "drop"},
                                            n : 0 .. MaxExtractions, upto : 0 .. MaxMessages,
                                            read : SUBSET Extractions, edited : BOOLEAN]]
           /\ outcome \in [Extractions -> {"none", "running", "no_change", "recorded", "rejected",
                                           "unsaved"}]
           /\ mishaps \in 0 .. MaxMishaps /\ mishaps \in Nat
BY ExtractAssumption DEF ExtractInv, ExtractTypeOK

\* A turn that takes a step without founding an extraction.
LEMMA TalkStep ==
    ASSUME ExtractInv, layer = "auto", NEW c \in Conversations,
           NEW new \in [pc : {"idle", "turn", "create", "clean", "journal"}, base : 0 .. MaxMessages],
           Talks(c, new), new.pc # "journal", ~Founds(c),
           new.pc = "clean" => OneConversation /\ \A x \in Extractors : ~AtWork(x),
           length' \in [Conversations -> 0 .. MaxMessages],
           \/ UNCHANGED <<marker, journal>>
           \/ /\ marker' = "none" /\ journal' \in {journal, NoJournal}
              /\ \A d \in Conversations : ~Founds(d)
              /\ \A x \in Extractors : ~AtWork(x),
           UNCHANGED <<layer, memory_file, cursor, extractor, outcome, mishaps>>
    PROVE  ExtractInv'
<1>1. talk'[c] = new /\ \A d \in Conversations : d # c => talk'[d] = talk[d]
  BY ExtractFacts DEF Talks
<1>2. NoJournal \in [alive : BOOLEAN, old : BOOLEAN, exists : BOOLEAN] /\ ~NoJournal.exists
  BY DEF NoJournal
<1>3. ExtractTypeOK'
  <2>1. talk' \in [Conversations -> [pc : {"idle", "turn", "create", "clean", "journal"},
                                     base : 0 .. MaxMessages]]
    BY ExtractFacts DEF Talks
  <2>2. marker' \in {"none", "fresh", "stale"}
        /\ journal' \in [alive : BOOLEAN, old : BOOLEAN, exists : BOOLEAN]
    BY <1>2, ExtractFacts
  <2>. QED
    BY <2>1, <2>2, ExtractFacts DEF ExtractTypeOK
<1>4. /\ \A x \in Extractors : AtWork(x)' <=> AtWork(x)
      /\ \A d \in Conversations : Founds(d)' <=> Founds(d)
  BY <1>1 DEF AtWork, Founds
<1>5. OneExtraction'
  BY <1>4 DEF ExtractInv, OneExtraction
<1>6. LeftoversAreDead'
  <2>1. \A d \in Conversations : talk'[d].pc = "clean" =>
             OneConversation /\ \A x \in Extractors : ~AtWork(x)'
    BY <1>1, <1>4 DEF ExtractInv, LeftoversAreDead
  <2>2. mishaps = 0 /\ marker' # "none" =>
             (\E d \in Conversations : Founds(d)') \/ (\E x \in Extractors : AtWork(x)')
    BY <1>4 DEF ExtractInv, LeftoversAreDead
  <2>3. mishaps = 0 /\ journal'.exists => journal'.alive
    BY <1>2 DEF ExtractInv, LeftoversAreDead
  <2>. QED
    BY <2>1, <2>2, <2>3 DEF LeftoversAreDead
<1>7. EditsAreRead' /\ ExtractedStays'
  BY DEF ExtractInv, EditsAreRead, ExtractedStays
<1>. QED
  BY <1>3, <1>5, <1>6, <1>7 DEF ExtractInv

LEMMA ChatKeeps ==
    ASSUME ExtractInv, layer = "auto", MaxMishaps = 0 \/ OneConversation, NEW c \in Conversations,
           StartTurn(c) \/ CompactTurn(c) \/ Evaluate(c) \/ CleanMarker(c)
    PROVE  ExtractInv'
<1> USE ExtractAssumption
<1>0. /\ talk[c].base \in 0 .. MaxMessages
      /\ \A a, b \in 0 .. MaxMessages : Smaller(a, b) \in 0 .. MaxMessages
      /\ length[c] \in 0 .. MaxMessages
  BY ExtractFacts DEF Smaller
<1>1. ASSUME StartTurn(c) PROVE ExtractInv'
  <2> DEFINE new == [pc |-> "turn", base |-> cursor]
  <2>1. new \in [pc : {"idle", "turn", "create", "clean", "journal"}, base : 0 .. MaxMessages]
        /\ new.pc = "turn"
    BY ExtractFacts
  <2>2. length' \in [Conversations -> 0 .. MaxMessages]
    BY <1>1, ExtractFacts DEF StartTurn, Smaller
  <2>3. \/ UNCHANGED <<marker, journal>>
        \/ /\ marker' = "none" /\ journal' \in {journal, NoJournal}
           /\ \A d \in Conversations : ~Founds(d)
           /\ \A x \in Extractors : ~AtWork(x)
    <3>1. CASE journal.exists /\ JournalStale
      <4>1. \A x \in Extractors : ~AtWork(x)
        BY <3>1 DEF JournalStale, ExtractInv, OneExtraction
      <4>2. mishaps # 0
        BY <3>1 DEF JournalStale, ExtractInv, LeftoversAreDead
      <4>3. OneConversation
        BY <4>2, ExtractFacts
      <4>4. \A d \in Conversations : ~Founds(d)
        BY <1>1, <4>3 DEF OneConversation, Founds, StartTurn
      <4>. QED
        BY <1>1, <3>1, <4>1, <4>4 DEF StartTurn
    <3>2. CASE ~(journal.exists /\ JournalStale)
      BY <1>1, <3>2 DEF StartTurn
    <3>. QED
      BY <3>1, <3>2
  <2>. QED
    BY <1>1, <2>1, <2>2, <2>3, TalkStep DEF StartTurn, Founds
<1>2. ASSUME CompactTurn(c) PROVE ExtractInv'
  <2> DEFINE new == [talk[c] EXCEPT !.base = Smaller(talk[c].base, 1)]
  <2>1. /\ new \in [pc : {"idle", "turn", "create", "clean", "journal"}, base : 0 .. MaxMessages]
        /\ new.pc = "turn"
    BY <1>0, <1>2, ExtractFacts DEF CompactTurn, Smaller
  <2>2. length' \in [Conversations -> 0 .. MaxMessages]
    BY <1>0, <1>2, ExtractFacts DEF CompactTurn
  <2>. QED
    BY <1>2, <2>1, <2>2, TalkStep DEF CompactTurn, Founds
<1>3. ASSUME Evaluate(c) PROVE ExtractInv'
  <2>1. PICK pc \in {"create", "clean", "idle"} :
            /\ Talks(c, [talk[c] EXCEPT !.pc = pc])
            /\ pc = "clean" => Leftover
    BY <1>3 DEF Evaluate
  <2> DEFINE new == [talk[c] EXCEPT !.pc = pc]
  <2>2. /\ new \in [pc : {"idle", "turn", "create", "clean", "journal"}, base : 0 .. MaxMessages]
        /\ new.pc = pc
    BY ExtractFacts
  <2>3. Leftover => OneConversation /\ \A x \in Extractors : ~AtWork(x)
    <3> SUFFICES ASSUME Leftover PROVE OneConversation /\ \A x \in Extractors : ~AtWork(x)
      OBVIOUS
    <3>1. \A x \in Extractors : ~AtWork(x)
      BY DEF Leftover, JournalStale, ExtractInv, OneExtraction
    <3>2. \A d \in Conversations : ~Founds(d)
      BY DEF Leftover, ExtractInv, OneExtraction
    <3>3. mishaps # 0
      BY <3>1, <3>2 DEF Leftover, ExtractInv, LeftoversAreDead
    <3>. QED
      BY <3>1, <3>3, ExtractFacts
  <2>. QED
    BY <1>3, <2>1, <2>2, <2>3, ExtractFacts, TalkStep DEF Evaluate, Founds
<1>4. ASSUME CleanMarker(c) PROVE ExtractInv'
  <2>1. OneConversation /\ (\A x \in Extractors : ~AtWork(x)) /\ talk[c].pc = "clean"
    BY <1>4 DEF CleanMarker, ExtractInv, LeftoversAreDead
  <2>2. \A d \in Conversations : ~Founds(d)
    BY <2>1 DEF OneConversation, Founds
  <2> DEFINE new == [talk[c] EXCEPT !.pc = IF Grown(c) THEN "create" ELSE "idle"]
  <2>3. /\ new \in [pc : {"idle", "turn", "create", "clean", "journal"}, base : 0 .. MaxMessages]
        /\ new.pc \in {"create", "idle"}
    BY ExtractFacts
  <2>. QED
    BY <1>4, <2>1, <2>2, <2>3, ExtractFacts, TalkStep DEF CleanMarker
<1>. QED
  BY <1>1, <1>2, <1>3, <1>4

LEMMA CreateMarkerStep ==
    ASSUME ExtractInv, layer = "auto", NEW c \in Conversations, CreateMarker(c)
    PROVE  ExtractInv'
<1>1. CASE Talks(c, NoTurn) /\ UNCHANGED marker
  <2>1. /\ NoTurn \in [pc : {"idle", "turn", "create", "clean", "journal"}, base : 0 .. MaxMessages]
        /\ NoTurn.pc = "idle"
    BY ExtractAssumption DEF NoTurn
  <2>. QED
    BY <1>1, <2>1, ExtractFacts, TalkStep DEF CreateMarker, Founds
<1>2. CASE marker = "none" /\ marker' = "fresh" /\ Talks(c, [talk[c] EXCEPT !.pc = "journal"])
  <2>1. /\ talk' \in [Conversations -> [pc : {"idle", "turn", "create", "clean", "journal"},
                                        base : 0 .. MaxMessages]]
        /\ talk'[c].pc = "journal" /\ \A d \in Conversations : d # c => talk'[d] = talk[d]
    BY <1>2, ExtractFacts DEF Talks
  <2>2. UNCHANGED <<layer, journal, memory_file, cursor, length, extractor, outcome, mishaps>>
    BY DEF CreateMarker
  <2>3. ExtractTypeOK'
    BY <1>2, <2>1, <2>2 DEF ExtractInv, ExtractTypeOK
  <2>4. (\A x \in Extractors : ~AtWork(x)) /\ \A d \in Conversations : ~Founds(d)
    BY <1>2 DEF ExtractInv, OneExtraction
  <2>5. (\A x \in Extractors : ~AtWork(x)') /\ \A d \in Conversations : Founds(d)' <=> d = c
    BY <2>1, <2>2, <2>4 DEF AtWork, Founds
  <2>6. OneExtraction'
    BY <1>2, <2>5 DEF OneExtraction
  <2>7. LeftoversAreDead'
    BY <2>1, <2>2, <2>5 DEF ExtractInv, LeftoversAreDead
  <2>8. EditsAreRead' /\ ExtractedStays'
    BY <2>2 DEF ExtractInv, EditsAreRead, ExtractedStays
  <2>. QED
    BY <2>3, <2>6, <2>7, <2>8 DEF ExtractInv
<1>. QED
  BY <1>1, <1>2 DEF CreateMarker

LEMMA SpawnStep ==
    ASSUME ExtractInv, layer = "auto", NEW c \in Conversations, SpawnExtractor(c)
    PROVE  ExtractInv'
<1>1. PICK x \in Extractors, n \in Extractions :
          /\ extractor[x].pc = "idle"
          /\ Works(x, [NoTask EXCEPT !.pc = "read", !.n = n, !.upto = length[c]])
          /\ outcome' = [outcome EXCEPT ![n] = "running"]
  BY DEF SpawnExtractor
<1>2. /\ Founds(c) /\ journal' = [alive |-> TRUE, old |-> FALSE, exists |-> TRUE]
      /\ talk' = [talk EXCEPT ![c] = NoTurn]
      /\ UNCHANGED <<layer, marker, memory_file, cursor, length, mishaps>>
  BY DEF SpawnExtractor, Founds, Talks
<1> DEFINE new == [NoTask EXCEPT !.pc = "read", !.n = n, !.upto = length[c]]
<1>3. /\ new \in [pc : {"idle", "read", "run", "settle", "save", "drop"},
                  n : 0 .. MaxExtractions, upto : 0 .. MaxMessages,
                  read : SUBSET Extractions, edited : BOOLEAN]
      /\ new.pc = "read" /\ new.edited = FALSE /\ new.n = n
  <2>1. n \in 0 .. MaxExtractions /\ 0 \in 0 .. MaxMessages /\ length[c] \in 0 .. MaxMessages
    BY ExtractFacts, ExtractAssumption DEF Extractions
  <2>. QED
    BY <2>1 DEF NoTask
<1>4. Works(x, new)
  BY <1>1
<1> HIDE DEF new
<1>5. /\ extractor'[x] = new /\ \A y \in Extractors : y # x => extractor'[y] = extractor[y]
      /\ extractor' \in [Extractors -> [pc : {"idle", "read", "run", "settle", "save", "drop"},
                                        n : 0 .. MaxExtractions, upto : 0 .. MaxMessages,
                                        read : SUBSET Extractions, edited : BOOLEAN]]
  BY <1>3, <1>4, ExtractFacts DEF Works
<1>6. /\ talk' \in [Conversations -> [pc : {"idle", "turn", "create", "clean", "journal"},
                                      base : 0 .. MaxMessages]]
      /\ talk'[c].pc = "idle" /\ \A d \in Conversations : d # c => talk'[d] = talk[d]
  BY <1>2, ExtractFacts, ExtractAssumption DEF NoTurn
<1>7. /\ outcome' \in [Extractions -> {"none", "running", "no_change", "recorded", "rejected",
                                       "unsaved"}]
      /\ \A m \in Extractions : outcome'[m] = "recorded" => outcome[m] = "recorded"
  BY <1>1, ExtractFacts
<1>8. ExtractTypeOK'
  BY <1>2, <1>5, <1>6, <1>7, ExtractFacts DEF ExtractTypeOK
<1>9. /\ \A y \in Extractors : AtWork(y)' <=> y = x
      /\ \A d \in Conversations : ~Founds(d)'
  <2>1. (\A y \in Extractors : ~AtWork(y)) /\ (\A d \in Conversations : Founds(d) => d = c)
    BY <1>2 DEF ExtractInv, OneExtraction
  <2>. QED
    BY <1>3, <1>5, <1>6, <2>1 DEF AtWork, Founds
<1>10. OneExtraction'
  BY <1>2, <1>9 DEF OneExtraction, ExtractInv
<1>11. LeftoversAreDead'
  <2>1. \A d \in Conversations : d # c => talk[d].pc # "clean"
    BY <1>2 DEF ExtractInv, LeftoversAreDead, OneConversation
  <2>2. \A d \in Conversations : talk'[d].pc # "clean"
    BY <1>6, <2>1
  <2>. QED
    BY <1>2, <1>9, <2>2 DEF LeftoversAreDead
<1>12. EditsAreRead'
  BY <1>2, <1>3, <1>5, <1>7 DEF ExtractInv, EditsAreRead
<1>13. ExtractedStays'
  BY <1>2, <1>7 DEF ExtractInv, ExtractedStays
<1>. QED
  BY <1>8, <1>10, <1>11, <1>12, <1>13 DEF ExtractInv

\* The only task at work takes a step: what is asked of its new state.
LEMMA WorkStep ==
    ASSUME ExtractInv, layer = "auto", NEW x \in Extractors, AtWork(x),
           NEW new \in [pc : {"idle", "read", "run", "settle", "save", "drop"},
                        n : 0 .. MaxExtractions, upto : 0 .. MaxMessages,
                        read : SUBSET Extractions, edited : BOOLEAN],
           Works(x, new),
           cursor' \in 0 .. MaxMessages, memory_file' \subseteq Extractions,
           outcome' \in [Extractions -> {"none", "running", "no_change", "recorded", "rejected",
                                         "unsaved"}],
           mishaps' \in 0 .. MaxMishaps,
           \/ /\ new.pc # "idle" /\ mishaps' >= mishaps
              /\ UNCHANGED <<marker, journal>>
           \/ /\ new.pc = "idle" /\ mishaps' > mishaps
              /\ UNCHANGED <<marker, journal>>
           \/ /\ new.pc = "idle" /\ mishaps' = mishaps
              /\ marker' = "none" /\ journal' = NoJournal,
           new.pc \in {"run", "settle"} =>
               \A n \in Extractions : outcome'[n] = "recorded" => n \in new.read,
           new.pc \in {"read", "run"} => ~new.edited,
           new.pc \in {"read", "run", "settle", "save"} => new.n \in Extractions,
           new.pc \in {"settle", "save"} /\ new.edited => new.n \in memory_file',
           \A n \in Extractions : outcome'[n] = "recorded" => n \in memory_file',
           UNCHANGED <<layer, length, talk>>
    PROVE  ExtractInv'
<1>1. /\ extractor'[x] = new /\ \A y \in Extractors : y # x => extractor'[y] = extractor[y]
      /\ extractor' \in [Extractors -> [pc : {"idle", "read", "run", "settle", "save", "drop"},
                                        n : 0 .. MaxExtractions, upto : 0 .. MaxMessages,
                                        read : SUBSET Extractions, edited : BOOLEAN]]
  BY ExtractFacts DEF Works
<1>2. NoJournal \in [alive : BOOLEAN, old : BOOLEAN, exists : BOOLEAN] /\ ~NoJournal.exists
  BY DEF NoJournal
<1>3. ExtractTypeOK'
  BY <1>1, <1>2, ExtractFacts DEF ExtractTypeOK
<1>4. /\ \A y \in Extractors : y # x => ~AtWork(y) /\ extractor[y].pc = "idle"
      /\ \A d \in Conversations : ~Founds(d)
  BY DEF ExtractInv, OneExtraction, AtWork
<1>5. /\ \A y \in Extractors : AtWork(y)' <=> (y = x /\ new.pc # "idle")
      /\ \A d \in Conversations : ~Founds(d)'
      /\ \A y \in Extractors : y # x => extractor'[y].pc = "idle"
  BY <1>1, <1>4 DEF AtWork, Founds
<1>6. OneExtraction'
  BY <1>5 DEF ExtractInv, OneExtraction
<1>7. LeftoversAreDead'
  <2>1. \A d \in Conversations : talk'[d].pc # "clean"
    BY DEF ExtractInv, LeftoversAreDead
  <2>2. mishaps' = 0 => mishaps = 0 /\ (new.pc # "idle" \/ marker' = "none")
    BY ExtractFacts
  <2>. QED
    BY <1>2, <1>5, <2>1, <2>2 DEF ExtractInv, LeftoversAreDead
<1>8. EditsAreRead'
  BY <1>1, <1>5 DEF EditsAreRead
<1>9. ExtractedStays'
  BY DEF ExtractedStays
<1>. QED
  BY <1>3, <1>6, <1>7, <1>8, <1>9 DEF ExtractInv

LEMMA ExtractorKeeps ==
    ASSUME ExtractInv, layer = "auto", NEW x \in Extractors, ExtractorStep(x)
    PROVE  ExtractInv'
<1> DEFINE Task == [pc : {"idle", "read", "run", "settle", "save", "drop"},
                    n : 0 .. MaxExtractions, upto : 0 .. MaxMessages,
                    read : SUBSET Extractions, edited : BOOLEAN]
           me == extractor[x]
<1>0. me \in Task
  BY ExtractFacts
<1>1. /\ me.pc \in {"run", "settle"} =>
             \A n \in Extractions : outcome[n] = "recorded" => n \in me.read
      /\ me.pc \in {"read", "run"} => ~me.edited
      /\ me.pc \in {"read", "run", "settle", "save"} => me.n \in Extractions
      /\ me.pc \in {"settle", "save"} /\ me.edited => me.n \in memory_file
  BY DEF ExtractInv, EditsAreRead
<1>2. \A n \in Extractions : outcome[n] = "recorded" => n \in memory_file
  BY DEF ExtractInv, ExtractedStays
<1>3. ASSUME ReadMemory(x) PROVE ExtractInv'
  <2>1. AtWork(x) /\ me.pc = "read"
    BY <1>3 DEF ReadMemory, AtWork
  <2>2. CASE Works(x, [me EXCEPT !.pc = "run", !.read = memory_file])
    <3> DEFINE new == [me EXCEPT !.pc = "run", !.read = memory_file]
    <3>1. new \in Task /\ new.pc = "run" /\ new.read = memory_file /\ new.n = me.n /\ new.edited = me.edited
      BY <1>0, ExtractFacts
    <3>2. Works(x, new)
      BY <2>2
    <3> HIDE DEF new
    <3>. QED
      BY <1>1, <1>2, <1>3, <2>1, <3>1, <3>2, WorkStep, ExtractFacts DEF ReadMemory
  <2>3. CASE Works(x, [me EXCEPT !.pc = "drop"])
    <3> DEFINE new == [me EXCEPT !.pc = "drop"]
    <3>1. new \in Task /\ new.pc = "drop"
      BY <1>0
    <3>. QED
      BY <1>2, <1>3, <2>1, <2>3, <3>1, WorkStep, ExtractFacts DEF ReadMemory
  <2>. QED
    BY <1>3, <2>2, <2>3 DEF ReadMemory
<1>4. ASSUME RunAgent(x) PROVE ExtractInv'
  <2>1. AtWork(x) /\ me.pc = "run" /\ me.n \in Extractions
    BY <1>1, <1>4 DEF RunAgent, AtWork
  <2>2. UNCHANGED <<layer, marker, journal, cursor, length, talk, outcome, mishaps>>
    BY <1>4 DEF RunAgent
  <2>3. CASE memory_file' = memory_file \cup {me.n}
             /\ Works(x, [me EXCEPT !.pc = "settle", !.edited = TRUE])
    <3> DEFINE new == [me EXCEPT !.pc = "settle", !.edited = TRUE]
    <3>1. new \in Task /\ new.pc = "settle" /\ new.read = me.read /\ new.n = me.n
      BY <1>0
    <3>2. Works(x, new)
      BY <2>3
    <3> HIDE DEF new
    <3>3. memory_file' \subseteq Extractions
      BY <2>1, <2>3, ExtractFacts
    <3>. QED
      BY <1>1, <1>2, <2>1, <2>2, <2>3, <3>1, <3>2, <3>3, WorkStep, ExtractFacts
  <2>4. ASSUME NEW pc \in {"save", "drop"}, Works(x, [me EXCEPT !.pc = pc]), UNCHANGED memory_file
        PROVE  ExtractInv'
    <3> DEFINE new == [me EXCEPT !.pc = pc]
    <3>1. new \in Task /\ new.pc = pc /\ new.n = me.n /\ new.edited = me.edited
      BY <1>0
    <3>2. Works(x, new)
      BY <2>4
    <3> HIDE DEF new
    <3>. QED
      BY <1>1, <1>2, <2>1, <2>2, <2>4, <3>1, <3>2, WorkStep, ExtractFacts
  <2>. QED
    BY <1>4, <2>3, <2>4 DEF RunAgent
<1>5. ASSUME SettleEdit(x) PROVE ExtractInv'
  <2>1. AtWork(x) /\ me.pc = "settle" /\ me.n \in Extractions
    BY <1>1, <1>5 DEF SettleEdit, AtWork
  <2>2. UNCHANGED <<layer, marker, journal, cursor, length, talk, mishaps>>
    BY <1>5 DEF SettleEdit
  <2>3. CASE Works(x, [me EXCEPT !.pc = "save"]) /\ UNCHANGED <<memory_file, outcome>>
    <3> DEFINE new == [me EXCEPT !.pc = "save"]
    <3>1. new \in Task /\ new.pc = "save" /\ new.n = me.n /\ new.edited = me.edited
      BY <1>0
    <3>2. Works(x, new)
      BY <2>3
    <3> HIDE DEF new
    <3>. QED
      BY <1>1, <1>2, <2>1, <2>2, <2>3, <3>1, <3>2, WorkStep, ExtractFacts
  <2>4. CASE memory_file' = me.read /\ outcome' = [outcome EXCEPT ![me.n] = "rejected"]
             /\ Works(x, [me EXCEPT !.pc = "drop"])
    <3> DEFINE new == [me EXCEPT !.pc = "drop"]
    <3>1. new \in Task /\ new.pc = "drop"
      BY <1>0
    <3>2. Works(x, new)
      BY <2>4
    <3> HIDE DEF new
    <3>3. /\ outcome' \in [Extractions -> {"none", "running", "no_change", "recorded", "rejected",
                                           "unsaved"}]
          /\ \A m \in Extractions : outcome'[m] = "recorded" => outcome[m] = "recorded"
      BY <2>1, <2>4, ExtractFacts
    <3>4. memory_file' \subseteq Extractions
      BY <1>0, <2>4
    <3>. QED
      BY <1>1, <2>1, <2>2, <2>4, <3>1, <3>2, <3>3, <3>4, WorkStep, ExtractFacts
  <2>. QED
    BY <1>5, <2>3, <2>4 DEF SettleEdit
<1>6. ASSUME SaveCursor(x) PROVE ExtractInv'
  <2>1. AtWork(x) /\ me.pc = "save" /\ me.n \in Extractions
    BY <1>1, <1>6 DEF SaveCursor, AtWork
  <2>2. UNCHANGED <<layer, marker, journal, memory_file, length, talk>>
    BY <1>6 DEF SaveCursor
  <2>3. CASE /\ cursor' = me.upto
             /\ outcome' = [outcome EXCEPT ![me.n] = IF me.edited THEN "recorded" ELSE "no_change"]
             /\ Works(x, [me EXCEPT !.pc = "drop"])
             /\ UNCHANGED mishaps
    <3> DEFINE new == [me EXCEPT !.pc = "drop"]
    <3>1. new \in Task /\ new.pc = "drop" /\ me.upto \in 0 .. MaxMessages
      BY <1>0
    <3>2. Works(x, new)
      BY <2>3
    <3> HIDE DEF new
    <3>3. /\ outcome' \in [Extractions -> {"none", "running", "no_change", "recorded", "rejected",
                                           "unsaved"}]
          /\ \A m \in Extractions : outcome'[m] = "recorded" => m \in memory_file
      BY <1>1, <1>2, <2>1, <2>3, ExtractFacts
    <3>. QED
      BY <2>1, <2>2, <2>3, <3>1, <3>2, <3>3, WorkStep, ExtractFacts
  <2>4. CASE /\ Mishap
             /\ outcome' = [outcome EXCEPT ![me.n] = "unsaved"]
             /\ Works(x, NoTask)
             /\ UNCHANGED cursor
    <3>1. NoTask \in Task /\ NoTask.pc = "idle"
      BY ExtractAssumption DEF NoTask
    <3>2. /\ outcome' \in [Extractions -> {"none", "running", "no_change", "recorded", "rejected",
                                           "unsaved"}]
          /\ \A m \in Extractions : outcome'[m] = "recorded" => m \in memory_file
      BY <1>2, <2>1, <2>4, ExtractFacts
    <3>3. mishaps' \in 0 .. MaxMishaps /\ mishaps' > mishaps
      BY <2>4, ExtractFacts, ExtractAssumption DEF Mishap
    <3>. QED
      BY <2>1, <2>2, <2>4, <3>1, <3>2, <3>3, WorkStep, ExtractFacts
  <2>. QED
    BY <1>6, <2>3, <2>4 DEF SaveCursor
<1>7. ASSUME DropGuard(x) PROVE ExtractInv'
  <2>1. AtWork(x) /\ NoTask \in Task /\ NoTask.pc = "idle"
    BY <1>7, ExtractAssumption DEF DropGuard, AtWork, NoTask
  <2>. QED
    BY <1>2, <1>7, <2>1, WorkStep, ExtractFacts DEF DropGuard
<1>. QED
  BY <1>3, <1>4, <1>5, <1>6, <1>7 DEF ExtractorStep

LEMMA ProcessDiesStep ==
    ASSUME ExtractInv, layer = "auto", ProcessDies
    PROVE  ExtractInv'
<1>1. /\ NoTurn \in [pc : {"idle", "turn", "create", "clean", "journal"}, base : 0 .. MaxMessages]
      /\ NoTurn.pc = "idle"
      /\ NoTask \in [pc : {"idle", "read", "run", "settle", "save", "drop"},
                     n : 0 .. MaxExtractions, upto : 0 .. MaxMessages,
                     read : SUBSET Extractions, edited : BOOLEAN]
      /\ NoTask.pc = "idle"
  BY ExtractAssumption DEF NoTurn, NoTask
<1>2. /\ \A c \in Conversations : talk'[c].pc = "idle"
      /\ \A x \in Extractors : extractor'[x].pc = "idle"
      /\ mishaps' \in 0 .. MaxMishaps /\ mishaps' # 0
      /\ UNCHANGED <<layer, marker, memory_file, cursor, length, outcome>>
  BY <1>1, ExtractFacts, ExtractAssumption DEF ProcessDies, Mishap
<1>3. ExtractTypeOK'
  BY <1>1, <1>2, ExtractFacts DEF ProcessDies, ExtractTypeOK
<1>4. OneExtraction' /\ LeftoversAreDead' /\ EditsAreRead'
  BY <1>2 DEF OneExtraction, LeftoversAreDead, EditsAreRead, AtWork, Founds
<1>5. ExtractedStays'
  BY <1>2 DEF ExtractInv, ExtractedStays
<1>. QED
  BY <1>3, <1>4, <1>5 DEF ExtractInv

LEMMA FilesAgeStep ==
    ASSUME ExtractInv, layer = "auto", FilesAge
    PROVE  ExtractInv'
<1>1. /\ marker' \in {"none", "fresh", "stale"} /\ (marker' = "none" <=> marker = "none")
      /\ journal' \in [alive : BOOLEAN, old : BOOLEAN, exists : BOOLEAN]
      /\ journal'.alive = journal.alive /\ journal'.exists = journal.exists
      /\ \A c \in Conversations : Founds(c) => marker' = marker
  BY ExtractFacts DEF FilesAge, Founds
<1>2. UNCHANGED <<layer, memory_file, cursor, length, talk, extractor, outcome, mishaps>>
  BY DEF FilesAge
<1>3. ExtractTypeOK'
  BY <1>1, <1>2 DEF ExtractInv, ExtractTypeOK
<1>4. OneExtraction' /\ LeftoversAreDead' /\ EditsAreRead' /\ ExtractedStays'
  BY <1>1, <1>2 DEF ExtractInv, OneExtraction, LeftoversAreDead, EditsAreRead, ExtractedStays, AtWork, Founds
<1>. QED
  BY <1>3, <1>4 DEF ExtractInv

\* What an extraction of the user's memory has recorded stays in the file, if no
\* process dies and every cursor is saved, or if there is one conversation.
THEOREM AutoExtractedStaysHolds ==
    ASSUME MaxMishaps = 0 \/ OneConversation
    PROVE  ExtractSpec => []AutoExtractedStays
<1> DEFINE Inv == layer = "auto" => ExtractInv
<1>1. ExtractInit => Inv
  <2> SUFFICES ASSUME ExtractInit, layer = "auto" PROVE ExtractInv
    OBVIOUS
  <2> USE ExtractAssumption
  <2>1. /\ \A c \in Conversations : talk[c].pc = "idle"
        /\ \A x \in Extractors : extractor[x].pc = "idle"
        /\ marker = "none" /\ ~journal.exists /\ \A n \in Extractions : outcome[n] = "none"
    BY DEF ExtractInit, NoTurn, NoTask, NoJournal
  <2>2. ExtractTypeOK
    <3>1. 0 \in 0 .. MaxMessages /\ 0 \in 0 .. MaxExtractions /\ 0 \in 0 .. MaxMishaps
      OBVIOUS
    <3>. QED
      BY <3>1 DEF ExtractInit, ExtractTypeOK, NoTurn, NoTask, NoJournal
  <2>. QED
    BY <2>1, <2>2 DEF ExtractInv, OneExtraction, LeftoversAreDead, EditsAreRead, ExtractedStays, AtWork, Founds
<1>2. Inv /\ [ExtractNext]_extractVars => Inv'
  <2> SUFFICES ASSUME Inv, [ExtractNext]_extractVars, layer' = "auto" PROVE ExtractInv'
    OBVIOUS
  <2>1. CASE ExtractNext
    <3>1. layer' = layer
      BY <2>1 DEF ExtractNext, ChatStep, ExtractorStep, StartTurn, CompactTurn, Evaluate, CleanMarker,
                  CreateMarker, SpawnExtractor, ReadMemory, RunAgent, SettleEdit, SaveCursor, DropGuard,
                  ProcessDies, FilesAge
    <3>2. layer = "auto" /\ ExtractInv
      BY <3>1
    <3> HIDE DEF Inv
    <3>. QED
      BY <2>1, <3>2, ChatKeeps, CreateMarkerStep, SpawnStep, ExtractorKeeps, ProcessDiesStep, FilesAgeStep
      DEF ExtractNext, ChatStep
  <2>2. CASE UNCHANGED extractVars
    <3>1. ExtractInv
      BY <2>2 DEF extractVars
    <3>. QED
      BY <2>2, <3>1 DEF extractVars, ExtractInv, ExtractTypeOK, OneExtraction, LeftoversAreDead, EditsAreRead,
                        ExtractedStays, AtWork, Founds
  <2>. QED
    BY <2>1, <2>2
<1>3. Inv => AutoExtractedStays
  BY DEF AutoExtractedStays, ExtractInv
<1> HIDE DEF Inv
<1>. QED
  BY <1>1, <1>2, <1>3, PTL DEF ExtractSpec

-----------------------------------------------------------------------------
(* The dreams *)

LEMMA DreamFacts ==
    ASSUME DreamTypeOK
    PROVE  /\ dream_state \in DreamState /\ dream_lock \in Dreamers \cup {Nobody}
           /\ memory \in [MemoryFiles -> 0 .. MaxRuns]
           /\ dreamer \in [Dreamers -> Dreamer] /\ rewritten \in [Runs -> SUBSET MemoryFiles]
           /\ sessions \in 0 .. MaxSessions /\ faults \in 0 .. MaxFaults
           /\ \A b \in backups :
                 /\ b \in Backup /\ b.by \in Dreamers /\ b.manifest \in BOOLEAN
                 /\ DOMAIN b.files \subseteq MemoryFiles
                 /\ b.files = [f \in DOMAIN b.files |-> b.files[f]]
                 /\ \A f \in DOMAIN b.files : b.files[f] \in 0 .. MaxRuns
BY DEF DreamTypeOK, Backup

\* What a recovery would leave: the memory, under the one backup there may be.
LEMMA KeptNow ==
    DreamTypeOK /\ OneBackup =>
        /\ Kept \in [MemoryFiles -> 0 .. MaxRuns]
        /\ dream_state.flag = "no" \/ (\A b \in backups : ~b.manifest) => Kept = memory
        /\ dream_state.flag # "no" => Kept = Restored(backups)
        /\ \A b \in backups : b.manifest /\ dream_state.flag # "no" =>
              \A f \in MemoryFiles : Kept[f] = IF f \in DOMAIN b.files THEN b.files[f] ELSE memory[f]
<1> SUFFICES ASSUME DreamTypeOK, OneBackup
             PROVE  /\ Kept \in [MemoryFiles -> 0 .. MaxRuns]
                    /\ dream_state.flag = "no" \/ (\A b \in backups : ~b.manifest) => Kept = memory
                    /\ dream_state.flag # "no" => Kept = Restored(backups)
                    /\ \A b \in backups : b.manifest /\ dream_state.flag # "no" =>
                          \A f \in MemoryFiles :
                              Kept[f] = IF f \in DOMAIN b.files THEN b.files[f] ELSE memory[f]
  OBVIOUS
<1>1. CASE dream_state.flag = "no"
  BY <1>1, DreamFacts DEF Kept
<1>2. CASE dream_state.flag # "no" /\ \A b \in backups : ~b.manifest
  <2>1. Restored(backups) = memory
    BY <1>2, DreamFacts DEF Restored
  <2>. QED
    BY <1>2, <2>1, DreamFacts DEF Kept
<1>3. ASSUME dream_state.flag # "no", NEW b \in backups, b.manifest
      PROVE  /\ Kept \in [MemoryFiles -> 0 .. MaxRuns]
             /\ \A f \in MemoryFiles : Kept[f] = IF f \in DOMAIN b.files THEN b.files[f] ELSE memory[f]
  <2>1. \A a \in backups : a = b
    BY DEF OneBackup
  <2>2. ASSUME NEW f \in MemoryFiles
        PROVE  Restored(backups)[f] = IF f \in DOMAIN b.files THEN b.files[f] ELSE memory[f]
    <3>1. CASE f \in DOMAIN b.files
      <4>1. (CHOOSE a \in backups : a.manifest /\ f \in DOMAIN a.files) = b
        BY <1>3, <2>1, <3>1
      <4>2. \E a \in backups : a.manifest /\ f \in DOMAIN a.files
        BY <1>3, <3>1
      <4>. QED
        BY <3>1, <4>1, <4>2 DEF Restored
    <3>2. CASE f \notin DOMAIN b.files
      <4>1. ~\E a \in backups : a.manifest /\ f \in DOMAIN a.files
        BY <2>1, <3>2
      <4>. QED
        BY <3>2, <4>1 DEF Restored
    <3>. QED
      BY <3>1, <3>2
  <2>3. Restored(backups) = [f \in MemoryFiles |-> Restored(backups)[f]]
    BY DEF Restored
  <2>4. \A f \in MemoryFiles : Restored(backups)[f] \in 0 .. MaxRuns
    BY <2>2, DreamFacts
  <2>5. Kept = Restored(backups)
    BY <1>3 DEF Kept
  <2> HIDE DEF Kept
  <2>. QED
    BY <2>2, <2>3, <2>4, <2>5
<1>. QED
  BY <1>1, <1>2, <1>3 DEF Kept

LEMMA KeptNext ==
    (DreamTypeOK /\ OneBackup)' =>
        /\ Kept' \in [MemoryFiles -> 0 .. MaxRuns]
        /\ dream_state'.flag = "no" \/ (\A b \in backups' : ~b.manifest) => Kept' = memory'
        /\ \A b \in backups' : b.manifest /\ dream_state'.flag # "no" =>
              \A f \in MemoryFiles : Kept'[f] = IF f \in DOMAIN b.files THEN b.files[f] ELSE memory'[f]
<1>1. (DreamTypeOK /\ OneBackup =>
        /\ Kept \in [MemoryFiles -> 0 .. MaxRuns]
        /\ dream_state.flag = "no" \/ (\A b \in backups : ~b.manifest) => Kept = memory
        /\ dream_state.flag # "no" => Kept = Restored(backups)
        /\ \A b \in backups : b.manifest /\ dream_state.flag # "no" =>
              \A f \in MemoryFiles : Kept[f] = IF f \in DOMAIN b.files THEN b.files[f] ELSE memory[f])'
  BY KeptNow, PTL
<1>. QED
  BY <1>1

LEMMA DreamerStep ==
    ASSUME DreamTypeOK, NEW p \in Dreamers, NEW new \in Dreamer, sleeps(p, new)
    PROVE  dreamer'[p] = new /\ dreamer' \in [Dreamers -> Dreamer]
BY DEF DreamTypeOK, sleeps

\* With one dreamer the backups and the lock are its own.
LEMMA Alone ==
    ASSUME DreamInv, OneDreamer, NEW p \in Dreamers
    PROVE  /\ \A q \in Dreamers : q = p
           /\ Mine(p) = backups /\ dream_lock \in {p, Nobody} /\ p # Nobody
           /\ OnDisk(p) /\ \A a, b \in backups : a = b
BY DreamFacts, DreamAssumption DEF DreamInv, OneDreamer, OneBackup, RunIsOnDisk, Mine

LEMMA OnlyDreamer ==
    ASSUME OneDreamer, NEW p \in Dreamers, DreamTypeOK', RunsInOrder', KeptIsRecorded', OneBackup',
           dream_state'.current <= sessions', dreamer'[p].state.current <= sessions',
           dreamer'[p].processed <= sessions', OnDisk(p)'
    PROVE  DreamInv'
<1>1. \A q \in Dreamers : q = p
  BY DEF OneDreamer
<1>2. RunIsOnDisk'
  BY <1>1 DEF RunIsOnDisk
<1>. QED
  BY <1>1, <1>2 DEF DreamInv, CopiesLagBehind

\* A step that leaves what a recovery would leave.
LEMMA KeepsKept ==
    ASSUME DreamInv, Kept' = Kept, UNCHANGED rewritten, dream_state'.recorded = dream_state.recorded,
           memory' \in {memory, Kept},
           \A a \in backups' : \E b \in backups : a.files = b.files
    PROVE  RunsInOrder' /\ KeptIsRecorded'
<1>1. Kept \in [MemoryFiles -> 0 .. MaxRuns] /\ memory \in [MemoryFiles -> 0 .. MaxRuns]
  BY KeptNow, DreamFacts DEF DreamInv
<1>2. \A r : Used(r)' <=> Used(r)
  BY DEF Used
<1>3. \A f \in MemoryFiles : Kept[f] # 0 => Used(Kept[f])
  BY DEF DreamInv, KeptIsRecorded
<1>4. RunsInOrder'
  <2>1. \A f \in MemoryFiles : memory'[f] # 0 => Used(memory'[f])
    BY <1>3 DEF DreamInv, RunsInOrder
  <2>2. \A a \in backups' : \A f \in DOMAIN a.files : a.files[f] # 0 => Used(a.files[f])
    BY DEF DreamInv, RunsInOrder
  <2>3. \A q, r \in Runs : q < r /\ Used(r) => Used(q)
    BY DEF DreamInv, RunsInOrder
  <2>. QED
    BY <2>1, <2>2, <2>3 DEF RunsInOrder, Used
<1>5. KeptIsRecorded'
  <2>1. \A r \in dream_state.recorded :
           Used(r) /\ \A f \in rewritten[r] : Kept[f] >= r /\ memory'[f] >= r
    BY DEF DreamInv, KeptIsRecorded
  <2>2. \A f \in MemoryFiles : Kept[f] # 0 => Kept[f] \in dream_state.recorded
    BY DEF DreamInv, KeptIsRecorded
  <2>. QED
    BY <2>1, <2>2 DEF KeptIsRecorded, Used
<1>. QED
  BY <1>4, <1>5

LEMMA AsleepFacts ==
    /\ Asleep \in Dreamer /\ Asleep.pc = "idle" /\ Asleep.processed = 0 /\ Asleep.state.current = 0
    /\ \A state \in DreamState, pc \in {"gates", "idle"} :
          LET new == [Asleep EXCEPT !.pc = pc, !.state = state]
          IN  new \in Dreamer /\ new.pc = pc /\ new.state = state /\ new.processed = 0
<1>1. [current |-> 0, last |-> 0, recorded |-> {}, due |-> FALSE, flag |-> "no"] \in DreamState
  BY DreamAssumption DEF DreamState
<1>2. 0 \in 0 .. MaxRuns /\ 0 \in 0 .. MaxSessions
  BY DreamAssumption
<1>3. [f \in MemoryFiles |-> 0] \in [MemoryFiles -> 0 .. MaxRuns]
  BY <1>2
<1>. QED
  BY <1>1, <1>2, <1>3 DEF Asleep, Dreamer

LEMMA StateFacts ==
    ASSUME NEW state \in DreamState, NEW flag \in {"no", "set", "stale"}
    PROVE  LET new == [state EXCEPT !.flag = flag]
           IN  /\ new \in DreamState /\ new.flag = flag /\ new.recorded = state.recorded
               /\ new.current = state.current /\ new.last = state.last /\ new.due = state.due
BY DEF DreamState

LEMMA LagFacts ==
    ASSUME DreamInv, NEW p \in Dreamers
    PROVE  /\ dream_state.current <= sessions /\ dreamer[p].state.current <= sessions
           /\ dreamer[p].processed <= sessions
           /\ sessions \in Nat /\ dreamer[p] \in Dreamer /\ dreamer[p].state \in DreamState
BY DreamFacts, DreamAssumption DEF DreamInv, CopiesLagBehind, Dreamer

LEMMA LoadStep ==
    ASSUME DreamInv, OneDreamer, NEW p \in Dreamers, Load(p)
    PROVE  DreamInv'
<1> DEFINE new == [Asleep EXCEPT !.pc = "gates", !.state = dream_state]
<1>1. /\ dreamer[p].pc = "idle" /\ sleeps(p, new)
      /\ UNCHANGED <<dream_state, dream_lock, memory, backups, rewritten, sessions, faults>>
  BY DEF Load, At
<1>2. new \in Dreamer /\ new.pc = "gates" /\ new.state = dream_state /\ new.processed = 0
  BY AsleepFacts, DreamFacts DEF DreamInv
<1> HIDE DEF new
<1>3. dreamer'[p] = new /\ DreamTypeOK'
  BY <1>1, <1>2, DreamerStep DEF DreamInv, DreamTypeOK
<1>4. RunsInOrder' /\ KeptIsRecorded' /\ OneBackup'
  BY <1>1 DEF DreamInv, RunsInOrder, KeptIsRecorded, OneBackup, Used, Kept, Restored
<1>5. OnDisk(p)'
  BY <1>1, <1>2, <1>3, Alone DEF OnDisk, At
<1>. QED
  BY <1>1, <1>2, <1>3, <1>4, <1>5, LagFacts, OnlyDreamer

\* The dreamer goes back to sleep, or its process dies.
LEMMA FallsAsleep ==
    ASSUME DreamInv, OneDreamer, NEW p \in Dreamers, sleeps(p, Asleep),
           frees(p) \/ (dream_lock' = dream_lock /\ dream_lock # p),
           faults' \in 0 .. MaxFaults,
           UNCHANGED <<dream_state, memory, backups, rewritten, sessions>>
    PROVE  DreamInv'
<1>1. dreamer'[p] = Asleep /\ dream_lock' = Nobody
  BY Alone, AsleepFacts, DreamerStep DEF DreamInv, frees
<1>2. DreamTypeOK'
  BY <1>1, AsleepFacts, DreamerStep DEF DreamInv, DreamTypeOK
<1>3. RunsInOrder' /\ KeptIsRecorded' /\ OneBackup'
  BY DEF DreamInv, RunsInOrder, KeptIsRecorded, OneBackup, Used, Kept, Restored
<1>4. OnDisk(p)'
  BY <1>1, AsleepFacts, Alone DEF OnDisk, At
<1>5. /\ Asleep.processed = 0 /\ Asleep.state.current = 0 /\ sessions \in Nat
      /\ dream_state.current <= sessions
  BY AsleepFacts, LagFacts
<1>6. dream_state'.current <= sessions' /\ dreamer'[p].state.current <= sessions' /\ dreamer'[p].processed <= sessions'
  BY <1>1, <1>5
<1>. QED
  BY <1>2, <1>3, <1>4, <1>6, OnlyDreamer

LEMMA CheckGatesStep ==
    ASSUME DreamInv, OneDreamer, NEW p \in Dreamers, CheckGates(p)
    PROVE  DreamInv'
<1> DEFINE state == dreamer[p].state
           cleared == [state EXCEPT !.flag = "no"]
<1>1. /\ dreamer[p].pc = "gates" /\ UNCHANGED <<dream_lock, rewritten, sessions>>
      /\ state.recorded = dream_state.recorded /\ dream_lock # p
      /\ state.flag = dream_state.flag \/ (state.flag = "set" /\ dream_state.flag = "stale")
  BY Alone DEF CheckGates, At, OnDisk
<1>2. /\ cleared \in DreamState /\ cleared.flag = "no" /\ cleared.recorded = dream_state.recorded
      /\ cleared.current = state.current
  BY <1>1, StateFacts, LagFacts
<1>3. CASE sleeps(p, Asleep) /\ UNCHANGED <<dream_state, memory, backups, faults>>
  BY <1>1, <1>3, FallsAsleep, DreamFacts DEF DreamInv
<1>4. CASE /\ state.flag = "no" \/ Abandoned(state)
           /\ Recovered(state.flag # "no")
           /\ \/ dream_state' = cleared /\ state.flag # "no" /\ UNCHANGED faults
              \/ UNCHANGED dream_state /\ IF state.flag = "no" THEN UNCHANGED faults ELSE Fault
           /\ sleeps(p, [dreamer[p] EXCEPT !.state = cleared,
                                           !.pc = IF GatesOpen(cleared) THEN "lock" ELSE "idle"])
  <2> DEFINE pc == IF GatesOpen(cleared) THEN "lock" ELSE "idle"
             new == [dreamer[p] EXCEPT !.state = cleared, !.pc = pc]
  <2>1. new \in Dreamer /\ new.pc \in {"lock", "idle"} /\ new.state = cleared /\ new.processed = dreamer[p].processed
    <3>1. pc \in {"lock", "idle"}
      OBVIOUS
    <3> HIDE DEF pc, cleared
    <3>. QED
      BY <1>2, <3>1, LagFacts DEF Dreamer
  <2>2. sleeps(p, new)
    BY <1>4
  <2> HIDE DEF new, cleared
  <2>3. /\ memory' = IF state.flag = "no" THEN memory ELSE Kept
        /\ backups' \subseteq backups /\ \A b \in backups' : ~b.manifest
    BY <1>1, <1>4, KeptNow DEF Recovered, Abandoned, DreamInv
  <2>4. dream_state' \in {cleared, dream_state} /\ faults' \in 0 .. MaxFaults
    BY <1>4, DreamFacts, DreamAssumption DEF Fault, DreamInv
  <2>5. Kept \in [MemoryFiles -> 0 .. MaxRuns]
    BY KeptNow DEF DreamInv
  <2>6. dreamer'[p] = new /\ DreamTypeOK' /\ OneBackup'
    <3>1. dreamer'[p] = new /\ dreamer' \in [Dreamers -> Dreamer]
      BY <2>1, <2>2, DreamerStep DEF DreamInv
    <3>2. memory' \in [MemoryFiles -> 0 .. MaxRuns]
      BY <2>3, <2>5, DreamFacts DEF DreamInv
    <3>. QED
      BY <1>1, <1>2, <2>3, <2>4, <3>1, <3>2 DEF DreamInv, DreamTypeOK, OneBackup
  <2>7. Kept' = Kept
    <3>1. Kept' = memory'
      BY <2>3, <2>6, KeptNext
    <3>2. state.flag = "no" => Kept = memory
      BY <1>1, KeptNow DEF DreamInv
    <3>. QED
      BY <2>3, <3>1, <3>2
  <2>8. RunsInOrder' /\ KeptIsRecorded'
    <3>1. memory' \in {memory, Kept} /\ dream_state'.recorded = dream_state.recorded
      BY <1>2, <2>3, <2>4
    <3>. QED
      BY <1>1, <2>3, <2>7, <3>1, KeepsKept
  <2>9. OnDisk(p)'
    BY <1>1, <1>2, <2>1, <2>3, <2>4, <2>6 DEF OnDisk, At
  <2>. QED
    BY <1>1, <1>2, <2>1, <2>4, <2>6, <2>8, <2>9, LagFacts, OnlyDreamer
<1>. QED
  BY <1>3, <1>4 DEF CheckGates

LEMMA AcquireStep ==
    ASSUME DreamInv, OneDreamer, NEW p \in Dreamers, Acquire(p)
    PROVE  DreamInv'
<1>1. /\ dreamer[p].pc = "lock" /\ dream_lock = Nobody /\ dreamer[p].state.flag = "no"
      /\ dreamer[p].state.recorded = dream_state.recorded
      /\ \A b \in backups : ~b.manifest
      /\ UNCHANGED <<dream_state, memory, rewritten, sessions, faults>>
  BY Alone DEF Acquire, At, OnDisk
<1> DEFINE new == [dreamer[p] EXCEPT !.pc = "mark"]
<1>2. dream_lock' = p /\ backups' = {} /\ sleeps(p, new)
  BY <1>1 DEF Acquire
<1>3. new \in Dreamer /\ new.pc = "mark" /\ new.state = dreamer[p].state /\ new.processed = dreamer[p].processed
  BY LagFacts DEF Dreamer
<1> HIDE DEF new
<1>4. dreamer'[p] = new /\ DreamTypeOK' /\ OneBackup'
  BY <1>1, <1>2, <1>3, DreamerStep DEF DreamInv, DreamTypeOK, OneBackup
<1>5. Kept' = Kept
  BY <1>1, <1>2, <1>4, KeptNow, KeptNext DEF DreamInv
<1>6. RunsInOrder' /\ KeptIsRecorded'
  BY <1>1, <1>2, <1>5, KeepsKept
<1>7. OnDisk(p)'
  BY <1>1, <1>2, <1>3, <1>4 DEF OnDisk, At
<1>. QED
  BY <1>1, <1>3, <1>4, <1>6, <1>7, LagFacts, OnlyDreamer

LEMMA MarkStartedStep ==
    ASSUME DreamInv, OneDreamer, NEW p \in Dreamers, MarkStarted(p)
    PROVE  DreamInv'
<1> DEFINE marked == [dreamer[p].state EXCEPT !.flag = "set"]
<1>1. /\ dreamer[p].pc = "mark" /\ dream_lock = p /\ dreamer[p].state.flag = "no"
      /\ dreamer[p].state.recorded = dream_state.recorded /\ backups = {}
      /\ UNCHANGED <<memory, backups, rewritten, sessions>>
  BY Alone DEF MarkStarted, At, OnDisk
<1>2. CASE sleeps(p, Asleep) /\ frees(p) /\ Fault /\ UNCHANGED dream_state
  BY <1>1, <1>2, FallsAsleep, DreamFacts, DreamAssumption DEF Fault, DreamInv
<1>3. CASE /\ dream_state' = marked
           /\ sleeps(p, [dreamer[p] EXCEPT !.pc = "staging", !.state = marked, !.pre = memory,
                                           !.processed = marked.current])
           /\ UNCHANGED <<dream_lock, faults>>
  <2>1. /\ marked \in DreamState /\ marked.flag = "set" /\ marked.recorded = dream_state.recorded
        /\ marked.current = dreamer[p].state.current /\ marked.current \in 0 .. MaxSessions
    BY <1>1, StateFacts, LagFacts DEF DreamState
  <2> DEFINE new == [dreamer[p] EXCEPT !.pc = "staging", !.state = marked, !.pre = memory,
                                       !.processed = marked.current]
  <2>2. sleeps(p, new)
    BY <1>3
  <2>3. dream_state' = marked
    BY <1>3
  <2> HIDE DEF marked
  <2>4. /\ new \in Dreamer /\ new.pc = "staging" /\ new.state = marked /\ new.processed = marked.current
    BY <2>1, LagFacts, DreamFacts DEF Dreamer, DreamInv
  <2> HIDE DEF new
  <2>5. dreamer'[p] = new /\ DreamTypeOK' /\ OneBackup'
    BY <1>1, <1>3, <2>1, <2>2, <2>3, <2>4, DreamerStep DEF DreamInv, DreamTypeOK, OneBackup
  <2>6. Kept' = Kept
    BY <1>1, <2>5, KeptNow, KeptNext DEF DreamInv
  <2>7. RunsInOrder' /\ KeptIsRecorded'
    BY <1>1, <2>1, <2>3, <2>6, KeepsKept
  <2>8. OnDisk(p)'
    BY <1>1, <1>3, <2>1, <2>3, <2>4, <2>5 DEF OnDisk, At
  <2>. QED
    BY <1>1, <2>1, <2>3, <2>4, <2>5, <2>7, <2>8, LagFacts, OnlyDreamer
<1>. QED
  BY <1>2, <1>3 DEF MarkStarted

\* The next run is the one after those that were used.
LEMMA NextRun ==
    ASSUME DreamInv, NEW run \in Runs, run = Cardinality({r \in Runs : rewritten[r] # {}}) + 1
    PROVE  \A r \in Runs : Used(r) <=> r < run
<1> DEFINE U == {r \in Runs : rewritten[r] # {}}
<1>1. IsFiniteSet(U) /\ U \subseteq Runs /\ \A r \in Runs : r \in U <=> Used(r)
  <2>1. IsFiniteSet(Runs)
    BY FS_Interval, DreamAssumption DEF Runs
  <2>. QED
    BY <2>1, FS_Subset DEF Used
<1>2. Cardinality(U) = run - 1 /\ run \in Nat \ {0}
  BY DreamAssumption, <1>1, FS_CardinalityType DEF Runs
<1>3. \A q, r \in Runs : q < r /\ r \in U => q \in U
  BY <1>1 DEF DreamInv, RunsInOrder
<1> HIDE DEF U
<1>4. \A r \in U : r < run
  <2> SUFFICES ASSUME NEW r \in U, r >= run PROVE FALSE
    BY <1>1, <1>2, DreamAssumption DEF Runs
  <2>1. r \in Nat /\ 1 .. r \subseteq U
    BY <1>1, <1>3, DreamAssumption DEF Runs
  <2>2. Cardinality(1 .. r) = r
    BY <2>1, FS_Interval
  <2>3. Cardinality(1 .. r) <= Cardinality(U)
    BY <1>1, <2>1, FS_Subset
  <2>. QED
    BY <1>2, <2>1, <2>2, <2>3
<1>5. \A q \in Runs : q < run => q \in U
  <2>1. ASSUME NEW r \in U PROVE r \in 1 .. (run - 1)
    <3>1. r \in Nat /\ r >= 1 /\ r < run
      BY <1>1, <1>4, DreamAssumption DEF Runs
    <3>. QED
      BY <1>2, <3>1
  <2>2. IsFiniteSet(1 .. (run - 1)) /\ Cardinality(1 .. (run - 1)) = run - 1
    <3>1. 1 \in Int /\ run - 1 \in Int /\ run - 1 >= 0
      BY <1>2
    <3>2. IsFiniteSet(1 .. (run - 1)) /\ Cardinality(1 .. (run - 1)) = IF 1 > run - 1 THEN 0 ELSE (run - 1) - 1 + 1
      BY <3>1, FS_Interval
    <3>. QED
      BY <3>1, <3>2
  <2>3. U \subseteq 1 .. (run - 1)
    BY <2>1
  <2>4. U = 1 .. (run - 1)
    BY <1>2, <2>2, <2>3, FS_Subset
  <2>. QED
    BY <1>2, <2>4, DreamAssumption DEF Runs
<1>. QED
  BY <1>1, <1>4, <1>5

\* The dreamer's run goes on to its end without a commit.
LEMMA NothingToCommit ==
    ASSUME DreamInv, OneDreamer, NEW p \in Dreamers, NEW new \in Dreamer, sleeps(p, new),
           dreamer[p].pc \in {"staging", "commit"}, dream_lock = p,
           new.pc = "finish", new.state = dreamer[p].state, new.processed = dreamer[p].processed,
           backups' = {}, memory' = Kept, faults' \in 0 .. MaxFaults,
           UNCHANGED <<dream_state, dream_lock, rewritten, sessions>>
    PROVE  DreamInv'
<1>1. dreamer[p].state.recorded = dream_state.recorded /\ dream_state.flag = "set"
  BY Alone DEF OnDisk
<1>2. Kept \in [MemoryFiles -> 0 .. MaxRuns]
  BY KeptNow DEF DreamInv
<1>3. dreamer'[p] = new /\ DreamTypeOK' /\ OneBackup'
  BY <1>2, DreamerStep DEF DreamInv, DreamTypeOK, OneBackup
<1>4. Kept' = Kept
  BY <1>3, KeptNext
<1>5. RunsInOrder' /\ KeptIsRecorded'
  BY <1>4, KeepsKept
<1>6. OnDisk(p)'
  BY <1>1, <1>3 DEF OnDisk, At
<1>. QED
  BY <1>3, <1>5, <1>6, LagFacts, OnlyDreamer

LEMMA StagingEndsStep ==
    ASSUME DreamInv, OneDreamer, NEW p \in Dreamers, StagingEnds(p)
    PROVE  DreamInv'
<1> DEFINE me == dreamer[p]
<1>1. /\ me.pc = "staging" /\ dream_lock = p /\ dream_state.flag = "set"
      /\ me.state.recorded = dream_state.recorded /\ backups = {}
      /\ UNCHANGED <<dream_state, dream_lock, memory, sessions, faults>>
  BY Alone DEF StagingEnds, At, OnDisk
<1>2. Kept = memory /\ faults \in 0 .. MaxFaults
  BY <1>1, KeptNow, DreamFacts DEF DreamInv
<1>3. ASSUME NEW ok \in BOOLEAN,
             sleeps(p, [me EXCEPT !.pc = "finish"]) \/ sleeps(p, [me EXCEPT !.pc = "finish", !.ok = TRUE]),
             UNCHANGED <<backups, rewritten>>
      PROVE  DreamInv'
  <2>1. PICK new : sleeps(p, new) /\ (new = [me EXCEPT !.pc = "finish"] \/ new = [me EXCEPT !.pc = "finish", !.ok = TRUE])
    BY <1>3
  <2>2. new \in Dreamer /\ new.pc = "finish" /\ new.state = me.state /\ new.processed = me.processed
    BY <2>1, LagFacts DEF Dreamer
  <2>. QED
    BY <1>1, <1>2, <1>3, <2>1, <2>2, NothingToCommit
<1>4. ASSUME NEW fs \in (SUBSET MemoryFiles) \ {{}}, NEW run \in Runs,
             run = Cardinality({r \in Runs : rewritten[r] # {}}) + 1,
             backups' = backups \cup {[by |-> p, manifest |-> FALSE, files |-> [f \in fs |-> memory[f]]]},
             rewritten' = [rewritten EXCEPT ![run] = fs],
             sleeps(p, [me EXCEPT !.pc = "manifest", !.run = run, !.todo = fs])
      PROVE  DreamInv'
  <2> DEFINE new == [me EXCEPT !.pc = "manifest", !.run = run, !.todo = fs]
             b == [by |-> p, manifest |-> FALSE, files |-> [f \in fs |-> memory[f]]]
  <2>1. \A r \in Runs : Used(r) <=> r < run
    BY <1>4, NextRun
  <2>2. /\ new \in Dreamer /\ new.pc = "manifest" /\ new.state = me.state /\ new.processed = me.processed
        /\ new.run = run /\ new.todo = fs
    <3>1. run \in 0 .. MaxRuns /\ fs \in SUBSET MemoryFiles /\ me \in Dreamer
      BY LagFacts, DreamAssumption DEF Runs
    <3>. QED
      BY <3>1 DEF Dreamer
  <2>3. sleeps(p, new)
    BY <1>4
  <2> HIDE DEF new
  <2>4. /\ b \in Backup /\ b.manifest = FALSE /\ DOMAIN b.files = fs /\ \A f \in fs : b.files[f] = memory[f]
    <3>1. [f \in fs |-> memory[f]] \in [fs -> 0 .. MaxRuns]
      BY DreamFacts DEF DreamInv
    <3>2. [f \in fs |-> memory[f]] \in UNION {[gs -> 0 .. MaxRuns] : gs \in SUBSET MemoryFiles}
      BY <3>1
    <3>. QED
      BY <3>2 DEF Backup
  <2>5. backups' = {b}
    BY <1>1, <1>4
  <2> HIDE DEF b
  <2>6. /\ rewritten' \in [Runs -> SUBSET MemoryFiles] /\ rewritten'[run] = fs
        /\ \A r \in Runs : r # run => rewritten'[r] = rewritten[r]
    BY <1>4, DreamFacts DEF DreamInv
  <2>7. dreamer'[p] = new /\ DreamTypeOK' /\ OneBackup'
    BY <1>1, <2>2, <2>3, <2>4, <2>5, <2>6, DreamerStep DEF DreamInv, DreamTypeOK, OneBackup
  <2>8. Kept' = Kept /\ Kept = memory
    BY <1>1, <1>2, <2>4, <2>5, <2>7, KeptNext
  <2>9. ASSUME NEW r \in Runs PROVE Used(r)' <=> r <= run
    <3>1. r \in Nat /\ run \in Nat
      BY DreamAssumption DEF Runs
    <3>2. CASE r = run
      BY <2>6, <3>1, <3>2 DEF Used
    <3>3. CASE r # run
      <4>1. Used(r)' <=> Used(r)
        BY <2>6, <3>3 DEF Used
      <4>. QED
        BY <2>1, <3>1, <3>3, <4>1
    <3>. QED
      BY <3>2, <3>3
  <2>10. /\ \A f \in MemoryFiles : memory[f] \in 0 .. MaxRuns /\ (memory[f] # 0 => Used(memory[f]))
         /\ \A f \in MemoryFiles : memory[f] < run
    <3>1. \A f \in MemoryFiles : memory[f] \in 0 .. MaxRuns /\ (memory[f] # 0 => Used(memory[f]))
      BY DreamFacts DEF DreamInv, RunsInOrder
    <3>. QED
      BY <2>1, <3>1, DreamAssumption DEF Runs
  <2>11. RunsInOrder'
    <3>1. ASSUME NEW f \in MemoryFiles, memory[f] # 0 PROVE rewritten'[memory[f]] # {}
      <4>1. memory[f] \in Runs /\ memory[f] < run /\ run \in Nat
        BY <2>10, <3>1, DreamAssumption DEF Runs
      <4>2. Used(memory[f]) /\ memory[f] # run
        BY <2>10, <3>1, <4>1 DEF Runs
      <4>. QED
        BY <2>6, <4>1, <4>2 DEF Used
    <3>2. \A q, r \in Runs : q < r /\ Used(r)' => Used(q)'
      BY <2>9, DreamAssumption DEF Runs
    <3>. QED
      BY <1>1, <2>4, <2>5, <3>1, <3>2 DEF RunsInOrder, Used
  <2>12. KeptIsRecorded'
    <3>1. ASSUME NEW r \in dream_state.recorded
          PROVE  Used(r)' /\ \A f \in rewritten'[r] : Kept[f] >= r /\ memory[f] >= r
      <4>1. r \in Runs /\ Used(r)
        BY DreamFacts DEF DreamInv, KeptIsRecorded, DreamState
      <4>2. rewritten'[r] = rewritten[r]
        BY <2>1, <2>6, <4>1, DreamAssumption DEF Runs
      <4>. QED
        BY <4>1, <4>2 DEF DreamInv, KeptIsRecorded, Used
    <3>2. \A f \in MemoryFiles : Kept[f] # 0 => Kept[f] \in dream_state.recorded
      BY DEF DreamInv, KeptIsRecorded
    <3>. QED
      BY <1>1, <2>8, <3>1, <3>2 DEF KeptIsRecorded
  <2>13. IsBackedUp(p)'
    <3>1. Used(run)' /\ \A r \in Runs : Used(r)' => r <= run
      BY <2>6, <2>9 DEF Used
    <3>2. \A f \in MemoryFiles :
             memory'[f] = IF f \in rewritten'[run] \ fs THEN run ELSE Kept'[f]
      BY <1>1, <2>6, <2>8
    <3>3. \A f \in MemoryFiles : Kept'[f] < run
      BY <2>8, <2>10
    <3>. QED
      BY <2>2, <2>4, <2>5, <2>6, <2>7, <3>1, <3>2, <3>3 DEF IsBackedUp
  <2>14. OnDisk(p)'
    BY <1>1, <2>2, <2>4, <2>5, <2>6, <2>7, <2>13 DEF OnDisk, At
  <2>. QED
    BY <1>1, <2>2, <2>7, <2>11, <2>12, <2>14, LagFacts, OnlyDreamer
<1>. QED
  BY <1>3, <1>4 DEF StagingEnds

LEMMA WriteManifestStep ==
    ASSUME DreamInv, OneDreamer, NEW p \in Dreamers, WriteManifest(p)
    PROVE  DreamInv'
<1> DEFINE me == dreamer[p]
           new == [me EXCEPT !.pc = "commit"]
<1>1. /\ me.pc = "manifest" /\ dream_lock = p /\ dream_state.flag = "set"
      /\ me.state.recorded = dream_state.recorded /\ (\A b \in backups : ~b.manifest)
      /\ IsBackedUp(p) /\ \A b \in backups : \A f \in DOMAIN b.files : b.files[f] = memory[f]
      /\ me.todo = rewritten[me.run]
      /\ UNCHANGED <<dream_state, dream_lock, memory, rewritten, sessions, faults>>
  BY Alone DEF WriteManifest, At, OnDisk
<1>2. PICK b : backups = {b} /\ b \in Backup /\ DOMAIN b.files = rewritten[me.run]
  <2>1. PICK b \in backups : TRUE
    BY <1>1 DEF IsBackedUp
  <2>2. backups = {b}
    BY Alone
  <2>3. b \in Backup
    BY DreamFacts DEF DreamInv
  <2>4. DOMAIN b.files = rewritten[me.run]
    BY <1>1 DEF IsBackedUp
  <2>. QED
    BY <2>2, <2>3, <2>4
<1> DEFINE c == [b EXCEPT !.manifest = TRUE]
<1>3. c \in Backup /\ c.manifest = TRUE /\ c.files = b.files /\ c.by = b.by
  BY <1>2 DEF Backup
<1>4. backups' = {c}
  <2>1. Mine(p) = backups
    BY Alone
  <2>2. backups' = (backups \ Mine(p)) \cup {[d EXCEPT !.manifest = TRUE] : d \in Mine(p)}
    BY DEF WriteManifest
  <2>. QED
    BY <1>2, <2>1, <2>2
<1> HIDE DEF c
<1>5. /\ new \in Dreamer /\ new.pc = "commit" /\ new.state = me.state /\ new.processed = me.processed
      /\ new.run = me.run /\ new.todo = me.todo
  BY LagFacts DEF Dreamer
<1>6. sleeps(p, new)
  BY DEF WriteManifest
<1> HIDE DEF new
<1>7. dreamer'[p] = new /\ DreamTypeOK' /\ OneBackup'
  BY <1>1, <1>3, <1>4, <1>5, <1>6, DreamerStep DEF DreamInv, DreamTypeOK, OneBackup
<1>8. Kept' = Kept
  <2>1. Kept = memory /\ memory \in [MemoryFiles -> 0 .. MaxRuns] /\ Kept' \in [MemoryFiles -> 0 .. MaxRuns]
    BY <1>1, <1>7, KeptNow, KeptNext, DreamFacts DEF DreamInv
  <2>2. \A f \in MemoryFiles : Kept'[f] = IF f \in DOMAIN c.files THEN c.files[f] ELSE memory'[f]
    BY <1>1, <1>3, <1>4, <1>7, KeptNext
  <2>3. \A f \in DOMAIN c.files : c.files[f] = memory[f]
    BY <1>1, <1>2, <1>3
  <2>4. \A f \in MemoryFiles : Kept'[f] = memory[f]
    BY <1>1, <2>2, <2>3
  <2>. QED
    BY <2>1, <2>4
<1>9. RunsInOrder' /\ KeptIsRecorded'
  BY <1>1, <1>2, <1>3, <1>4, <1>8, KeepsKept
<1>10. IsBackedUp(p)'
  BY <1>1, <1>2, <1>3, <1>4, <1>5, <1>7, <1>8 DEF IsBackedUp, Used
<1>11. OnDisk(p)'
  BY <1>1, <1>3, <1>4, <1>5, <1>7, <1>10 DEF OnDisk, At
<1>. QED
  BY <1>1, <1>5, <1>7, <1>9, <1>11, LagFacts, OnlyDreamer

\* The memory is rolled back to what the backup has.
LEMMA RolledBack ==
    ASSUME DreamInv, OneDreamer, NEW p \in Dreamers, dream_state.flag = "set"
    PROVE  Restored(Mine(p)) = Kept /\ backups \ Mine(p) = {}
<1>1. Mine(p) = backups
  BY Alone
<1>. QED
  BY <1>1, KeptNow DEF DreamInv

LEMMA CommitFileStep ==
    ASSUME DreamInv, OneDreamer, NEW p \in Dreamers, CommitFile(p)
    PROVE  DreamInv'
<1> DEFINE me == dreamer[p]
<1>1. /\ me.pc = "commit" /\ dream_lock = p /\ dream_state.flag = "set"
      /\ me.state.recorded = dream_state.recorded /\ (\A b \in backups : b.manifest)
      /\ IsBackedUp(p)
      /\ UNCHANGED <<dream_state, dream_lock, rewritten, sessions>>
  BY Alone DEF CommitFile, At, OnDisk
<1>2. CASE /\ memory' = Restored(Mine(p)) /\ Fault
           /\ backups' = backups \ Mine(p)
           /\ sleeps(p, [me EXCEPT !.pc = "finish", !.todo = {}])
  <2> DEFINE new == [me EXCEPT !.pc = "finish", !.todo = {}]
  <2>1. new \in Dreamer /\ new.pc = "finish" /\ new.state = me.state /\ new.processed = me.processed
    BY LagFacts DEF Dreamer
  <2>2. memory' = Kept /\ backups' = {}
    BY <1>1, <1>2, RolledBack
  <2>3. faults' \in 0 .. MaxFaults
    BY <1>2, DreamFacts, DreamAssumption DEF DreamInv, Fault
  <2>. QED
    BY <1>1, <1>2, <2>1, <2>2, <2>3, NothingToCommit
<1>3. ASSUME NEW f \in me.todo, memory' = [memory EXCEPT ![f] = me.run],
             sleeps(p, [me EXCEPT !.todo = @ \ {f}, !.ok = (me.todo = {f}),
                                  !.pc = IF me.todo = {f} THEN "finish" ELSE "commit"]),
             UNCHANGED <<backups, faults>>
      PROVE  DreamInv'
  <2> DEFINE new == [me EXCEPT !.todo = @ \ {f}, !.ok = (me.todo = {f}),
                               !.pc = IF me.todo = {f} THEN "finish" ELSE "commit"]
  <2>1. /\ new \in Dreamer /\ new.state = me.state /\ new.processed = me.processed /\ new.run = me.run
        /\ new.todo = me.todo \ {f}
        /\ new.pc = "commit" \/ (new.pc = "finish" /\ new.todo = {} /\ new.ok)
    <3>1. me.todo \ {f} \in SUBSET MemoryFiles /\ (me.todo = {f}) \in BOOLEAN
      BY LagFacts DEF Dreamer
    <3>. QED
      BY <3>1, LagFacts DEF Dreamer
  <2>2. sleeps(p, new)
    BY <1>3
  <2> HIDE DEF new
  <2>3. /\ me.run \in Runs /\ me.run \in 0 .. MaxRuns /\ me.todo \subseteq rewritten[me.run]
        /\ f \in MemoryFiles /\ rewritten[me.run] \subseteq MemoryFiles
    BY <1>1, DreamFacts, DreamAssumption DEF IsBackedUp, DreamInv, Runs
  <2>4. /\ memory' \in [MemoryFiles -> 0 .. MaxRuns]
        /\ \A g \in MemoryFiles : memory'[g] = IF g = f THEN me.run ELSE memory[g]
    BY <1>3, <2>3, DreamFacts DEF DreamInv
  <2>5. dreamer'[p] = new /\ DreamTypeOK' /\ OneBackup'
    BY <1>1, <1>3, <2>1, <2>2, <2>4, DreamerStep DEF DreamInv, DreamTypeOK, OneBackup
  <2>6. PICK b \in backups : b.manifest /\ DOMAIN b.files = rewritten[me.run]
    BY <1>1 DEF IsBackedUp
  <2>7. Kept \in [MemoryFiles -> 0 .. MaxRuns] /\ Kept' \in [MemoryFiles -> 0 .. MaxRuns]
    BY <2>5, KeptNow, KeptNext DEF DreamInv
  <2>8. Kept' = Kept
    <3>1. \A g \in MemoryFiles : Kept[g] = IF g \in DOMAIN b.files THEN b.files[g] ELSE memory[g]
      BY <1>1, <2>6, KeptNow DEF DreamInv
    <3>2. \A g \in MemoryFiles : Kept'[g] = IF g \in DOMAIN b.files THEN b.files[g] ELSE memory'[g]
      BY <1>1, <1>3, <2>5, <2>6, KeptNext
    <3>3. \A g \in MemoryFiles : g \notin DOMAIN b.files => memory'[g] = memory[g]
      BY <2>3, <2>4, <2>6
    <3>4. \A g \in MemoryFiles : Kept'[g] = Kept[g]
      BY <3>1, <3>2, <3>3
    <3>. QED
      BY <2>7, <3>4
  <2>9. RunsInOrder'
    <3>1. \A g \in MemoryFiles : memory'[g] # 0 => Used(memory'[g])
      BY <1>1, <2>4 DEF DreamInv, RunsInOrder, IsBackedUp
    <3>. QED
      BY <1>1, <1>3, <3>1 DEF DreamInv, RunsInOrder, Used
  <2>10. KeptIsRecorded'
    <3>1. ASSUME NEW r \in dream_state.recorded
          PROVE  Used(r) /\ \A g \in rewritten[r] : Kept[g] >= r /\ memory'[g] >= r
      <4>1. r \in Runs /\ Used(r) /\ r <= me.run
        BY <1>1, DreamFacts DEF DreamInv, KeptIsRecorded, DreamState, IsBackedUp
      <4>2. \A g \in rewritten[r] : g \in MemoryFiles /\ Kept[g] >= r /\ memory[g] >= r
        BY <4>1, DreamFacts DEF DreamInv, KeptIsRecorded
      <4>. QED
        BY <2>3, <2>4, <4>1, <4>2, DreamAssumption DEF Runs
    <3>2. \A g \in MemoryFiles : Kept[g] # 0 => Kept[g] \in dream_state.recorded
      BY DEF DreamInv, KeptIsRecorded
    <3>. QED
      BY <1>1, <2>8, <3>1, <3>2 DEF KeptIsRecorded, Used
  <2>11. IsBackedUp(p)'
    <3>1. \A g \in MemoryFiles :
             memory'[g] = IF g \in rewritten[me.run] \ new.todo THEN me.run ELSE Kept[g]
      BY <1>1, <2>1, <2>3, <2>4 DEF IsBackedUp
    <3>. QED
      BY <1>1, <1>3, <2>1, <2>3, <2>5, <2>8, <3>1 DEF IsBackedUp, Used
  <2>12. OnDisk(p)'
    BY <1>1, <1>3, <2>1, <2>5, <2>11 DEF OnDisk, At
  <2>. QED
    BY <1>1, <2>1, <2>5, <2>9, <2>10, <2>12, LagFacts, OnlyDreamer
<1>. QED
  BY <1>2, <1>3 DEF CommitFile

LEMMA FinishStateStep ==
    ASSUME DreamInv, OneDreamer, NEW p \in Dreamers, FinishState(p)
    PROVE  DreamInv'
<1> DEFINE me == dreamer[p]
           cleared == [me.state EXCEPT !.flag = "no"]
<1>1. /\ me.pc = "finish" /\ dream_lock = p /\ dream_state.flag = "set"
      /\ me.state.recorded = dream_state.recorded /\ Mine(p) = backups
      /\ backups # {} =>
             IsBackedUp(p) /\ me.todo = {} /\ me.ok /\ \A b \in backups : b.manifest
      /\ UNCHANGED <<rewritten, sessions>>
  BY Alone DEF FinishState, At, OnDisk
<1>2. CASE /\ memory' = Restored(Mine(p)) /\ Fault
           /\ backups' = backups \ Mine(p)
           /\ sleeps(p, Asleep) /\ frees(p)
           /\ UNCHANGED dream_state
  <2>1. memory' = Kept /\ backups' = {} /\ dream_lock' = Nobody
    BY <1>1, <1>2, RolledBack DEF frees
  <2>2. Kept \in [MemoryFiles -> 0 .. MaxRuns] /\ faults' \in 0 .. MaxFaults
    BY <1>2, KeptNow, DreamFacts, DreamAssumption DEF DreamInv, Fault
  <2>3. dreamer'[p] = Asleep /\ DreamTypeOK' /\ OneBackup'
    <3>1. dreamer'[p] = Asleep /\ dreamer' \in [Dreamers -> Dreamer]
      BY <1>2, AsleepFacts, DreamerStep DEF DreamInv
    <3>. QED
      BY <1>1, <1>2, <2>1, <2>2, <3>1 DEF DreamInv, DreamTypeOK, OneBackup
  <2>4. Kept' = Kept
    BY <2>1, <2>3, KeptNext
  <2>5. RunsInOrder' /\ KeptIsRecorded'
    BY <1>1, <1>2, <2>1, <2>4, KeepsKept
  <2>6. OnDisk(p)'
    BY <2>1, <2>3, AsleepFacts, DreamAssumption DEF OnDisk, At
  <2>7. dream_state'.current <= sessions' /\ dreamer'[p].state.current <= sessions' /\ dreamer'[p].processed <= sessions'
    <3>1. Asleep.processed = 0 /\ Asleep.state.current = 0 /\ sessions \in Nat /\ dream_state.current <= sessions
      BY AsleepFacts, LagFacts
    <3>. QED
      BY <1>1, <1>2, <2>3, <3>1
  <2>. QED
    BY <2>3, <2>5, <2>6, <2>7, OnlyDreamer
<1>3. CASE /\ dream_state' = FinalState(p)
           /\ sleeps(p, [me EXCEPT !.pc = "finalize"])
           /\ UNCHANGED <<memory, backups, dream_lock, faults>>
  <2> DEFINE new == [me EXCEPT !.pc = "finalize"]
  <2>1. new \in Dreamer /\ new.pc = "finalize" /\ new.state = me.state /\ new.processed = me.processed
    BY LagFacts DEF Dreamer
  <2>2. sleeps(p, new)
    BY <1>3
  <2> HIDE DEF new
  <2>3. /\ cleared \in DreamState /\ cleared.flag = "no" /\ cleared.recorded = dream_state.recorded
        /\ cleared.current = me.state.current
    BY <1>1, StateFacts, LagFacts
  <2>4. /\ dream_state' \in DreamState /\ dream_state'.flag = "no" /\ dream_state'.current <= sessions
        /\ dream_state'.recorded = IF me.ok /\ backups # {} THEN dream_state.recorded \cup {me.run}
                                   ELSE dream_state.recorded
    <3>1. CASE ~me.ok
      BY <1>3, <2>3, <3>1, LagFacts DEF FinalState
    <3>2. CASE me.ok
      <4> DEFINE recorded == IF Mine(p) = {} THEN cleared.recorded ELSE cleared.recorded \cup {me.run}
                 current == IF cleared.current > dream_state.current THEN cleared.current ELSE dream_state.current
      <4>1. dream_state' = [cleared EXCEPT !.due = FALSE, !.last = me.processed, !.recorded = recorded,
                                           !.current = current]
        BY <1>3, <3>2 DEF FinalState
      <4>2. recorded \in SUBSET Runs
        <5>1. backups # {} => me.run \in Runs
          BY <1>1 DEF IsBackedUp
        <5>. QED
          BY <1>1, <2>3, <5>1 DEF DreamState
      <4>3. current \in 0 .. MaxSessions /\ current <= sessions
        BY <2>3, LagFacts, DreamFacts DEF DreamState, DreamInv
      <4>4. me.processed \in 0 .. MaxSessions
        BY LagFacts DEF Dreamer
      <4>5. recorded = IF backups # {} THEN dream_state.recorded \cup {me.run} ELSE dream_state.recorded
        BY <1>1, <2>3
      <4> HIDE DEF recorded, current, cleared
      <4>. QED
        BY <2>3, <3>2, <4>1, <4>2, <4>3, <4>4, <4>5 DEF DreamState
    <3>. QED
      BY <3>1, <3>2
  <2> HIDE DEF cleared
  <2>5. dreamer'[p] = new /\ DreamTypeOK' /\ OneBackup'
    BY <1>1, <1>3, <2>1, <2>2, <2>4, DreamerStep DEF DreamInv, DreamTypeOK, OneBackup
  <2>6. Kept' = memory
    BY <1>3, <2>4, <2>5, KeptNext
  <2>7. RunsInOrder'
    BY <1>1, <1>3 DEF DreamInv, RunsInOrder, Used
  <2>8. KeptIsRecorded'
    <3>1. CASE backups = {}
      <4>1. Kept = memory /\ dream_state'.recorded = dream_state.recorded
        BY <2>4, <3>1, KeptNow DEF DreamInv
      <4>. QED
        BY <1>1, <1>3, <2>6, <4>1 DEF DreamInv, KeptIsRecorded, Used
    <3>2. CASE backups # {}
      <4>1. /\ IsBackedUp(p) /\ dream_state'.recorded = dream_state.recorded \cup {me.run}
            /\ \A f \in MemoryFiles : memory[f] = IF f \in rewritten[me.run] THEN me.run ELSE Kept[f]
        BY <1>1, <2>4, <3>2 DEF IsBackedUp
      <4>2. \A f \in MemoryFiles : memory[f] # 0 => memory[f] \in dream_state'.recorded
        BY <4>1 DEF DreamInv, KeptIsRecorded
      <4>3. ASSUME NEW r \in dream_state'.recorded PROVE Used(r) /\ \A f \in rewritten[r] : memory[f] >= r
        <5>1. CASE r = me.run
          <6>1. Used(r) /\ me.run \in Runs /\ rewritten[r] \subseteq MemoryFiles
            BY <4>1, <5>1, DreamFacts DEF IsBackedUp, DreamInv
          <6>. QED
            BY <4>1, <5>1, <6>1, DreamAssumption DEF Runs
        <5>2. CASE r # me.run
          BY <4>1, <4>3, <5>2 DEF DreamInv, KeptIsRecorded
        <5>. QED
          BY <5>1, <5>2
      <4>. QED
        BY <1>1, <1>3, <2>6, <4>2, <4>3 DEF KeptIsRecorded, Used
    <3>. QED
      BY <3>1, <3>2
  <2>9. OnDisk(p)'
    BY <1>1, <1>3, <2>1, <2>4, <2>5 DEF OnDisk, At
  <2>. QED
    BY <1>1, <2>1, <2>4, <2>5, <2>7, <2>8, <2>9, LagFacts, OnlyDreamer
<1>. QED
  BY <1>2, <1>3 DEF FinishState

LEMMA FinalizeStep ==
    ASSUME DreamInv, OneDreamer, NEW p \in Dreamers, Finalize(p)
    PROVE  DreamInv'
<1>1. /\ dreamer[p].pc = "finalize" /\ dream_state.flag = "no" /\ dream_lock = p
      /\ Mine(p) = backups /\ sleeps(p, Asleep)
      /\ UNCHANGED <<dream_state, memory, rewritten, sessions, faults>>
  BY Alone DEF Finalize, At, OnDisk
<1>2. backups' = {} /\ dream_lock' = Nobody
  BY <1>1 DEF Finalize, frees
<1>3. dreamer'[p] = Asleep /\ DreamTypeOK' /\ OneBackup'
  BY <1>1, <1>2, AsleepFacts, DreamerStep DEF DreamInv, DreamTypeOK, OneBackup
<1>4. Kept' = Kept
  BY <1>1, <1>3, KeptNow, KeptNext DEF DreamInv
<1>5. RunsInOrder' /\ KeptIsRecorded'
  BY <1>1, <1>2, <1>4, KeepsKept
<1>6. OnDisk(p)'
  BY <1>2, <1>3, AsleepFacts, DreamAssumption DEF OnDisk, At
<1>7. dream_state'.current <= sessions' /\ dreamer'[p].state.current <= sessions' /\ dreamer'[p].processed <= sessions'
  <2>1. Asleep.processed = 0 /\ Asleep.state.current = 0 /\ sessions \in Nat /\ dream_state.current <= sessions
    BY AsleepFacts, LagFacts
  <2>. QED
    BY <1>1, <1>3, <2>1
<1>. QED
  BY <1>3, <1>5, <1>6, <1>7, OnlyDreamer

\* A session is counted, or time passes: the state file changes under the run.
LEMMA AroundStep ==
    ASSUME DreamInv, OneDreamer, CountSession \/ TimePasses
    PROVE  DreamInv'
<1>1. /\ UNCHANGED <<dream_lock, memory, backups, dreamer, rewritten, faults>>
      /\ dream_state' \in DreamState /\ dream_state'.recorded = dream_state.recorded
      /\ dream_state'.current <= sessions' /\ sessions' \in 0 .. MaxSessions /\ sessions <= sessions'
      /\ dream_state'.flag = "no" <=> dream_state.flag = "no"
      /\ \/ dream_state'.flag = dream_state.flag
         \/ dream_state'.flag = "stale" /\ dream_state.flag = "set" /\ dream_lock = Nobody
  <2>0. dream_state \in DreamState /\ sessions \in 0 .. MaxSessions /\ dream_state.current <= sessions
    BY DreamFacts DEF DreamInv, CopiesLagBehind
  <2>1. CASE CountSession
    <3>1. dream_state.current + 1 \in 0 .. MaxSessions /\ sessions + 1 \in 0 .. MaxSessions
      BY <2>0, <2>1, DreamAssumption DEF CountSession, DreamState
    <3>. QED
      BY <2>0, <2>1, <3>1 DEF CountSession, DreamState
  <2>2. CASE TimePasses
    <3>1. dream_state' = [dream_state EXCEPT !.due = TRUE,
                                             !.flag = IF dream_state.flag = "set" THEN "stale" ELSE dream_state.flag]
      BY <2>2 DEF TimePasses
    <3>2. /\ dream_state' \in DreamState /\ dream_state'.recorded = dream_state.recorded
          /\ dream_state'.current = dream_state.current
          /\ dream_state'.flag = IF dream_state.flag = "set" THEN "stale" ELSE dream_state.flag
      BY <2>0, <3>1 DEF DreamState
    <3>3. sessions' = sessions /\ dream_lock = Nobody
          /\ UNCHANGED <<dream_lock, memory, backups, dreamer, rewritten, faults>>
      BY <2>2 DEF TimePasses
    <3>4. dream_state.current <= sessions /\ sessions <= sessions
      BY <2>0, DreamAssumption DEF DreamState
    <3>. QED
      BY <2>0, <3>2, <3>3, <3>4
  <2>. QED
    BY <2>1, <2>2
<1>2. DreamTypeOK' /\ OneBackup'
  BY <1>1 DEF DreamInv, DreamTypeOK, OneBackup
<1>3. Kept' = Kept
  BY <1>1 DEF Kept, Restored
<1>4. RunsInOrder' /\ KeptIsRecorded'
  BY <1>1, <1>3, KeepsKept
<1>5. CopiesLagBehind'
  <2>1. ASSUME NEW p \in Dreamers PROVE dreamer[p].state.current <= sessions' /\ dreamer[p].processed <= sessions'
    <3>1. /\ dreamer[p].state.current \in Int /\ dreamer[p].processed \in Int /\ sessions' \in Int
          /\ sessions \in Int /\ dreamer[p].state.current <= sessions /\ dreamer[p].processed <= sessions
      BY <1>1, LagFacts, DreamAssumption DEF Dreamer, DreamState
    <3>. QED
      BY <1>1, <3>1
  <2>. QED
    BY <1>1, <2>1 DEF CopiesLagBehind
<1>6. RunIsOnDisk'
  <2> SUFFICES ASSUME NEW p \in Dreamers PROVE OnDisk(p)'
    BY DEF RunIsOnDisk
  <2>1. OnDisk(p) /\ p # Nobody
    BY Alone
  <2>2. IsBackedUp(p) => IsBackedUp(p)'
    BY <1>1, <1>3 DEF IsBackedUp, Used
  <2>3. dream_lock = Nobody =>
           dreamer[p].pc \notin {"mark", "staging", "manifest", "commit", "finish", "finalize"}
    BY <2>1 DEF OnDisk
  <2>. QED
    BY <1>1, <2>1, <2>2, <2>3 DEF OnDisk, At
<1>. QED
  BY <1>2, <1>4, <1>5, <1>6 DEF DreamInv

LEMMA DreamInit1 ==
    ASSUME DreamInit
    PROVE  DreamInv
<1> USE DreamAssumption
<1>1. /\ dream_state = [current |-> 0, last |-> 0, recorded |-> {}, due |-> TRUE, flag |-> "no"]
      /\ dream_lock = Nobody /\ memory = [f \in MemoryFiles |-> 0] /\ backups = {}
      /\ dreamer = [p \in Dreamers |-> Asleep] /\ rewritten = [r \in Runs |-> {}]
      /\ sessions = 0 /\ faults = 0
  BY DEF DreamInit
<1>2. /\ 0 \in 0 .. MaxRuns /\ 0 \in 0 .. MaxSessions /\ 0 \in 0 .. MaxFaults
      /\ dream_state \in DreamState /\ dream_state.current = 0 /\ dream_state.recorded = {}
      /\ dream_state.flag = "no"
  BY <1>1 DEF DreamState
<1>3. DreamTypeOK
  BY <1>1, <1>2, AsleepFacts DEF DreamTypeOK
<1>4. Kept = memory
  BY <1>2 DEF Kept
<1>5. RunsInOrder /\ KeptIsRecorded /\ OneBackup
  BY <1>1, <1>2, <1>4 DEF RunsInOrder, KeptIsRecorded, OneBackup, Used
<1>6. \A p \in Dreamers : /\ dreamer[p] = Asleep /\ dreamer[p].pc = "idle" /\ dreamer[p].processed = 0
                          /\ dreamer[p].state.current = 0 /\ p # Nobody
  BY <1>1, AsleepFacts
<1>7. RunIsOnDisk
  BY <1>1, <1>6 DEF RunIsOnDisk, OnDisk, At
<1>8. CopiesLagBehind
  BY <1>1, <1>2, <1>6 DEF CopiesLagBehind
<1>. QED
  BY <1>3, <1>5, <1>7, <1>8 DEF DreamInv

LEMMA DreamNextStep ==
    ASSUME DreamInv, OneDreamer, DreamNext
    PROVE  DreamInv'
<1>1. ASSUME NEW p \in Dreamers, Dies(p) PROVE DreamInv'
  <2>1. faults' \in 0 .. MaxFaults
    BY <1>1, DreamFacts, DreamAssumption DEF Dies, Fault, DreamInv
  <2>. QED
    BY <1>1, <2>1, FallsAsleep DEF Dies
<1>. QED
  BY <1>1, LoadStep, CheckGatesStep, AcquireStep, MarkStartedStep, StagingEndsStep, WriteManifestStep,
     CommitFileStep, FinishStateStep, FinalizeStep, AroundStep DEF DreamNext, DreamStep

LEMMA DreamInvariance ==
    ASSUME OneDreamer
    PROVE  DreamSpec => []DreamInv
<1>1. DreamInv /\ [DreamNext]_dreamVars => DreamInv'
  <2> SUFFICES ASSUME DreamInv, [DreamNext]_dreamVars PROVE DreamInv'
    OBVIOUS
  <2>1. CASE UNCHANGED dreamVars
    <3>1. UNCHANGED <<dream_state, dream_lock, memory, backups, dreamer, rewritten, sessions, faults>>
      BY <2>1 DEF dreamVars
    <3>2. Kept' = Kept
      BY <3>1 DEF Kept, Restored
    <3>3. DreamTypeOK' /\ OneBackup' /\ CopiesLagBehind'
      BY <3>1 DEF DreamInv, DreamTypeOK, OneBackup, CopiesLagBehind
    <3>4. RunsInOrder' /\ KeptIsRecorded'
      BY <3>1, <3>2, KeepsKept
    <3>5. RunIsOnDisk'
      <4>1. \A p \in Dreamers : IsBackedUp(p) => IsBackedUp(p)'
        BY <3>1, <3>2 DEF IsBackedUp, Used
      <4>. QED
        BY <3>1, <4>1 DEF DreamInv, RunIsOnDisk, OnDisk, At
    <3>. QED
      BY <3>3, <3>4, <3>5 DEF DreamInv
  <2>. QED
    BY <2>1, DreamNextStep
<1>. QED
  BY <1>1, DreamInit1, PTL DEF DreamSpec

\* With one dreamer, when nothing is left to be recovered the files of a run are
\* all in the memory directory or none is, and only if it was recorded: whatever
\* write failed and wherever the process died.
THEOREM MemoryIsWholeHolds ==
    ASSUME OneDreamer
    PROVE  DreamSpec => []MemoryIsWhole
<1>1. DreamInv => MemoryIsWhole
  <2> SUFFICES ASSUME DreamInv, Quiet, NEW r \in Runs, NEW f \in MemoryFiles, memory[f] = r
               PROVE  r \in dream_state.recorded /\ \A g \in rewritten[r] : memory[g] >= r
    BY DEF MemoryIsWhole
  <2>1. Kept = memory
    BY KeptNow DEF Quiet, DreamInv
  <2>2. r # 0
    BY DreamAssumption DEF Runs
  <2>. QED
    BY <2>1, <2>2 DEF DreamInv, KeptIsRecorded
<1>. QED
  BY <1>1, DreamInvariance, PTL

\* What is recorded stays recorded, and is about the same files.
LEMMA RecordsGrow ==
    ASSUME DreamInv, OneDreamer, DreamNext
    PROVE  \A r \in dream_state.recorded : r \in dream_state'.recorded /\ rewritten'[r] = rewritten[r]
<1>1. ASSUME NEW p \in Dreamers, DreamStep(p)
      PROVE  \A r \in dream_state.recorded : r \in dream_state'.recorded /\ rewritten'[r] = rewritten[r]
  <2>1. dreamer[p].state \in DreamState /\ dream_state \in DreamState /\ OnDisk(p)
    BY Alone, LagFacts, DreamFacts DEF DreamInv
  <2>2. CASE CheckGates(p)
    <3>1. dreamer[p].state.recorded = dream_state.recorded
      BY <2>1, <2>2 DEF CheckGates, OnDisk, At
    <3>2. [dreamer[p].state EXCEPT !.flag = "no"].recorded = dream_state.recorded
      BY <2>1, <3>1, StateFacts
    <3>. QED
      BY <2>2, <3>2 DEF CheckGates
  <2>3. CASE MarkStarted(p)
    <3>1. dreamer[p].state.recorded = dream_state.recorded
      BY <2>1, <2>3 DEF MarkStarted, OnDisk, At
    <3>2. [dreamer[p].state EXCEPT !.flag = "set"].recorded = dream_state.recorded
      BY <2>1, <3>1, StateFacts
    <3>. QED
      BY <2>3, <3>2 DEF MarkStarted
  <2>4. CASE StagingEnds(p)
    <3>1. CASE UNCHANGED rewritten
      BY <2>4, <3>1 DEF StagingEnds
    <3>2. ASSUME NEW fs, NEW run \in Runs, run = Cardinality({r \in Runs : rewritten[r] # {}}) + 1,
                 rewritten' = [rewritten EXCEPT ![run] = fs]
          PROVE  \A r \in dream_state.recorded : rewritten'[r] = rewritten[r]
      <4>1. ~Used(run)
        BY <3>2, NextRun, DreamAssumption DEF Runs
      <4>2. run \notin dream_state.recorded
        BY <4>1 DEF DreamInv, KeptIsRecorded
      <4>. QED
        BY <3>2, <4>2, DreamFacts DEF DreamInv
    <3>. QED
      BY <2>4, <3>1, <3>2 DEF StagingEnds
  <2>5. CASE FinishState(p)
    <3>1. dreamer[p].state.recorded = dream_state.recorded
      BY <2>1, <2>5 DEF FinishState, OnDisk, At
    <3> DEFINE cleared == [dreamer[p].state EXCEPT !.flag = "no"]
    <3>2. cleared.recorded = dream_state.recorded /\ cleared \in DreamState
      BY <2>1, <3>1, StateFacts
    <3>3. dream_state' = FinalState(p) => dream_state.recorded \subseteq dream_state'.recorded
      <4>1. CASE ~dreamer[p].ok
        BY <3>2, <4>1 DEF FinalState
      <4>2. CASE dreamer[p].ok
        <5>1. FinalState(p).recorded = IF Mine(p) = {} THEN cleared.recorded
                                       ELSE cleared.recorded \cup {dreamer[p].run}
          <6> HIDE DEF cleared
          <6>. QED
            BY <3>2, <4>2 DEF FinalState, DreamState, cleared
        <5>. QED
          BY <3>2, <5>1
      <4>. QED
        BY <4>1, <4>2
    <3>. QED
      BY <2>5, <3>3 DEF FinishState
  <2>6. CASE Load(p) \/ Acquire(p) \/ WriteManifest(p) \/ CommitFile(p) \/ Finalize(p)
    BY <2>6 DEF Load, Acquire, WriteManifest, CommitFile, Finalize
  <2>. QED
    BY <1>1, <2>2, <2>3, <2>4, <2>5, <2>6 DEF DreamStep
<1>2. ASSUME NEW p \in Dreamers, Dies(p)
      PROVE  \A r \in dream_state.recorded : r \in dream_state'.recorded /\ rewritten'[r] = rewritten[r]
  BY <1>2 DEF Dies
<1>3. CASE CountSession \/ TimePasses
  BY <1>3, DreamFacts DEF CountSession, TimePasses, DreamState, DreamInv
<1>. QED
  BY <1>1, <1>2, <1>3 DEF DreamNext

\* With one dreamer, a run whose commit was recorded is not undone by a later
\* recovery or roll-back.
THEOREM RecordedStaysHolds ==
    ASSUME OneDreamer
    PROVE  DreamSpec => RecordedStays
<1>1. DreamInv /\ [DreamNext]_dreamVars =>
          [\A r \in dream_state.recorded : \A f \in rewritten[r] :
               memory[f] >= r => memory'[f] >= r]_dreamVars
  <2> SUFFICES ASSUME DreamInv, DreamNext, NEW r \in dream_state.recorded, NEW f \in rewritten[r]
               PROVE  memory'[f] >= r
    OBVIOUS
  <2>1. DreamInv'
    BY DreamNextStep
  <2>2. r \in dream_state'.recorded /\ f \in rewritten'[r]
    BY RecordsGrow
  <2>. QED
    BY <2>1, <2>2 DEF DreamInv, KeptIsRecorded
<1>. QED
  BY <1>1, DreamInvariance, PTL DEF DreamSpec, RecordedStays
=============================================================================
