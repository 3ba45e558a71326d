------------------------ MODULE EntryRepositoryProofs ------------------------
(***************************************************************************)
(* Theorems about the entry store, for every set of ids and messages, both *)
(* backends, every limit and every movement of the clock.                  *)
(***************************************************************************)
EXTENDS EntryRepository, FiniteSetTheorems, TLAPS

\* A table whose rows hold a body exactly when they are unacknowledged.
WellFormed(es) == IsTable(es) /\ \A id \in DOMAIN es : es[id].acked <=> es[id].body = None

\* The rows that may be deleted to make room: expired or acknowledged ones.
Disposable(es) == ExpiredIds(es) \cup AckedIds(es)

\* Disposable rows of which those that have not expired are the oldest.
Evictable(es) ==
  {G \in SUBSET Disposable(es) :
     \A v \in G \ ExpiredIds(es), w \in AckedIds(es) \ G :
       es[v].created_at <= es[w].created_at}

(***************************************************************************)
(* Maps.                                                                   *)
(***************************************************************************)

\* Removing rows leaves the others as they are.
LEMMA WithoutRows ==
  ASSUME NEW es, NEW S
  PROVE  /\ DOMAIN Without(es, S) = DOMAIN es \ S
         /\ \A id \in DOMAIN es \ S : Without(es, S)[id] = es[id]
BY DEF Without, Restrict

\* Putting a row adds its id and leaves the others as they are.
LEMMA PutRows ==
  ASSUME NEW es, NEW id, NEW e
  PROVE  /\ DOMAIN Put(es, id, e) = DOMAIN es \cup {id}
         /\ Put(es, id, e)[id] = e
         /\ \A other \in DOMAIN es \ {id} : Put(es, id, e)[other] = es[other]
BY DEF Put

\* Removing twice is removing once.
LEMMA WithoutTwice ==
  ASSUME NEW es, NEW A, NEW B
  PROVE  Without(Without(es, A), B) = Without(es, A \cup B)
BY DEF Without, Restrict

\* Removing nothing changes nothing.
LEMMA WithoutNothing ==
  ASSUME NEW es, IsTable(es)
  PROVE  Without(es, {}) = es
BY DEF Without, Restrict, IsTable

\* A well-formed table stays so when rows are removed.
LEMMA WithoutWellFormed ==
  ASSUME NEW es, WellFormed(es), NEW S
  PROVE  WellFormed(Without(es, S))
BY DEF Without, Restrict, WellFormed, IsTable

\* A well-formed table stays so when a fresh message is put in it.
LEMMA PutWellFormed ==
  ASSUME NEW es, WellFormed(es), NEW id \in Ids, NEW m \in Messages,
         NEW t \in Int, now \in Int
  PROVE  WellFormed(Put(es, id, NewEntry(m, t)))
<1>1. NewEntry(m, t) \in Entry
  BY DEF NewEntry, Entry
<1>2. NewEntry(m, t).acked = FALSE /\ NewEntry(m, t).body # None
  BY RepositoryAssumption DEF NewEntry
<1> QED
  BY <1>1, <1>2 DEF Put, WellFormed, IsTable

(***************************************************************************)
(* What an insert may do to the table.                                     *)
(***************************************************************************)

\* make_room only removes disposable rows, in either backend.
LEMMA MakeRoomDisposes ==
  ASSUME NEW es, WellFormed(es), NEW r \in make_room(es)
  PROVE  \E G \in Evictable(es) : r = Without(es, G)
<1> DEFINE live == delete_expired(es)
<1>1. es = Without(es, {})
  BY WithoutNothing DEF WellFormed
<1>2. live = Without(es, ExpiredIds(es))
  BY DEF delete_expired
<1>3. ASSUME NEW n, r \in evict_acked(live, n)
      PROVE  \E G \in Evictable(es) : r = Without(es, G)
  <2>1. PICK V \in OldestAcked(live, n) : r = Without(live, V)
    BY <1>3 DEF evict_acked
  <2>2. /\ V \subseteq AckedIds(live)
        /\ \A v \in V, w \in AckedIds(live) \ V : live[v].created_at <= live[w].created_at
    BY <2>1 DEF OldestAcked
  <2>3. /\ DOMAIN live = DOMAIN es \ ExpiredIds(es)
        /\ \A id \in DOMAIN live : live[id] = es[id]
    BY DEF delete_expired, Without, Restrict
  <2>4. AckedIds(live) = AckedIds(es) \ ExpiredIds(es)
    <3> HIDE DEF live
    <3> QED
      BY <2>3 DEF AckedIds
  <2>5. r = Without(es, ExpiredIds(es) \cup V)
    BY <1>2, <2>1, WithoutTwice
  <2>6. \A v \in V, w \in AckedIds(es) \ (ExpiredIds(es) \cup V) :
          es[v].created_at <= es[w].created_at
    <3> HIDE DEF live
    <3> QED
      BY <2>2, <2>3, <2>4 DEF AckedIds
  <2>7. ExpiredIds(es) \cup V \in Evictable(es)
    BY <2>2, <2>4, <2>6 DEF Disposable, Evictable
  <2> QED
    BY <2>5, <2>7
<1>4. \/ r = es
      \/ r = live
      \/ r \in evict_acked(live, entries_over_limit(live))
      \/ r \in evict_acked(live, 1)
  BY DEF make_room, make_room_sqlite, make_room_memory
<1>5. ExpiredIds(es) \in Evictable(es) /\ {} \in Evictable(es)
  BY DEF Disposable, Evictable
<1> QED
  BY <1>1, <1>2, <1>3, <1>4, <1>5

\* An insert removes disposable rows at most, and none of them when the id is
\* already there; if it succeeds it adds the new row, and then either the id was
\* there or a slot is free without it.
LEMMA InsertShape ==
  ASSUME NEW es, WellFormed(es), NEW id \in Ids, NEW m \in Messages, NEW t \in Int,
         NEW r \in insert(es, id, m, t)
  PROVE  \E G \in Evictable(es) :
           /\ id \in DOMAIN es => G = {}
           /\ \/ /\ r.outcome \in {"StoreFull", "Error"}
                 /\ r.table = Without(es, G)
              \/ /\ r.outcome = "Stored"
                 /\ r.table = Put(Without(es, G), id, NewEntry(m, t))
                 /\ id \in DOMAIN es \/ slot_free(Without(es, G))
<1> DEFINE rooms == IF id \in DOMAIN es THEN {es} ELSE make_room(es)
           fits(x) == id \in DOMAIN es \/ slot_free(x)
<1>1. \A x \in rooms \cup AfterFailedInsert(es, id) :
        \E G \in Evictable(es) :
          (id \in DOMAIN es => G = {}) /\ x = Without(es, G)
  <2>1. es = Without(es, {})
    BY WithoutNothing DEF WellFormed
  <2>2. delete_expired(es) = Without(es, ExpiredIds(es))
    BY DEF delete_expired
  <2>3. \A x \in make_room(es) : \E G \in Evictable(es) : x = Without(es, G)
    BY MakeRoomDisposes
  <2>4. ExpiredIds(es) \in Evictable(es) /\ {} \in Evictable(es)
    BY DEF Disposable, Evictable
  <2> QED
    BY <2>1, <2>2, <2>3, <2>4 DEF AfterFailedInsert
<1>2. \/ \E x \in rooms :
           r = [table   |-> IF fits(x) THEN Put(x, id, NewEntry(m, t)) ELSE x,
                outcome |-> IF fits(x) THEN "Stored" ELSE "StoreFull"]
      \/ \E x \in AfterFailedInsert(es, id) : r = [table |-> x, outcome |-> "Error"]
  BY Zenon DEF insert
<1>3. ASSUME NEW x \in rooms,
             r = [table   |-> IF fits(x) THEN Put(x, id, NewEntry(m, t)) ELSE x,
                  outcome |-> IF fits(x) THEN "Stored" ELSE "StoreFull"]
      PROVE  \/ r.outcome = "StoreFull" /\ r.table = x
             \/ r.outcome = "Stored" /\ r.table = Put(x, id, NewEntry(m, t)) /\ fits(x)
  BY <1>3
<1>4. CASE \E x \in AfterFailedInsert(es, id) : r = [table |-> x, outcome |-> "Error"]
  <2> HIDE DEF rooms
  <2> QED
    BY <1>1, <1>4
<1>5. CASE \E x \in rooms :
             r = [table   |-> IF fits(x) THEN Put(x, id, NewEntry(m, t)) ELSE x,
                  outcome |-> IF fits(x) THEN "Stored" ELSE "StoreFull"]
  <2>1. PICK x \in rooms :
               \/ r.outcome = "StoreFull" /\ r.table = x
               \/ r.outcome = "Stored" /\ r.table = Put(x, id, NewEntry(m, t)) /\ fits(x)
    <3> HIDE DEF rooms, fits
    <3> QED
      BY <1>3, <1>5
  <2>2. PICK G \in Evictable(es) : (id \in DOMAIN es => G = {}) /\ x = Without(es, G)
    <3> HIDE DEF rooms
    <3> QED
      BY <1>1, <2>1
  <2> QED
    BY <2>1, <2>2
<1> QED
  <2> HIDE DEF rooms, fits
  <2> QED
    BY <1>2, <1>4, <1>5

\* An insert leaves a well-formed table, whatever its outcome.
LEMMA InsertWellFormed ==
  ASSUME NEW es, WellFormed(es), NEW id \in Ids, NEW m \in Messages, NEW t \in Int,
         now \in Int, NEW r \in insert(es, id, m, t)
  PROVE  WellFormed(r.table)
<1>1. PICK G : \/ r.table = Without(es, G)
               \/ r.table = Put(Without(es, G), id, NewEntry(m, t))
  BY InsertShape
<1>2. WellFormed(Without(es, G))
  BY WithoutWellFormed
<1>3. WellFormed(Put(Without(es, G), id, NewEntry(m, t)))
  BY <1>2, PutWellFormed
<1> QED
  BY <1>1, <1>2, <1>3

\* Acknowledging leaves a well-formed table.
LEMMA AcknowledgedWellFormed ==
  ASSUME NEW es, WellFormed(es), NEW id \in Ids
  PROVE  WellFormed(acknowledged(es, id))
BY DEF acknowledged, WellFormed, IsTable, Entry

(***************************************************************************)
(* Theorems of the specification.                                          *)
(***************************************************************************)

\* The parameters of an insert, in a state of the right type, are as the lemmas
\* above want them.
LEMMA InsertContext ==
  ASSUME RepoTypeOK, NEW ttl \in Ttls
  PROVE  WellFormed(entries) /\ now \in Int /\ now + ttl \in Int
BY RepositoryAssumption DEF RepoTypeOK, WellFormed

\* Every step keeps the type invariant, in particular that a row holds a body
\* exactly when it is unacknowledged.
LEMMA RepoTypeStep ==
  ASSUME RepoTypeOK, [RepoNext]_repo_vars
  PROVE  RepoTypeOK'
<1> USE RepositoryAssumption
<1>1. WellFormed(entries)
  BY DEF RepoTypeOK, WellFormed
<1>2. SUFFICES /\ WellFormed(entries')
               /\ now' \in 0..MaxTime
               /\ max_entries' \in Limits
  BY DEF RepoTypeOK, WellFormed, IsTable
<1>3. ASSUME NEW id \in Ids, NEW m \in Messages, NEW ttl \in Ttls, Insert(id, m, ttl)
      PROVE  WellFormed(entries')
  <2>1. PICK r \in insert(entries, id, m, now + ttl) : entries' = r.table
    BY <1>3 DEF Insert
  <2>2. now \in Int /\ now + ttl \in Int
    BY InsertContext
  <2> QED
    BY <1>1, <2>1, <2>2, InsertWellFormed
<1>4. ASSUME NEW id \in Ids, Ack(id)
      PROVE  WellFormed(entries')
  BY <1>1, <1>4, AcknowledgedWellFormed DEF Ack
<1>5. ASSUME NEW id \in Ids, Delete(id)
      PROVE  WellFormed(entries')
  BY <1>1, <1>5, WithoutWellFormed DEF Delete
<1>6. CASE CleanupExpired
  BY <1>1, <1>6, WithoutWellFormed DEF CleanupExpired, delete_expired, RepoTypeOK
<1>7. CASE Tick
  BY <1>1, <1>7 DEF Tick, LaterReadings, RepoTypeOK
<1>8. CASE Reopen
  <2>1. WellFormed([id \in {} |-> None])
    BY DEF WellFormed, IsTable
  <2> QED
    BY <1>1, <1>8, <2>1 DEF Reopen, RepoTypeOK
<1>9. CASE UNCHANGED repo_vars
  BY <1>1, <1>9 DEF repo_vars, RepoTypeOK
<1> QED
  BY <1>3, <1>4, <1>5, <1>6, <1>7, <1>8, <1>9
  DEF RepoNext, Insert, Ack, Delete, RepoTypeOK

\* The repository keeps the type invariant in every behaviour.
THEOREM RepoTypeCorrect == RepoSpec => []RepoTypeOK
<1>1. RepoInit => RepoTypeOK
  BY RepositoryAssumption DEF RepoInit, RepoTypeOK, IsTable
<1>2. RepoTypeOK /\ [RepoNext]_repo_vars => RepoTypeOK'
  BY RepoTypeStep
<1> QED
  BY <1>1, <1>2, PTL DEF RepoSpec

\* The table is written by an insert; the clock may move on in the same step, as it may
\* before POST /link reads back what it has stored.
Inserted(id, m, ttl) ==
  /\ \E r \in insert(entries, id, m, now + ttl) : entries' = r.table
  /\ max_entries' = max_entries

\* A step of any component that uses the store through its operations.
StoreCalled ==
  \/ [RepoNext]_repo_vars
  \/ \E id \in Ids, m \in Messages, ttl \in Ttls : Inserted(id, m, ttl)

\* Such a step is an insert or one of the others.
LEMMA StoreCalledCases ==
  ASSUME StoreCalled
  PROVE  \/ \E id \in Ids, m \in Messages, ttl \in Ttls : Inserted(id, m, ttl)
         \/ \E id \in Ids : Ack(id) \/ Delete(id)
         \/ CleanupExpired \/ Tick \/ Reopen \/ UNCHANGED repo_vars
BY DEF StoreCalled, RepoNext, Insert, Inserted

\* What an insert does to the table in a state of the right type.
LEMMA InsertStep ==
  ASSUME RepoTypeOK, NEW id \in Ids, NEW m \in Messages, NEW ttl \in Ttls,
         Inserted(id, m, ttl)
  PROVE  \E G \in Evictable(entries) :
           /\ id \in DOMAIN entries => G = {}
           /\ \/ entries' = Without(entries, G)
              \/ /\ entries' = Put(Without(entries, G), id, NewEntry(m, now + ttl))
                 /\ id \in DOMAIN entries \/ slot_free(Without(entries, G))
<1>1. PICK r \in insert(entries, id, m, now + ttl) : entries' = r.table
  BY DEF Inserted
<1> QED
  BY <1>1, InsertContext, InsertShape

\* An insert that removes rows leaves those that stay, and removes evictable ones.
LEMMA InsertDomain ==
  ASSUME RepoTypeOK, NEW id \in Ids, NEW m \in Messages, NEW ttl \in Ttls,
         Inserted(id, m, ttl)
  PROVE  \E G \in Evictable(entries) :
           /\ id \in DOMAIN entries => G = {}
           /\ DOMAIN entries \ DOMAIN entries' \subseteq G
           /\ DOMAIN entries \ G \subseteq DOMAIN entries'
           /\ DOMAIN entries' \subseteq (DOMAIN entries \ G) \cup {id}
<1>1. PICK G \in Evictable(entries) :
        /\ id \in DOMAIN entries => G = {}
        /\ \/ entries' = Without(entries, G)
           \/ entries' = Put(Without(entries, G), id, NewEntry(m, now + ttl))
  BY InsertStep
<1>2. DOMAIN Without(entries, G) = DOMAIN entries \ G
  BY WithoutRows
<1>3. DOMAIN Put(Without(entries, G), id, NewEntry(m, now + ttl))
        = (DOMAIN entries \ G) \cup {id}
  BY <1>2, PutRows
<1> QED
  BY <1>1, <1>2, <1>3

\* An undelivered message that has not expired outlives every insert but one under its
\* own id, which leaves it where it is or replaces it.
LEMMA InsertKeepsMessage ==
  ASSUME RepoTypeOK, NEW other \in Ids, NEW m \in Messages, NEW ttl \in Ttls,
         Inserted(other, m, ttl),
         NEW id \in DOMAIN entries, ~entries[id].acked, entries[id].expires_at >= now
  PROVE  /\ id \in DOMAIN entries'
         /\ entries'[id].body \in {entries[id].body, m}
<1> DEFINE row == NewEntry(m, now + ttl)
<1>1. PICK G \in Evictable(entries) :
        \/ entries' = Without(entries, G)
        \/ entries' = Put(Without(entries, G), other, row)
  BY InsertStep
<1>2. id \notin G
  <2>1. entries[id].expires_at \in Int /\ now \in Int
    BY RepositoryAssumption DEF RepoTypeOK, IsTable, Entry
  <2> QED
    BY <2>1 DEF Evictable, Disposable, ExpiredIds, AckedIds
<1>3. id \in DOMAIN Without(entries, G) /\ Without(entries, G)[id] = entries[id]
  BY <1>2 DEF Without, Restrict
<1>4. CASE entries' = Without(entries, G)
  BY <1>3, <1>4
<1>5. CASE entries' = Put(Without(entries, G), other, row)
  <2>1. row.body = m
    BY DEF NewEntry
  <2> HIDE DEF row
  <2>2. id \in DOMAIN entries' /\ entries'[id] \in {entries[id], row}
    BY <1>3, <1>5 DEF Put
  <2> QED
    BY <2>1, <2>2
<1> QED
  BY <1>1, <1>4, <1>5

\* Neither an insert under whatever id, nor a failing one, nor a cleanup removes
\* an undelivered message that has not expired.
LEMMA KeepsUndeliveredStep ==
  ASSUME RepoTypeOK, StoreCalled
  PROVE  KeepsUndelivered
<1> SUFFICES ASSUME NEW id \in DOMAIN entries, ~entries[id].acked,
                    entries[id].expires_at >= now,
                    id \notin DOMAIN entries'
             PROVE  ~RoomMaking /\ (Delete(id) \/ (Reopen /\ ~Durable))
  BY DEF KeepsUndelivered
<1>1. id \notin Disposable(entries)
  <2>1. entries[id].expires_at \in Int /\ now \in Int
    BY RepositoryAssumption DEF RepoTypeOK, IsTable, Entry
  <2> QED
    BY <2>1 DEF Disposable, ExpiredIds, AckedIds
<1>2. ASSUME NEW other \in Ids, NEW m \in Messages, NEW ttl \in Ttls,
             Inserted(other, m, ttl)
      PROVE  FALSE
  BY <1>1, <1>2, InsertDomain DEF Evictable
<1>3. ~CleanupExpired
  BY <1>1 DEF CleanupExpired, delete_expired, Without, Restrict, Disposable
<1>4. ~RoomMaking
  BY <1>2, <1>3 DEF RoomMaking, Insert, Inserted
<1>5. ASSUME NEW other \in Ids, Ack(other)
      PROVE  FALSE
  BY <1>5 DEF Ack, acknowledged
<1>6. ASSUME NEW other \in Ids, Delete(other)
      PROVE  Delete(id)
  <2>1. other = id
    BY <1>6 DEF Delete, Without, Restrict
  <2> QED
    BY <1>6, <2>1
<1>7. CASE Tick \/ Reopen \/ UNCHANGED repo_vars
  BY <1>4, <1>7 DEF Tick, Reopen, repo_vars
<1> QED
  BY <1>2, <1>3, <1>4, <1>5, <1>6, <1>7, StoreCalledCases

\* Room is never made at the expense of a message that is still to be delivered.
THEOREM UndeliveredIsKept == RepoSpec => UndeliveredKept
<1>1. RepoTypeOK /\ [RepoNext]_repo_vars => [KeepsUndelivered]_repo_vars
  BY KeepsUndeliveredStep DEF StoreCalled
<1> QED
  BY <1>1, RepoTypeCorrect, PTL DEF RepoSpec, UndeliveredKept

\* What an insert or a cleanup removes before its time is as old as any acknowledged
\* row it leaves.
LEMMA EvictsOldestStep ==
  ASSUME RepoTypeOK, StoreCalled
  PROVE  EvictsOldestFirst
<1> SUFFICES ASSUME NEW id \in DOMAIN entries \ DOMAIN entries',
                    NEW kept \in AckedIds(entries),
                    entries[id].expires_at >= now, kept \in DOMAIN entries',
                    RoomMaking \/ ~Delete(id)
             PROVE  entries[id].created_at <= entries[kept].created_at
  BY DEF EvictsOldestFirst
<1>1. id \notin ExpiredIds(entries)
  <2>1. entries[id].expires_at \in Int /\ now \in Int
    BY RepositoryAssumption DEF RepoTypeOK, IsTable, Entry
  <2> QED
    BY <2>1 DEF ExpiredIds
<1>2. ASSUME NEW other \in Ids, NEW m \in Messages, NEW ttl \in Ttls,
             Inserted(other, m, ttl)
      PROVE  entries[id].created_at <= entries[kept].created_at
  <2>1. PICK G \in Evictable(entries) :
          /\ other \in DOMAIN entries => G = {}
          /\ DOMAIN entries \ DOMAIN entries' \subseteq G
          /\ DOMAIN entries' \subseteq (DOMAIN entries \ G) \cup {other}
    BY <1>2, InsertDomain
  <2>2. id \in G \ ExpiredIds(entries)
    BY <1>1, <2>1
  <2>3. kept \notin G
    BY <2>1 DEF AckedIds
  <2> QED
    BY <2>2, <2>3 DEF Evictable
<1>3. ASSUME NEW other \in Ids, Ack(other)
      PROVE  FALSE
  BY <1>3 DEF Ack, acknowledged
<1>4. ASSUME NEW other \in Ids, Delete(other)
      PROVE  Delete(id)
  <2>1. other = id
    BY <1>4 DEF Delete, Without, Restrict
  <2> QED
    BY <1>4, <2>1
<1>5. CASE CleanupExpired
  BY <1>1, <1>5 DEF CleanupExpired, delete_expired, Without, Restrict
<1>6. CASE Tick \/ Reopen \/ UNCHANGED repo_vars
  BY <1>6 DEF Tick, Reopen, repo_vars, AckedIds
<1>7. CASE RoomMaking
  BY <1>2, <1>5, <1>7 DEF RoomMaking, Insert, Inserted
<1> QED
  BY <1>2, <1>3, <1>4, <1>5, <1>6, <1>7, StoreCalledCases

\* An acknowledged entry is evicted before its time only if no older one stays.
THEOREM OldestIsEvictedFirst == RepoSpec => OldestEvictedFirst
<1>1. RepoTypeOK /\ [RepoNext]_repo_vars => [EvictsOldestFirst]_repo_vars
  BY EvictsOldestStep DEF StoreCalled
<1> QED
  BY <1>1, RepoTypeCorrect, PTL DEF RepoSpec, OldestEvictedFirst

\* Tables are finite, and a table with fewer rows is no larger.
LEMMA TableFinite ==
  ASSUME NEW es, DOMAIN es \subseteq Ids, NEW fewer, DOMAIN fewer \subseteq DOMAIN es
  PROVE  /\ IsFiniteSet(DOMAIN es)
         /\ Size(es) \in Nat
         /\ Size(fewer) \in Nat
         /\ Size(fewer) <= Size(es)
BY RepositoryAssumption, FS_Subset, FS_CardinalityType DEF Size

\* An insert that makes the table larger leaves it within the limit.
LEMMA InsertGrowth ==
  ASSUME RepoTypeOK, NEW id \in Ids, NEW m \in Messages, NEW ttl \in Ttls,
         Inserted(id, m, ttl)
  PROVE  GrowsWithinLimit
<1> DEFINE row == NewEntry(m, now + ttl)
<1>1. PICK G \in Evictable(entries) :
        /\ id \in DOMAIN entries => G = {}
        /\ \/ entries' = Without(entries, G)
           \/ /\ entries' = Put(Without(entries, G), id, row)
              /\ id \in DOMAIN entries \/ slot_free(Without(entries, G))
  BY InsertStep
<1>2. DOMAIN Without(entries, G) = DOMAIN entries \ G
  BY WithoutRows
<1>3. DOMAIN Put(Without(entries, G), id, row) = (DOMAIN entries \ G) \cup {id}
  BY <1>2, PutRows
<1>4. DOMAIN entries \subseteq Ids /\ max_entries \in Nat
  BY RepositoryAssumption DEF RepoTypeOK, IsTable
<1>5. CASE DOMAIN entries' \subseteq DOMAIN entries
  <2>1. Size(entries') <= Size(entries) /\ Size(entries') \in Nat /\ Size(entries) \in Nat
    BY <1>4, <1>5, TableFinite
  <2> QED
    BY <2>1 DEF GrowsWithinLimit
<1>6. CASE ~(DOMAIN entries' \subseteq DOMAIN entries)
  <2>1. /\ DOMAIN entries' = DOMAIN Without(entries, G) \cup {id}
        /\ slot_free(Without(entries, G))
    BY <1>1, <1>2, <1>3, <1>6
  <2>2. IsFiniteSet(DOMAIN Without(entries, G)) /\ Size(Without(entries, G)) \in Nat
    BY <1>2, <1>4, TableFinite
  <2>3. Size(entries') <= Size(Without(entries, G)) + 1 /\ Size(entries') \in Nat
    <3> DEFINE D == DOMAIN Without(entries, G)
    <3>1. IsFiniteSet(D) /\ Cardinality(D) \in Nat /\ Size(Without(entries, G)) = Cardinality(D)
      BY <2>2 DEF Size
    <3>2. Size(entries') = Cardinality(D \cup {id})
      BY <2>1 DEF Size
    <3> HIDE DEF D
    <3>3. Cardinality(D \cup {id}) = IF id \in D THEN Cardinality(D) ELSE Cardinality(D) + 1
      BY <3>1, FS_AddElement
    <3> QED
      BY <3>1, <3>2, <3>3
  <2> QED
    BY <1>4, <2>1, <2>2, <2>3 DEF GrowsWithinLimit, slot_free
<1> QED
  BY <1>5, <1>6

\* A step other than an insert never makes the table larger.
LEMMA OthersDoNotGrow ==
  ASSUME RepoTypeOK,
         \/ \E id \in Ids : Ack(id) \/ Delete(id)
         \/ CleanupExpired \/ Tick \/ Reopen \/ UNCHANGED repo_vars
  PROVE  Size(entries') <= Size(entries)
<1>1. DOMAIN entries' \subseteq DOMAIN entries
  BY DEF Ack, acknowledged, Delete, CleanupExpired, delete_expired, Without, Restrict,
         Tick, Reopen, repo_vars
<1> QED
  BY <1>1, TableFinite DEF RepoTypeOK, IsTable

\* The number of rows before and after a step that keeps the types.
LEMMA TableSizes ==
  ASSUME RepoTypeOK, RepoTypeOK'
  PROVE  /\ Size(entries) \in Nat /\ max_entries \in Nat
         /\ Size(entries') \in Nat /\ max_entries' \in Nat
<1>1. DOMAIN entries \subseteq Ids /\ DOMAIN entries' \subseteq Ids
  BY DEF RepoTypeOK, IsTable
<1>2. Size(entries) \in Nat /\ Size(entries') \in Nat
  BY <1>1, TableFinite
<1> QED
  BY <1>2, RepositoryAssumption DEF RepoTypeOK

\* Only an insert makes the table larger, and within the limit.
LEMMA GrowthStep ==
  ASSUME RepoTypeOK, RepoTypeOK', StoreCalled
  PROVE  GrowsWithinLimit
<1>1. ASSUME NEW id \in Ids, NEW m \in Messages, NEW ttl \in Ttls, Inserted(id, m, ttl)
      PROVE  GrowsWithinLimit
  BY <1>1, InsertGrowth
<1>2. CASE \/ \E id \in Ids : Ack(id) \/ Delete(id)
           \/ CleanupExpired \/ Tick \/ Reopen \/ UNCHANGED repo_vars
  <2>1. Size(entries') <= Size(entries)
    BY <1>2, OthersDoNotGrow
  <2> QED
    BY <2>1, TableSizes DEF GrowsWithinLimit
<1> QED
  BY <1>1, <1>2, StoreCalledCases

\* The store grows only up to the limit in force.
THEOREM GrowthIsWithinLimit == RepoSpec => GrowthWithinLimit
<1>1. RepoTypeOK /\ RepoTypeOK' /\ [RepoNext]_repo_vars => [GrowsWithinLimit]_repo_vars
  BY GrowthStep DEF StoreCalled
<1> QED
  BY <1>1, RepoTypeCorrect, PTL DEF RepoSpec, GrowthWithinLimit

(***************************************************************************)
(* When a new id is turned away.                                           *)
(***************************************************************************)

\* Evicting n rows of a table with m rows leaves m - n, or no acknowledged row.
LEMMA EvictedSize ==
  ASSUME NEW es, DOMAIN es \subseteq Ids, NEW n \in Int, NEW r \in evict_acked(es, n)
  PROVE  \/ Size(r) = Size(es) - n
         \/ AckedIds(r) = {}
<1>1. PICK V \in OldestAcked(es, n) : r = Without(es, V)
  BY DEF evict_acked
<1>2. V \subseteq DOMAIN es /\ (Cardinality(V) = n \/ V = AckedIds(es))
  BY <1>1 DEF OldestAcked, AckedIds
<1>3. /\ DOMAIN r = DOMAIN es \ V
      /\ \A id \in DOMAIN r : r[id] = es[id]
  BY <1>1 DEF Without, Restrict
<1>4. CASE V = AckedIds(es)
  BY <1>3, <1>4 DEF AckedIds
<1>5. CASE Cardinality(V) = n
  <2>1. IsFiniteSet(DOMAIN es)
    BY RepositoryAssumption, FS_Subset
  <2>2. Cardinality(DOMAIN es \ V) = Cardinality(DOMAIN es) - Cardinality(DOMAIN es \cap V)
    BY <2>1, FS_Difference
  <2>3. DOMAIN es \cap V = V
    BY <1>2
  <2> QED
    BY <1>3, <1>5, <2>2, <2>3 DEF Size
<1> QED
  BY <1>2, <1>4, <1>5

\* The in-memory store never holds more than its limit; an SQLite file may,
\* after a restart with a lower one.
MemoryWithinLimit == Backend = "memory" => Size(entries) <= max_entries

\* If make_room leaves no slot, it left neither an acknowledged row nor an
\* expired one.
LEMMA NoRoomLeft ==
  ASSUME RepoTypeOK, MemoryWithinLimit, NEW r \in make_room(entries), ~slot_free(r)
  PROVE  Size(r) >= max_entries /\ AckedIds(r) = {} /\ ExpiredIds(r) = {}
<1> DEFINE live == delete_expired(entries)
<1>1. DOMAIN entries \subseteq Ids /\ max_entries \in Nat
  BY RepositoryAssumption DEF RepoTypeOK, IsTable
<1>2. /\ DOMAIN live = DOMAIN entries \ ExpiredIds(entries)
      /\ \A id \in DOMAIN live : live[id] = entries[id]
  BY DEF delete_expired, Without, Restrict
<1>3. Size(live) \in Nat /\ Size(entries) \in Nat /\ Size(live) <= Size(entries)
  <2>1. DOMAIN live \subseteq DOMAIN entries
    BY <1>2
  <2> HIDE DEF live
  <2> QED
    BY <1>1, <2>1, TableFinite
<1>4. \/ Backend = "sqlite" /\ r \in evict_acked(live, Size(live) + 1 - max_entries)
      \/ Backend = "memory" /\ r \in evict_acked(live, 1)
  BY RepositoryAssumption
  DEF make_room, make_room_sqlite, make_room_memory, entries_over_limit
<1>5. ~slot_free(live)
  BY DEF make_room, make_room_sqlite, make_room_memory
<1>6. PICK V : V \subseteq DOMAIN live /\ r = Without(live, V)
  BY <1>4 DEF evict_acked, OldestAcked, AckedIds
<1>7. DOMAIN r = DOMAIN live \ V /\ \A id \in DOMAIN r : r[id] = live[id]
  <2> HIDE DEF live
  <2> QED
    BY <1>6 DEF Without, Restrict
<1>8. Size(r) \in Nat /\ Size(r) <= Size(live)
  <2>1. DOMAIN live \subseteq Ids /\ DOMAIN r \subseteq DOMAIN live
    BY <1>1, <1>2, <1>7
  <2> HIDE DEF live
  <2> QED
    BY <2>1, TableFinite
<1>9. Size(r) >= max_entries /\ Size(live) >= max_entries
  BY <1>1, <1>3, <1>5, <1>8 DEF slot_free
<1>10. ExpiredIds(r) = {}
  <2> HIDE DEF live
  <2> QED
    BY <1>2, <1>7 DEF ExpiredIds
<1>11. AckedIds(r) = {}
  <2>1. \/ AckedIds(r) = {}
        \/ Backend = "sqlite" /\ Size(r) = Size(live) - (Size(live) + 1 - max_entries)
        \/ Backend = "memory" /\ Size(r) = Size(live) - 1
    <3>1. DOMAIN live \subseteq Ids /\ Size(live) + 1 - max_entries \in Int
      BY <1>1, <1>2, <1>3
    <3> HIDE DEF live
    <3> QED
      BY <1>4, <3>1, EvictedSize
  <2> HIDE DEF live
  <2> QED
    BY <2>1, <1>1, <1>3, <1>8, <1>9 DEF MemoryWithinLimit
<1> QED
  BY <1>9, <1>10, <1>11

\* The in-memory store stays within its limit.
LEMMA MemoryWithinLimitStep ==
  ASSUME RepoTypeOK, RepoTypeOK', MemoryWithinLimit, StoreCalled
  PROVE  MemoryWithinLimit'
<1>1. /\ Size(entries) \in Nat /\ max_entries \in Nat
      /\ Size(entries') \in Nat /\ max_entries' \in Nat
  BY TableSizes
<1>2. Size(entries)' = Size(entries')
  BY DEF Size
<1>3. CASE max_entries' = max_entries
  <2>1. GrowsWithinLimit
    BY GrowthStep
  <2> QED
    BY <1>1, <1>2, <1>3, <2>1 DEF GrowsWithinLimit, MemoryWithinLimit
<1>4. CASE Reopen
  <2>1. Backend = "memory" => Size(entries') = 0
    BY <1>4, RepositoryAssumption, FS_EmptySet DEF Reopen, Size
  <2> QED
    BY <1>1, <1>2, <2>1 DEF MemoryWithinLimit
<1>5. max_entries' = max_entries \/ Reopen
  BY StoreCalledCases DEF Inserted, Ack, Delete, CleanupExpired, Tick, repo_vars
<1> QED
  BY <1>3, <1>4, <1>5

\* A new id is rejected only when every stored entry holds an undelivered message.
LEMMA RejectionJustified ==
  ASSUME RepoTypeOK, MemoryWithinLimit
  PROVE  RejectedOnlyWhenFull
<1> SUFFICES ASSUME NEW id \in Ids \ DOMAIN entries, NEW m \in Messages, NEW ttl \in Ttls,
                    NEW r \in insert(entries, id, m, now + ttl), r.outcome = "StoreFull"
             PROVE  /\ Size(r.table) >= max_entries
                    /\ AckedIds(r.table) = {}
                    /\ ExpiredIds(r.table) = {}
  BY DEF RejectedOnlyWhenFull
<1>1. r.table \in make_room(entries) /\ ~slot_free(r.table)
  BY DEF insert
<1> QED
  BY <1>1, NoRoomLeft

\* A store at or below its limit makes room in the same way in both backends.
LEMMA BackendsMakeSameRoom ==
  ASSUME RepoTypeOK
  PROVE  BackendsAgree
<1> DEFINE live == delete_expired(entries)
<1>1. DOMAIN entries \subseteq Ids /\ max_entries \in Nat
  BY RepositoryAssumption DEF RepoTypeOK, IsTable
<1>2. Size(live) \in Nat /\ Size(entries) \in Nat /\ Size(live) <= Size(entries)
  <2>1. DOMAIN live \subseteq DOMAIN entries
    BY DEF delete_expired, Without, Restrict
  <2> HIDE DEF live
  <2> QED
    BY <1>1, <2>1, TableFinite
<1>3. Size(entries) <= max_entries /\ ~slot_free(live) => entries_over_limit(live) = 1
  <2> HIDE DEF live
  <2> QED
    BY <1>1, <1>2 DEF slot_free, entries_over_limit
<1> QED
  BY <1>3 DEF BackendsAgree, make_room_sqlite, make_room_memory

\* In every state of the repository an insert that would be rejected would be so
\* for want of anything to evict, whatever the limit was when the file was written.
THEOREM RejectionIsJustified == RepoSpec => []RejectedOnlyWhenFull
<1>1. RepoInit => MemoryWithinLimit
  BY RepositoryAssumption, FS_EmptySet DEF RepoInit, MemoryWithinLimit, Size
<1>2. /\ RepoTypeOK /\ RepoTypeOK' /\ MemoryWithinLimit
      /\ [RepoNext]_repo_vars
      => MemoryWithinLimit'
  BY MemoryWithinLimitStep DEF StoreCalled
<1>3. RepoTypeOK /\ MemoryWithinLimit => RejectedOnlyWhenFull
  BY RejectionJustified
<1> QED
  BY <1>1, <1>2, <1>3, RepoTypeCorrect, PTL DEF RepoSpec

\* The backends agree in every state of the repository.
THEOREM BackendsAlwaysAgree == RepoSpec => []BackendsAgree
BY BackendsMakeSameRoom, RepoTypeCorrect, PTL
==============================================================
