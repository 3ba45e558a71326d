--------------------------- MODULE EntryRepository ---------------------------
(***************************************************************************)
(* The store of relay entries: at most one entry per id, bounded by        *)
(* max_entries.  The SQLite backend (persistence.rs) and the in-memory one *)
(* (storage_memory.rs) offer the same calls; Backend selects one.  Each    *)
(* call runs under the repository's own mutex and reads one clock value.   *)
(*                                                                         *)
(* A message is named by a member of Messages; its bytes and content type  *)
(* are not distinguished further.  With StorageErrors, any SQL statement   *)
(* may fail, and the statements before it stay committed.                  *)
(***************************************************************************)
EXTENDS Integers, FiniteSets, Functions

CONSTANTS
  Ids,            \* the ids clients use
  Messages,       \* the messages producers post
  None,           \* Option::None: the body of an acknowledged entry
  Backend,        \* "sqlite" or "memory"
  Durable,        \* whether the store is a file, which outlives the process
  StorageErrors,  \* whether SQL statements may fail
  Limits,         \* the max_entries settings a start may be given
  Ttls,           \* the times to live of inbox and link messages
  ClockJumps,     \* whether the wall clock may be set back
  MaxTime         \* bound on the modelled wall clock

ASSUME RepositoryAssumption ==
  /\ IsFiniteSet(Ids)
  /\ None \notin Messages
  /\ None \notin Ids
  /\ Backend \in {"sqlite", "memory"}
  /\ Durable \in BOOLEAN
  /\ Durable => Backend = "sqlite"
  /\ StorageErrors \in BOOLEAN
  /\ StorageErrors => Backend = "sqlite"
  /\ Limits \subseteq Nat
  /\ Ttls \subseteq Nat
  /\ ClockJumps \in BOOLEAN
  /\ MaxTime \in Nat

VARIABLES
  entries,      \* the table: a function from the stored ids to their rows
  now,          \* unix_timestamp_millis()
  max_entries   \* EntryRepository::max_entries

repo_vars == <<entries, now, max_entries>>

Entry == [body : Messages \cup {None}, acked : BOOLEAN,
          expires_at : Int, created_at : Int]

IsTable(es) == DOMAIN es \subseteq Ids /\ es \in [DOMAIN es -> Entry]

(***************************************************************************)
(* Maps with a key added, replaced or removed.                             *)
(***************************************************************************)
Put(f, k, v) == [x \in DOMAIN f \cup {k} |-> IF x = k THEN v ELSE f[x]]

Without(f, S) == Restrict(f, DOMAIN f \ S)

Size(f) == Cardinality(DOMAIN f)

(***************************************************************************)
(* The definitions named Bug_... are mutants: the code with a plausible    *)
(* mistake.  PROJECT.json says which definition each one replaces and      *)
(* which property then fails; nothing else refers to them.                 *)
(***************************************************************************)

(***************************************************************************)
(* The statements of the store, as functions of the table es.              *)
(***************************************************************************)
ExpiredIds(es) == {id \in DOMAIN es : es[id].expires_at < now}

AckedIds(es) == {id \in DOMAIN es : es[id].acked}

delete_expired(es) == Without(es, ExpiredIds(es))

Bug_OldestAcked_AnyEntry(es, n) ==
  {V \in SUBSET DOMAIN es :
     /\ Cardinality(V) = n
     /\ \A v \in V, w \in DOMAIN es \ V : es[v].created_at <= es[w].created_at}

Bug_OldestAcked_NewestFirst(es, n) ==
  {V \in SUBSET AckedIds(es) :
     /\ \/ Cardinality(V) = n
        \/ V = AckedIds(es) /\ Cardinality(V) < n
     /\ \A v \in V, w \in AckedIds(es) \ V : es[v].created_at >= es[w].created_at}

\* The sets of n acked ids (of all of them, if fewer) that were created first;
\* several, when creation times tie.
OldestAcked(es, n) ==
  {V \in SUBSET AckedIds(es) :
     /\ \/ Cardinality(V) = n
        \/ V = AckedIds(es) /\ Cardinality(V) < n
     /\ \A v \in V, w \in AckedIds(es) \ V : es[v].created_at <= es[w].created_at}

evict_acked(es, n) == {Without(es, V) : V \in OldestAcked(es, n)}

Bug_slot_free_OffByOne(es) == Size(es) <= max_entries

slot_free(es) == Size(es) < max_entries

Bug_entries_over_limit_One(es) == 1

Bug_entries_over_limit_TwoMore(es) == Size(es) + 2 - max_entries

\* The rows to delete from a full store before a new one fits.
entries_over_limit(es) == Size(es) + 1 - max_entries

\* The tables make_room may leave.
make_room_sqlite(es) ==
  IF slot_free(es) THEN {es}
  ELSE LET live == delete_expired(es)
       IN IF slot_free(live) THEN {live} ELSE evict_acked(live, entries_over_limit(live))

make_room_memory(es) ==
  IF slot_free(es) THEN {es}
  ELSE LET live == delete_expired(es)
       IN IF slot_free(live) THEN {live} ELSE evict_acked(live, 1)

make_room(es) ==
  IF Backend = "sqlite" THEN make_room_sqlite(es) ELSE make_room_memory(es)

Bug_AfterFailedInsert_RowGone(es, id) ==
  IF id \in DOMAIN es THEN {es, Without(es, {id})}
  ELSE {es, delete_expired(es)} \cup make_room(es)

\* What a failing insert may leave: each statement commits on its own.
AfterFailedInsert(es, id) ==
  IF id \in DOMAIN es THEN {es} ELSE {es, delete_expired(es)} \cup make_room(es)

NewEntry(m, expires_at) ==
  [body |-> m, acked |-> FALSE, expires_at |-> expires_at, created_at |-> now]

\* insert: the tables and outcomes it may end in.
insert(es, id, m, expires_at) ==
  LET rooms == IF id \in DOMAIN es THEN {es} ELSE make_room(es)
      fits(r) == id \in DOMAIN es \/ slot_free(r)
  IN {[table   |-> IF fits(r) THEN Put(r, id, NewEntry(m, expires_at)) ELSE r,
       outcome |-> IF fits(r) THEN "Stored" ELSE "StoreFull"] : r \in rooms}
     \cup IF StorageErrors
          THEN {[table |-> r, outcome |-> "Error"] : r \in AfterFailedInsert(es, id)}
          ELSE {}

Bug_acknowledged_BodyKept(es, id) ==
  IF id \in DOMAIN es THEN [es EXCEPT ![id].acked = TRUE] ELSE es

Bug_acknowledged_EntryDeleted(es, id) == Without(es, {id})

acknowledged(es, id) ==
  IF id \in DOMAIN es
  THEN [es EXCEPT ![id] = [@ EXCEPT !.acked = TRUE, !.body = None]]
  ELSE es

(***************************************************************************)
(* The component on its own: any caller, any order of calls.               *)
(***************************************************************************)
RepoInit ==
  /\ entries = [id \in {} |-> None]
  /\ now = 0
  /\ max_entries \in Limits

Insert(id, m, ttl) ==
  /\ \E r \in insert(entries, id, m, now + ttl) : entries' = r.table
  /\ UNCHANGED <<now, max_entries>>

Ack(id) ==
  /\ entries' = acknowledged(entries, id)
  /\ UNCHANGED <<now, max_entries>>

Delete(id) ==
  /\ entries' = Without(entries, {id})
  /\ UNCHANGED <<now, max_entries>>

CleanupExpired ==
  /\ entries' = delete_expired(entries)
  /\ UNCHANGED <<now, max_entries>>

\* The readings the wall clock may take next.
LaterReadings == {t \in 0..MaxTime : t = now + 1 \/ (ClockJumps /\ t < now)}

Tick ==
  /\ now' \in LaterReadings
  /\ UNCHANGED <<entries, max_entries>>

\* A process start: an SQLite file keeps its rows whatever the new limit is, an
\* in-memory database or map is gone.
Reopen ==
  /\ max_entries' \in Limits
  /\ entries' = IF Durable THEN entries ELSE [id \in {} |-> None]
  /\ UNCHANGED now

RepoNext ==
  \/ \E id \in Ids, m \in Messages, ttl \in Ttls : Insert(id, m, ttl)
  \/ \E id \in Ids : Ack(id) \/ Delete(id)
  \/ CleanupExpired
  \/ Tick
  \/ Reopen

RepoSpec == RepoInit /\ [][RepoNext]_repo_vars

(***************************************************************************)
(* Properties.                                                             *)
(***************************************************************************)

\* Type invariant; a row holds no body exactly when it is acknowledged, which
\* lets get_or_subscribe go by the body and is_acked by the flag.
RepoTypeOK ==
  /\ IsTable(entries)
  /\ now \in 0..MaxTime
  /\ max_entries \in Limits
  /\ \A id \in DOMAIN entries : entries[id].acked <=> entries[id].body = None

\* A caller stores or the cleanup runs: the steps in which the store decides which rows
\* go.
RoomMaking ==
  CleanupExpired \/ \E id \in Ids, m \in Messages, ttl \in Ttls : Insert(id, m, ttl)

\* An entry that still holds an unexpired message is never removed to make room
\* for another id, nor by a cleanup, nor by a failing insert, not even if it is the
\* only row that goes; only a caller that deletes that id, or a restart that loses the
\* whole store, removes it.
KeepsUndelivered ==
  \A id \in DOMAIN entries :
    ~entries[id].acked /\ entries[id].expires_at >= now =>
      \/ id \in DOMAIN entries'
      \/ ~RoomMaking /\ (Delete(id) \/ (Reopen /\ ~Durable))

UndeliveredKept == [][KeepsUndelivered]_repo_vars

\* Only a caller's delete or a restart removes an unexpired acknowledged entry
\* out of age order: the entries evicted for a new id, by an insert that succeeds or
\* fails, are never younger than an acknowledged entry that stays.
EvictsOldestFirst ==
  \A id \in DOMAIN entries \ DOMAIN entries' : \A kept \in AckedIds(entries) :
    /\ entries[id].expires_at >= now
    /\ kept \in DOMAIN entries'
    /\ RoomMaking \/ ~Delete(id)
    => entries[id].created_at <= entries[kept].created_at

OldestEvictedFirst == [][EvictsOldestFirst]_repo_vars

\* The store grows only up to the limit in force, also when a restart lowered
\* the limit below the number of rows in the file.
GrowsWithinLimit == Size(entries') > Size(entries) => Size(entries') <= max_entries

GrowthWithinLimit == [][GrowsWithinLimit]_repo_vars

\* A new id is turned away only when no entry could have made room: after the
\* attempt the store holds at least max_entries entries and every one holds an
\* unacknowledged message that cleanup would keep.
RejectedOnlyWhenFull ==
  \A id \in Ids \ DOMAIN entries : \A m \in Messages, ttl \in Ttls :
    \A r \in insert(entries, id, m, now + ttl) :
      r.outcome = "StoreFull" =>
        /\ Size(r.table) >= max_entries
        /\ AckedIds(r.table) = {}
        /\ ExpiredIds(r.table) = {}

\* Below or at its limit, a store makes room in the same way in both backends:
\* the in-memory one has "the same capacity rules as the SQLite version".
BackendsAgree ==
  Size(entries) <= max_entries => make_room_sqlite(entries) = make_room_memory(entries)
==============================================================================
