---------------------------- MODULE SessionIndex ----------------------------
(***************************************************************************)
(* The session index on disk (session_manager.py): threads and processes   *)
(* that read sessions.json, change it in memory and write it back under a  *)
(* lock, by way of a temporary file, through failing system calls, killed  *)
(* processes and power failures.                                           *)
(*                                                                         *)
(* An updater stands for a thread of some process; _LOCK, the manager's    *)
(* lock and flock() exclude all of them, as every lock call opens the lock *)
(* file anew.  Each step is one system call that others can observe, or a  *)
(* failure of one.  list() and get() take no lock and change nothing: what *)
(* they see is the file at one moment.  A record is its updated_at and its *)
(* archived flag; names, models, directories and metadata ride along.      *)
(***************************************************************************)
EXTENDS Naturals, FiniteSets

CONSTANTS Updaters,     \* threads that update the index
          Keys,         \* (provider, session_id), as numbers in their order
          Namespaces,   \* the sets of keys of one provider
          Times,        \* values of updated_at
          Limit,        \* max_records
          None,         \* the value None
          MaxVersion    \* bound: replacements of the file

ASSUME SessionIndexAssumption ==
    /\ Keys \subseteq Nat /\ IsFiniteSet(Keys)
    /\ Namespaces \subseteq SUBSET Keys
    /\ Times \subseteq Nat
    /\ Limit \in Nat \ {0}
    /\ None \notin Updaters \cup BOOLEAN
    /\ MaxVersion \in Nat

VARIABLES
    file,       \* sessions.json, as the running system sees it
    durable,    \* sessions.json, as a power failure leaves it
    holder,     \* who has the lock, None if nobody
    pc,         \* where each updater stands
    op,         \* the update each updater makes
    next,       \* the records it is about to write
    blind,      \* history: the updaters that could not read the index
    confirmed   \* history: the version of the last update known to be durable

vars == <<file, durable, holder, pc, op, next, blind, confirmed>>

Entries == [stamp : Times, archived : BOOLEAN]

Indexes == UNION {[S -> Entries] : S \in SUBSET Keys}

Empty == [k \in {} |-> [stamp |-> 0, archived |-> FALSE]]

(* synced: the content is on the disk; whole: it survived.  version is     *)
(* history: how often the file has been replaced.                          *)
Files == [records : Indexes, version : Nat, synced : BOOLEAN, whole : BOOLEAN]

Updates ==
    [kind : {"upsert"}, key : Keys, archived : BOOLEAN \cup {None}, stamp : Times]
      \cup [kind : {"rename"}, key : Keys, stamp : Times]
      \cup [kind : {"fork"}, source : Keys, key : Keys, stamp : Times]
      \cup [kind : {"archive"}, key : Keys, archived : BOOLEAN, stamp : Times]
      \cup [kind : {"delete"}, key : Keys]
      \cup [kind : {"clear"}, keys : Namespaces \cup {Keys}]

Places == {"idle", "reading", "writing", "replacing", "syncing", "unlocking"}

TypeOK ==
    /\ file \in Files /\ durable \in Files
    /\ \A f \in {file, durable} : Cardinality(DOMAIN f.records) <= Limit
    /\ holder \in Updaters \cup {None}
    /\ pc \in [Updaters -> Places]
    /\ op \in [Updaters -> Updates \cup {None}]
    /\ next \in [Updaters -> Indexes]
    /\ blind \in SUBSET Updaters
    /\ confirmed \in Nat

Init ==
    /\ file = [records |-> Empty, version |-> 0, synced |-> TRUE, whole |-> TRUE]
    /\ durable = file
    /\ holder = None
    /\ pc = [u \in Updaters |-> "idle"]
    /\ op = [u \in Updaters |-> None]
    /\ next = [u \in Updaters |-> Empty]
    /\ blind = {}
    /\ confirmed = 0

-----------------------------------------------------------------------------
(* The updates, as functions of the records read. *)

Without(r, S) == [k \in DOMAIN r \ S |-> r[k]]

With(r, k, stamp, archived) ==
    [j \in DOMAIN r \cup {k} |->
        IF j = k THEN [stamp |-> stamp, archived |-> archived] ELSE r[j]]

(* The order of _prune's sort, archived records first: j goes before k.    *)
(* Keys stand for created_at too, which breaks ties before they do.        *)
Older(r, j, k) == r[j].stamp < r[k].stamp \/ (r[j].stamp = r[k].stamp /\ j < k)

DeletedBefore(r, j, k) ==
    \/ r[j].archived /\ ~r[k].archived
    \/ r[j].archived = r[k].archived /\ Older(r, j, k)

(* Mutant: _prune keeps one record too many. *)
PrunedLate(r) ==
    Without(r, {k \in DOMAIN r : Cardinality({j \in DOMAIN r : DeletedBefore(r, j, k)}) + 1
                                   < Cardinality(DOMAIN r) - Limit})

(* _prune: the first of the sorted records go, as many as are too many. *)
Pruned(r) ==
    Without(r, {k \in DOMAIN r : Cardinality({j \in DOMAIN r : DeletedBefore(r, j, k)})
                                   < Cardinality(DOMAIN r) - Limit})

(* Whether the update writes at all: otherwise it raises KeyError or       *)
(* ValueError, or returns False or 0.                                      *)
Applies(o, r) ==
    CASE o.kind = "upsert" -> TRUE
      [] o.kind \in {"rename", "archive", "delete"} -> o.key \in DOMAIN r
      [] o.kind = "fork" -> o.source \in DOMAIN r /\ o.key \notin DOMAIN r
      [] o.kind = "clear" -> o.keys \cap DOMAIN r # {}

(* archived: upsert keeps the flag of a known record unless told. *)
Flag(o, r) ==
    CASE o.kind = "archive" -> o.archived
      [] o.kind = "rename" -> r[o.key].archived
      [] o.kind = "fork" -> FALSE
      [] o.kind = "upsert" ->
           IF o.archived # None THEN o.archived
           ELSE o.key \in DOMAIN r /\ r[o.key].archived

Updated(o, r) ==
    CASE o.kind = "delete" -> Without(r, {o.key})
      [] o.kind = "clear" -> Without(r, o.keys)
      [] o.kind \in {"upsert", "fork"} -> Pruned(With(r, o.key, o.stamp, Flag(o, r)))
      [] o.kind \in {"rename", "archive"} -> With(r, o.key, o.stamp, Flag(o, r))

-----------------------------------------------------------------------------
Goto(u, place) == pc' = [pc EXCEPT ![u] = place]

(* Mutant: the lock is not waited for. *)
LockAnyway == holder \in Updaters \cup {None}

LockFree == holder = None

(* _file_lock is entered. *)
Lock(u, o) ==
    /\ pc[u] = "idle" /\ LockFree
    /\ file.version < MaxVersion
    /\ holder' = u
    /\ op' = [op EXCEPT ![u] = o]
    /\ Goto(u, "reading")
    /\ UNCHANGED <<file, durable, next, blind, confirmed>>

(* What the update makes of the records r it has read. *)
Proceed(u, r) ==
    \/ /\ Applies(op[u], r)
       /\ next' = [next EXCEPT ![u] = Updated(op[u], r)]
       /\ Goto(u, "writing")
    \/ /\ ~Applies(op[u], r)
       /\ Goto(u, "unlocking")
       /\ UNCHANGED next

(* _read: a file that is torn, that a later release wrote or that an       *)
(* OSError keeps from being read gives no records.                         *)
Read(u) ==
    /\ pc[u] = "reading"
    /\ \/ file.whole /\ Proceed(u, file.records) /\ UNCHANGED blind
       \/ Proceed(u, Empty) /\ blind' = blind \cup {u}
    /\ UNCHANGED <<file, durable, holder, op, confirmed>>

(* The temporary file is made, filled and synced. *)
WriteTemporary(u) ==
    /\ pc[u] = "writing"
    /\ Goto(u, "replacing")
    /\ UNCHANGED <<file, durable, holder, op, next, blind, confirmed>>

(* A call before or in os.replace raises: the temporary file is removed.   *)
WriteFails(u) ==
    /\ pc[u] \in {"writing", "replacing"}
    /\ Goto(u, "unlocking")
    /\ UNCHANGED <<file, durable, holder, op, next, blind, confirmed>>

(* Mutant: the temporary file is not synced before it is renamed. *)
Unsynced(u) ==
    [records |-> next[u], version |-> file.version + 1, synced |-> FALSE, whole |-> TRUE]

(* What os.replace puts in the place of the index. *)
Written(u) ==
    [records |-> next[u], version |-> file.version + 1, synced |-> TRUE, whole |-> TRUE]

(* os.replace; the chmod after it may raise, and the caller then sees an   *)
(* error for an update that was made.                                      *)
Replace(u) ==
    /\ pc[u] = "replacing"
    /\ file' = Written(u)
    /\ Goto(u, "syncing") \/ Goto(u, "unlocking")
    /\ UNCHANGED <<durable, holder, op, next, blind, confirmed>>

(* A file on the disk, whose content may not have got there. *)
OnDisk(f) == [f EXCEPT !.whole = @ /\ f.synced]

(* Mutant: the directory is not synced. *)
NotSynced == UNCHANGED durable

SyncDirectory == durable' = OnDisk(file)

(* _fsync_dir, whose failure is ignored. *)
Sync(u) ==
    /\ pc[u] = "syncing"
    /\ Goto(u, "unlocking")
    /\ \/ SyncDirectory /\ confirmed' = file.version
       \/ UNCHANGED <<durable, confirmed>>
    /\ UNCHANGED <<file, holder, op, next, blind>>

Done(u) ==
    /\ Goto(u, "idle")
    /\ op' = [op EXCEPT ![u] = None]
    /\ next' = [next EXCEPT ![u] = Empty]
    /\ blind' = blind \ {u}

Unlock(u) ==
    /\ pc[u] = "unlocking"
    /\ Done(u)
    /\ holder' = None
    /\ UNCHANGED <<file, durable, confirmed>>

-----------------------------------------------------------------------------
(* The process is killed: the kernel frees the lock; a temporary file that *)
(* was not renamed stays and is never read.                                *)
Killed(u) ==
    /\ pc[u] # "idle"
    /\ Done(u)
    /\ holder' = IF holder = u THEN None ELSE holder
    /\ UNCHANGED <<file, durable, confirmed>>

(* The kernel writes the directory back on its own account. *)
Writeback ==
    /\ durable # OnDisk(file)
    /\ durable' = OnDisk(file)
    /\ UNCHANGED <<file, holder, pc, op, next, blind, confirmed>>

(* The machine goes down and comes up again. *)
PowerFails ==
    /\ file' = durable
    /\ holder' = None
    /\ pc' = [u \in Updaters |-> "idle"]
    /\ op' = [u \in Updaters |-> None]
    /\ next' = [u \in Updaters |-> Empty]
    /\ blind' = {}
    /\ UNCHANGED <<durable, confirmed>>

Next ==
    \/ \E u \in Updaters, o \in Updates : Lock(u, o)
    \/ \E u \in Updaters :
         \/ Read(u) \/ WriteTemporary(u) \/ WriteFails(u) \/ Replace(u)
         \/ Sync(u) \/ Unlock(u) \/ Killed(u)
    \/ Writeback
    \/ PowerFails

Spec == Init /\ [][Next]_vars

-----------------------------------------------------------------------------
(* Properties *)

(* Lock, temporary file and rename make each update one step: no update is *)
(* lost to another one's older reading, none is seen half, pruning takes   *)
(* what is worth least, and a power failure leaves an earlier state.       *)
Abstract == INSTANCE AtomicIndex WITH
    index <- file.records,
    durable <- durable.records,
    blind <- blind # {}

ImplementsAtomicIndex == Abstract!Spec

(* The index is never found torn, and an update whose directory sync       *)
(* succeeded survives every power failure: what the index falls back to is *)
(* whole and no older.                                                     *)
ConfirmedUpdatesSurvive ==
    file.whole /\ durable.whole /\ durable.version >= confirmed

-----------------------------------------------------------------------------
(* A claim of the source that the code does not keep. *)

(* The index is durable: an update that leaves it within its bound loses   *)
(* no record but those it was asked to remove.                             *)
UpdatesKeepOtherRecords ==
    [][\A u \in Updaters :
         /\ pc[u] = "replacing" /\ pc'[u] \in {"syncing", "unlocking"} /\ file' # file
         /\ op[u].kind \in {"upsert", "rename", "archive", "fork"}
         /\ Cardinality(DOMAIN file.records \cup {op[u].key}) <= Limit
         => DOMAIN file.records \subseteq DOMAIN file'.records]_vars
=============================================================================
