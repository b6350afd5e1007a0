-------------------------- MODULE TransparencyLog --------------------------
(***************************************************************************)
(* The public routes of the transparency log (crates/services/             *)
(* transparency-log/src/routes: append, sth, verify, consistency) over     *)
(* either store (crates/adapters/transparency_store: memory, postgres).    *)
(*                                                                         *)
(* A handler awaits the store once per read, so it is a sequence of steps  *)
(* and task[c] is where it stands.  A view is the set of rows a read sees. *)
(* Hashes do not collide and rows are never removed, so a Merkle root is   *)
(* the view it was computed from, and an inclusion proof verifies against  *)
(* a root when both come from the same view.  A tree lists the rows of a   *)
(* view in the order of their index.                                       *)
(*                                                                         *)
(* Requests that fail before the store is asked (a foreign key             *)
(* fingerprint, undecodable fields, sizes out of order) change nothing.    *)
(***************************************************************************)
EXTENDS Naturals, FiniteSets, Sequences

CONSTANTS
    Task,      \* handlers that may run at the same time
    Key,       \* idempotency keys
    Payload,   \* token bytes
    Backends,  \* the stores the settings may select
    MaxLeaves, \* bound on the leaves of the memory store
    MaxSeq     \* bound on the index sequence of Postgres

ASSUME LogAssumption ==
    /\ Backends \subseteq {"memory", "postgres"}
    /\ MaxLeaves \in Nat
    /\ MaxSeq \in Nat

VARIABLES
    backend,   \* the store in use
    rows,      \* committed rows
    next,      \* leaves.len(), or the next value of the BIGSERIAL
    tree,      \* AppState::consistency_tree: the rows pushed so far
    task,      \* the handlers in flight
    heads,     \* history: signed tree heads handed out
    acked,     \* history: rows acknowledged to a client
    fresh      \* history: number of 201 answers per key, up to 2

storeVars == <<backend, rows, next>>
historyVars == <<heads, acked, fresh>>
vars == <<backend, rows, next, tree, task, heads, acked, fresh>>

Row == [index : Nat, key : Key, payload : Payload]

Idle == [at |-> "idle"]

Local ==
    {Idle}
    \cup [at : {"insert"}, row : Row, snapshot : SUBSET Key]
    \cup [at : {"commit"}, row : Row, created : BOOLEAN]
    \cup [at : {"appended"}, row : Row, created : BOOLEAN]
    \cup [at : {"sth"}, size : Nat]
    \cup [at : {"leaf"}, id : Nat, entry : Row]
    \cup [at : {"proof", "verified"}, id : Nat, entry : Row, view : SUBSET Row]
    \cup [at : {"sized", "extend", "proven"}, first : Nat, second : Nat, idx : Nat]

TypeOK ==
    /\ backend \in Backends
    /\ rows \subseteq Row
    /\ next \in Nat
    /\ tree \in Seq(Row)
    /\ task \in [Task -> Local]
    /\ heads \subseteq [size : Nat, view : SUBSET Row]
    /\ acked \subseteq Row
    /\ fresh \in [Key -> 0..2]

\* A Vec is indexed from 0, a BIGSERIAL from 1.
FirstIndex == IF backend = "memory" THEN 0 ELSE 1

Init ==
    /\ backend \in Backends
    /\ rows = {}
    /\ next = FirstIndex
    /\ tree = <<>>
    /\ task = [c \in Task |-> Idle]
    /\ heads = {}
    /\ acked = {}
    /\ fresh = [k \in Key |-> 0]

-----------------------------------------------------------------------------
(***************************************************************************)
(* Trees.                                                                  *)
(***************************************************************************)

Position(view, r) == Cardinality({q \in view : q.index < r.index})

\* leaves[n] of the tree over a view, as a set of at most one row.
LeafAt(view, n) == {r \in view : Position(view, r) = n}

\* The first n leaves of the cached tree are the leaves of a view of n rows.
SameLeaves(n, view) == \A i \in 1..n : LeafAt(view, i - 1) = {tree[i]}

\* What the store answers about the ledger as it is now.
CurrentSize == Cardinality(rows)
CurrentRoot == rows

KeysOf(view) == {r.key : r \in view}

Goto(c, state) == task' = [task EXCEPT ![c] = state]

-----------------------------------------------------------------------------
(***************************************************************************)
(* POST /v1/append.                                                        *)
(***************************************************************************)

\* Mutant: the index of the last leaf instead of the new one.
MemoryAppendBehind(c, k, p) ==
    LET row == [index |-> next - 1, key |-> k, payload |-> p]
    IN  /\ backend = "memory"
        /\ task[c] = Idle
        /\ next < MaxLeaves
        /\ k \notin KeysOf(rows)
        /\ rows' = rows \cup {row}
        /\ next' = next + 1
        /\ Goto(c, [at |-> "appended", row |-> row, created |-> TRUE])
        /\ UNCHANGED <<backend, tree, historyVars>>

\* The handler under the memory store's mutex: a new key.
MemoryAppend(c, k, p) ==
    LET row == [index |-> next, key |-> k, payload |-> p]
    IN  /\ backend = "memory"
        /\ task[c] = Idle
        /\ next < MaxLeaves
        /\ k \notin KeysOf(rows)
        /\ rows' = rows \cup {row}
        /\ next' = next + 1
        /\ Goto(c, [at |-> "appended", row |-> row, created |-> TRUE])
        /\ UNCHANGED <<backend, tree, historyVars>>

\* A known key with the same payload; with another one the answer is 409.
MemoryReplay(c, k, p) ==
    /\ backend = "memory"
    /\ task[c] = Idle
    /\ \E r \in rows :
          /\ r.key = k
          /\ r.payload = p
          /\ Goto(c, [at |-> "appended", row |-> r, created |-> FALSE])
    /\ UNCHANGED <<storeVars, tree, historyVars>>

\* The INSERT starts: it has its snapshot and has drawn an index, which no
\* rollback gives back.
PgInsert(c, k, p) ==
    /\ backend = "postgres"
    /\ task[c] = Idle
    /\ next < MaxSeq
    /\ next' = next + 1
    /\ Goto(c, [at |-> "insert", snapshot |-> KeysOf(rows),
                row |-> [index |-> next, key |-> k, payload |-> p]])
    /\ UNCHANGED <<backend, rows, tree, historyVars>>

\* Another transaction holds the key until it ends.
KeyFree(c, k) ==
    \A d \in Task \ {c} : task[d].at = "commit" => task[d].row.key # k

\* Mutant: answers before the commit.
PgInsertedAnswered(c) ==
    /\ task[c].at = "insert"
    /\ KeyFree(c, task[c].row.key)
    /\ task[c].row.key \notin KeysOf(rows)
    /\ Goto(c, [at |-> "appended", row |-> task[c].row, created |-> TRUE])
    /\ UNCHANGED <<storeVars, tree, historyVars>>

PgInserted(c) ==
    /\ task[c].at = "insert"
    /\ KeyFree(c, task[c].row.key)
    /\ task[c].row.key \notin KeysOf(rows)
    /\ Goto(c, [at |-> "commit", row |-> task[c].row, created |-> TRUE])
    /\ UNCHANGED <<storeVars, tree, historyVars>>

\* ON CONFLICT DO UPDATE returns the row that was there; its payload is
\* compared after the commit, and another one is answered with 409.
PgConflict(c) ==
    /\ task[c].at = "insert"
    /\ KeyFree(c, task[c].row.key)
    /\ \E r \in rows :
          /\ r.key = task[c].row.key
          /\ r.key \in task[c].snapshot
          /\ Goto(c, IF r.payload = task[c].row.payload
                     THEN [at |-> "commit", row |-> r, created |-> FALSE]
                     ELSE Idle)
    /\ UNCHANGED <<storeVars, tree, historyVars>>

\* The transaction fails: the key was committed after the snapshot, the
\* connection broke, or SERIALIZABLE gave up.
PgAbort(c) ==
    /\ task[c].at \in {"insert", "commit"}
    /\ Goto(c, Idle)
    /\ UNCHANGED <<storeVars, tree, historyVars>>

PgCommit(c) ==
    /\ task[c].at = "commit"
    /\ rows' = rows \cup {task[c].row}
    /\ Goto(c, [task[c] EXCEPT !.at = "appended"])
    /\ UNCHANGED <<backend, next, tree, historyVars>>

\* 201 for a fresh leaf, 200 for a replay.
AppendReply(c) ==
    /\ task[c].at = "appended"
    /\ Goto(c, Idle)
    /\ acked' = acked \cup {task[c].row}
    /\ fresh' = [fresh EXCEPT ![task[c].row.key] =
                    IF task[c].created /\ @ < 2 THEN @ + 1 ELSE @]
    /\ UNCHANGED <<storeVars, tree, heads>>

-----------------------------------------------------------------------------
(***************************************************************************)
(* GET /v1/sth.                                                            *)
(***************************************************************************)

SthSize(c) ==
    /\ task[c] = Idle
    /\ Goto(c, [at |-> "sth", size |-> CurrentSize])
    /\ UNCHANGED <<storeVars, tree, historyVars>>

\* Mutant: takes the root of the cached tree.
SthRootCached(c) ==
    /\ task[c].at = "sth"
    /\ heads' = heads \cup {[size |-> task[c].size, view |-> {tree[i] : i \in 1..Len(tree)}]}
    /\ Goto(c, Idle)
    /\ UNCHANGED <<storeVars, tree, acked, fresh>>

SthRoot(c) ==
    /\ task[c].at = "sth"
    /\ heads' = heads \cup {[size |-> task[c].size, view |-> CurrentRoot]}
    /\ Goto(c, Idle)
    /\ UNCHANGED <<storeVars, tree, acked, fresh>>

-----------------------------------------------------------------------------
(***************************************************************************)
(* GET /v1/verify/{entry_id}.                                              *)
(***************************************************************************)

\* Mutant: looks the entry up as if ids were counted from 1.
VerifyLeafOffByOne(c, id) ==
    /\ task[c] = Idle
    /\ \E r \in rows :
          /\ r.index + 1 = id
          /\ Goto(c, [at |-> "leaf", id |-> id, entry |-> r])
    /\ UNCHANGED <<storeVars, tree, historyVars>>

\* get_leaf looks the index up; an unknown one is answered with 404.
VerifyLeaf(c, id) ==
    /\ task[c] = Idle
    /\ \E r \in rows :
          /\ r.index = id
          /\ Goto(c, [at |-> "leaf", id |-> id, entry |-> r])
    /\ UNCHANGED <<storeVars, tree, historyVars>>

\* build_inclusion_proof counts positions; past the end it is an error.
VerifyProof(c) ==
    /\ task[c].at = "leaf"
    /\ Goto(c, IF task[c].id < CurrentSize
               THEN [at |-> "proof", id |-> task[c].id, entry |-> task[c].entry, view |-> rows]
               ELSE Idle)
    /\ UNCHANGED <<storeVars, tree, historyVars>>

\* The proof is checked against a root that is read again: 500 if it moved.
VerifyRoot(c) ==
    /\ task[c].at = "proof"
    /\ Goto(c, IF task[c].view = CurrentRoot THEN [task[c] EXCEPT !.at = "verified"] ELSE Idle)
    /\ UNCHANGED <<storeVars, tree, historyVars>>

-----------------------------------------------------------------------------
(***************************************************************************)
(* GET /v1/consistency.                                                    *)
(***************************************************************************)

ConsistencySize(c, first, second) ==
    /\ task[c] = Idle
    /\ 0 < first /\ first <= second
    /\ second <= CurrentSize
    /\ Goto(c, [at |-> "sized", first |-> first, second |-> second, idx |-> 0])
    /\ UNCHANGED <<storeVars, tree, historyVars>>

\* Mutant: the tree is extended without its lock.
ConsistencyLockFree(c) ==
    /\ task[c].at = "sized"
    /\ Goto(c, [task[c] EXCEPT !.at = "extend", !.idx = Len(tree)])
    /\ UNCHANGED <<storeVars, tree, historyVars>>

\* The loop over tree.len()..second starts, under the tree's lock.
ConsistencyLock(c) ==
    /\ task[c].at = "sized"
    /\ \A d \in Task : task[d].at # "extend"
    /\ Goto(c, [task[c] EXCEPT !.at = "extend", !.idx = Len(tree)])
    /\ UNCHANGED <<storeVars, tree, historyVars>>

Extending(c) == task[c].at = "extend" /\ task[c].idx < task[c].second

\* One get_leaf, pushed onto the tree.
ConsistencyExtend(c) ==
    /\ Extending(c)
    /\ \E r \in rows :
          /\ r.index = task[c].idx
          /\ tree' = Append(tree, r)
    /\ Goto(c, [task[c] EXCEPT !.idx = @ + 1])
    /\ UNCHANGED <<storeVars, historyVars>>

\* "gap at leaf_index": 500.
ConsistencyGap(c) ==
    /\ Extending(c)
    /\ \A r \in rows : r.index # task[c].idx
    /\ Goto(c, Idle)
    /\ UNCHANGED <<storeVars, tree, historyVars>>

\* consistency_proof answers from the first second leaves of the tree.
ConsistencyProof(c) ==
    /\ task[c].at = "extend"
    /\ task[c].idx >= task[c].second
    /\ Goto(c, [task[c] EXCEPT !.at = "proven"])
    /\ UNCHANGED <<storeVars, tree, historyVars>>

-----------------------------------------------------------------------------
(***************************************************************************)
(* The answer leaves, or is lost; the process restarts.  With the memory   *)
(* store a restart is a new log, that is, another behaviour.               *)
(***************************************************************************)

Finish(c) ==
    /\ task[c].at \in {"appended", "verified", "proven"}
    /\ Goto(c, Idle)
    /\ UNCHANGED <<storeVars, tree, historyVars>>

Restart ==
    /\ backend = "postgres"
    /\ tree' = <<>>
    /\ task' = [c \in Task |-> Idle]
    /\ UNCHANGED <<storeVars, historyVars>>

AppendStep(c) ==
    \/ \E k \in Key, p \in Payload :
          \/ MemoryAppend(c, k, p)
          \/ MemoryReplay(c, k, p)
          \/ PgInsert(c, k, p)
    \/ PgInserted(c)
    \/ PgConflict(c)
    \/ PgAbort(c)
    \/ PgCommit(c)
    \/ AppendReply(c)

ReadStep(c) ==
    \/ SthSize(c)
    \/ SthRoot(c)
    \/ \E id \in 0..MaxSeq : VerifyLeaf(c, id)
    \/ VerifyProof(c)
    \/ VerifyRoot(c)
    \/ \E first, second \in 1..MaxSeq : ConsistencySize(c, first, second)
    \/ ConsistencyLock(c)
    \/ ConsistencyExtend(c)
    \/ ConsistencyGap(c)
    \/ ConsistencyProof(c)
    \/ Finish(c)

Next == Restart \/ \E c \in Task : AppendStep(c) \/ ReadStep(c)

Spec == Init /\ [][Next]_vars

-----------------------------------------------------------------------------
(***************************************************************************)
(* Properties.                                                             *)
(***************************************************************************)

\* "append is idempotent on idempotency_key" (TransparencyStore): however
\* many clients race with one key, one row carries it, one answer says 201,
\* and every acknowledged row stays in the ledger.
AppendIsIdempotent ==
    /\ \A q, r \in rows : q.key = r.key => q = r
    /\ acked \subseteq rows
    /\ \A k \in Key : fresh[k] < 2

\* Every /v1/verify answer proves the entry it returns: the proof is about
\* the leaf at a position, the entry was looked up by its index.  On Postgres
\* this fails.
EntryMatchesProof ==
    \A c \in Task : task[c].at = "verified" =>
        LeafAt(task[c].view, task[c].id) = {task[c].entry}

\* With the memory store every /v1/verify answer proves the entry it returns,
\* however the ledger grows between the four reads (verify.rs; memory.rs).
MemoryEntryMatchesProof == backend = "memory" => EntryMatchesProof

\* With the memory store an auditor who holds two heads whose size and root
\* agree accepts the consistency proof between them, although the proof is built
\* from a cache that is filled by other requests (consistency.rs).
ConsistencyAccepted ==
    backend = "memory" =>
        \A c \in Task : \A h \in heads :
            /\ task[c].at = "proven"
            /\ h.size = Cardinality(h.view)
            /\ h.size \in {task[c].first, task[c].second}
            => SameLeaves(h.size, h.view)

\* The entries of a view, oldest first.
Ordered(view) ==
    [i \in 1..Cardinality(view) |->
        LET r == CHOOSE q \in LeafAt(view, i - 1) : TRUE
        IN  [key |-> r.key, payload |-> r.payload]]

\* The part of a view that the refinement speaks of: all of it with the memory
\* store, nothing on Postgres, where a commit may come before one of a lower index.
Promised(view) == IF backend = "memory" THEN Ordered(view) ELSE <<>>

Abstract == INSTANCE AppendOnlyLog
    WITH log <- Promised(rows), published <- {Promised(h.view) : h \in heads}

\* The memory store implements the append-only log: each append adds one
\* entry at the end, and each root published is the root of the whole log.
ImplementsLog == Abstract!LogSpec
=============================================================================
