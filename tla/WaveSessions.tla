---------------------------- MODULE WaveSessions ----------------------------
(***************************************************************************)
(* The wave-session, MCP-audit and drift routes of the transparency log    *)
(* (crates/services/transparency-log/src: routes/wave_session.rs,          *)
(* routes/audit_mcp.rs, routes/drift.rs, state.rs, wave_session_detail.rs, *)
(* per_skill_keys.rs, auth.rs) and the rebuild of their in-process state   *)
(* at boot.                                                                *)
(*                                                                         *)
(* A leaf commits to a record and to the HMAC sent with it.  Everything    *)
(* /v1/wave/{id}/verify needs besides the leaves is derived: the index of  *)
(* a wave's leaves, a bounded LRU of side values, the map from leaf to     *)
(* hash and the sqlite side table, whose errors are dropped: a write that  *)
(* fails leaves no row, and a read that fails finds none.  A handler       *)
(* awaits a lock or a blocking worker between updating each of them, may   *)
(* be dropped at every await (the client went away), and the process may   *)
(* stop at any time.                                                       *)
(*                                                                         *)
(* A signature is abstracted to whether it verifies over the record.  A    *)
(* record carries the gate surfaces "none", "known" or "recent"; a binary  *)
(* from before a surface was added cannot deserialize a record with it.    *)
(***************************************************************************)
EXTENDS LogSettings, WaveStages, Sequences, SequencesExt, FiniteSets

CONSTANTS
    Env,         \* the environment the log was started in
    Client,      \* handlers that may run at the same time
    Session,     \* session ids a skill chooses
    Note,        \* what else is in a record (evidence, outcome, issue)
    Posted,      \* the bodies the skills of this instance post
    ApiKey,      \* the shared x-api-key
    SkillKeys,   \* per-stage keys: a function on some stages, empty if unset
    Capacity,    \* entries of the LRU
    MaxLeaves,   \* bound on the ledger
    MaxStops     \* bound on the number of stops

\* One wave; other waves share only the ledger, the LRU and the table, and
\* the audit leaves stand for their use of the ledger.
Record == [stage : Stages, session : Session, surfaces : Surfaces, note : Note]

\* AppendWaveSessionRequest: mac and sig say whether they verify, pinned that
\* the kernel fingerprint is the expected one.
Body == [rec : Record, type : {"hmac", "ed25519"}, mac : BOOLEAN, sig : BOOLEAN,
         pinned : BOOLEAN]

ASSUME WaveAssumption ==
    /\ Env \in LogEnv /\ LogBoots(Env)
    /\ ApiKey # "" <=> Present(Env.apiKey)
    /\ Capacity \in Nat \ {0}
    /\ Posted \subseteq Body
    /\ MaxLeaves \in Nat
    /\ MaxStops \in Nat

Leaf == [kind : {"wave"}, rec : Record, mac : BOOLEAN]
        \cup [kind : {"audit"}, key : {"mcp", "drift"}]

Side == [rec : Record, mac : BOOLEAN, type : {"hmac", "ed25519"}, sig : BOOLEAN]
NoSide == [type |-> "absent"]

VARIABLES
    ledger,      \* the durable leaves
    index,       \* wave_session_index
    unreadable,  \* unreadable_wave_index
    lru,         \* wave_session_payloads, most recently used first
    hashes,      \* wave_session_leaf_hashes: leaves with a known hash
    table,       \* wave_session_detail
    durable,     \* the side table has a path
    binary,      \* "new" knows every surface, "old" does not know "recent"
    mode,        \* "down" after a stop, "booting" until the port is bound, "serving"
    todo,        \* the wave leaves that a boot has yet to go through
    stops,       \* number of stops so far
    req,         \* the handler of each client
    acked,       \* history: leaves acknowledged to a client
    fresh,       \* history: how often each leaf was answered 201, up to 2
    blind,       \* history: the index could not be rebuilt at the last boot
    misread,     \* history: leaves whose row the last boot failed to read
    unwritten    \* history: leaves whose row could not be written since

memory == <<index, unreadable, lru, hashes>>
proc == <<mode, todo, stops>>
answers == <<acked, fresh>>
sqlite == <<misread, unwritten>>
history == <<answers, blind, sqlite>>
vars == <<ledger, memory, table, durable, binary, proc, req, history>>

Leaves == 1..Len(ledger)
WaveLeaves == {i \in Leaves : ledger[i].kind = "wave"}

\* serde on the running binary.
Readable(rec, bin) == bin = "new" \/ rec.surfaces # "recent"

Idle == [at |-> "idle"]
Goto(c, state) == req' = [req EXCEPT ![c] = state]

Init ==
    /\ ledger = <<>>
    /\ index = {} /\ unreadable = {} /\ lru = <<>> /\ hashes = {}
    /\ table = [i \in 1..MaxLeaves |-> NoSide]
    /\ durable \in BOOLEAN
    /\ binary = "new"
    /\ mode = "serving" /\ todo = {} /\ stops = 0
    /\ req = [c \in Client |-> Idle]
    /\ acked = {} /\ blind = FALSE /\ misread = {} /\ unwritten = {}
    /\ fresh = [i \in 1..MaxLeaves |-> 0]

-----------------------------------------------------------------------------
(***************************************************************************)
(* The LRU: a sequence of [leaf, side] without repetition.                 *)
(***************************************************************************)

Cached(i) == \E n \in DOMAIN lru : lru[n].leaf = i
CachedSide(i) == lru[CHOOSE n \in DOMAIN lru : lru[n].leaf = i].side
Others(cache, i) ==
    IF \E n \in DOMAIN cache : cache[n].leaf = i
    THEN RemoveAt(cache, CHOOSE n \in DOMAIN cache : cache[n].leaf = i)
    ELSE cache

\* Mutant: nothing is evicted.
TouchUnbounded(cache, i, side) == <<[leaf |-> i, side |-> side]>> \o Others(cache, i)

Touch(cache, i, side) ==
    LET moved == <<[leaf |-> i, side |-> side]>> \o Others(cache, i)
    IN  SubSeq(moved, 1, IF Len(moved) < Capacity THEN Len(moved) ELSE Capacity)

\* into_side: a row the binary cannot decode is as good as none.
Row(t, i, bin) ==
    IF t[i] # NoSide /\ Readable(t[i].rec, bin) THEN t[i] ELSE NoSide

\* The side-table read of lookup_wave_session_payload: without the leaf's hash
\* there is no key, and an error reads as no row.
ReadRow(known, i, ok) == IF i \in known /\ ok THEN Row(table, i, binary) ELSE NoSide

\* lookup_wave_session_payload, when sqlite answers.
Lookup(i) == IF Cached(i) THEN CachedSide(i) ELSE ReadRow(hashes, i, TRUE)

-----------------------------------------------------------------------------
(***************************************************************************)
(* POST /v1/wave/session.                                                  *)
(***************************************************************************)

\* The labels a skill may write for a stage, by stage.
WriterOf(s) == CASE s = "Planned" -> {"plan", "planner"}
                 [] s = "Decomposed" -> {"team", "planner", "plan", "architect"}
                 [] s = "Tested" -> {"test"}
                 [] s = "PurpleTeamed" -> {"purple-team", "purple_team"}
                 [] s = "Accepted" -> {"user-acceptance", "user_acceptance", "uat"}
                 [] s = "Closed" -> {"closeout"}

WrittenByMatchesStage(writer, s) == writer \in WriterOf(s)

\* auth_layer, then the identity check of the HMAC path.
AuthLayer(key) == ApiKey # "" /\ key = ApiKey
KeyMatches(s, key) == s \in DOMAIN SkillKeys /\ SkillKeys[s] = key
MayWrite(s, type, key) ==
    /\ AuthLayer(key)
    /\ SkillKeys # <<>> /\ type = "hmac" => KeyMatches(s, key)

\* Each needs its key in the environment.
VerifyKernelHmac(type, mac) == Present(Env.hmac) /\ type = "hmac" /\ mac
VerifyEd25519(type, sig) == Present(Env.ed25519) /\ type = "ed25519" /\ sig
SignatureVerifies(type, mac, sig) == VerifyKernelHmac(type, mac) \/ VerifyEd25519(type, sig)

\* Mutant: an earlier leaf is looked for in the wave's index.
WithKeyIndexed(rec) == {i \in index : KeyOf(ledger[i].rec) = KeyOf(rec)}

WithKey(rec) == {i \in WaveLeaves : KeyOf(ledger[i].rec) = KeyOf(rec)}

\* Mutant: the store takes the key for the payload.
SameKey(i, leaf) == i \in WaveLeaves

SamePayload(i, leaf) == ledger[i] = leaf

\* Steps 1 to 6: the checks, then the store's atomic append of a new leaf, or a
\* replay of the same bytes; a refusal or a conflict changes nothing.
AppendSession(c, body, writer, key) ==
    LET rec == body.rec
        leaf == [kind |-> "wave", rec |-> rec, mac |-> body.mac]
        side == [rec |-> rec, mac |-> body.mac, type |-> body.type,
                 sig |-> body.type = "ed25519" /\ body.sig]
    IN  /\ mode = "serving"
        /\ req[c] = Idle
        /\ Readable(rec, binary)
        /\ body.pinned
        /\ WrittenByMatchesStage(writer, rec.stage)
        /\ MayWrite(rec.stage, body.type, key)
        /\ SignatureVerifies(body.type, body.mac, body.sig)
        /\ \/ /\ WithKey(rec) = {}
              /\ Len(ledger) < MaxLeaves
              /\ ledger' = Append(ledger, leaf)
              /\ Goto(c, [at |-> "index", leaf |-> Len(ledger) + 1,
                          side |-> side, created |-> TRUE])
           \/ \E i \in WithKey(rec) :
              /\ SamePayload(i, leaf)
              /\ Goto(c, [at |-> "index", leaf |-> i, side |-> side, created |-> FALSE])
              /\ UNCHANGED ledger
        /\ UNCHANGED <<memory, table, durable, binary, proc, history>>

\* record_wave_session_leaf.
RecordLeaf(c) ==
    /\ req[c].at = "index"
    /\ index' = index \cup {req[c].leaf}
    /\ Goto(c, [req[c] EXCEPT !.at = "cache"])
    /\ UNCHANGED <<ledger, unreadable, lru, hashes, table, durable, binary, proc, history>>

\* record_wave_session_payload, the LRU: a hit is only touched.
RecordPayload(c) ==
    LET i == req[c].leaf
        side == IF Cached(i) THEN CachedSide(i) ELSE req[c].side
    IN  /\ req[c].at = "cache"
        /\ lru' = Touch(lru, i, side)
        /\ Goto(c, [req[c] EXCEPT !.at = "table"])
        /\ UNCHANGED <<ledger, index, unreadable, hashes, table, durable, binary, proc, history>>

\* INSERT ... ON CONFLICT DO NOTHING, whose error is dropped.
InsertRow(i, side, ok) ==
    /\ table' = IF ok /\ table[i] = NoSide THEN [table EXCEPT ![i] = side] ELSE table
    /\ unwritten' = IF ok \/ table[i] # NoSide THEN unwritten ELSE unwritten \cup {i}

\* record_wave_session_payload, the leaf-hash map and the side table; then the
\* reply, 201 for a leaf this request created and 200 for a replay, to a client
\* that may be gone.
RecordRow(c, ok) ==
    LET i == req[c].leaf
    IN  /\ req[c].at = "table"
        /\ hashes' = hashes \cup {i}
        /\ InsertRow(i, req[c].side, ok)
        /\ \/ /\ acked' = acked \cup {i}
              /\ fresh' = IF req[c].created /\ fresh[i] < 2
                          THEN [fresh EXCEPT ![i] = @ + 1] ELSE fresh
           \/ UNCHANGED answers
        /\ Goto(c, Idle)
        /\ UNCHANGED <<ledger, index, unreadable, lru, durable, binary, proc, blind, misread>>

\* The connection is closed and the handler's future is dropped.
Drop(c) ==
    /\ req[c] # Idle
    /\ Goto(c, Idle)
    /\ UNCHANGED <<ledger, memory, table, durable, binary, proc, history>>

-----------------------------------------------------------------------------
(***************************************************************************)
(* POST /v1/audit/mcp and POST /v1/audit/drift: each under its own pinned  *)
(* key, so a request signed with the other one's key gets nowhere.  The    *)
(* framed leaf has a 64-byte trailer and is no wave leaf.                  *)
(***************************************************************************)

AppendAudit(key) ==
    /\ mode = "serving"
    /\ Len(ledger) < MaxLeaves
    /\ \A i \in Leaves : ledger[i] # [kind |-> "audit", key |-> key]
    /\ ledger' = Append(ledger, [kind |-> "audit", key |-> key])
    /\ UNCHANGED <<memory, table, durable, binary, proc, req, history>>

AppendMcpAudit(signer) == Present(Env.mcp) /\ signer = "mcp" /\ AppendAudit("mcp")
AppendReconcilerDrift(signer) ==
    Present(Env.drift) /\ signer = "drift" /\ AppendAudit("drift")

-----------------------------------------------------------------------------
(***************************************************************************)
(* GET /v1/wave/{wave_id}/verify.                                          *)
(***************************************************************************)

\* What is answered for a wave without leaves, with no further read.
EmptyStatus == IF unreadable # {} THEN "unreadable" ELSE "not_found"

VerifyBegin(c) ==
    /\ mode = "serving"
    /\ req[c] = Idle
    /\ index # {}
    /\ Goto(c, [at |-> "verify", todo |-> index, chain |-> {}])
    /\ UNCHANGED <<ledger, memory, table, durable, binary, proc, history>>

\* The leaf the loop is at.
Current(c) == Min(req[c].todo)

Looking(c) == req[c].at = "verify" /\ req[c].todo # {}

\* The loop goes on with the side value of leaf i, which moves to the front of
\* the LRU.
Found(c, i, side) ==
    /\ lru' = Touch(lru, i, side)
    /\ Goto(c, [at |-> "verify", todo |-> req[c].todo \ {i},
                chain |-> req[c].chain \cup {[leaf |-> i, side |-> side]}])

\* A hit.
VerifyHit(c) ==
    /\ Looking(c)
    /\ Cached(Current(c))
    /\ Found(c, Current(c), CachedSide(Current(c)))
    /\ UNCHANGED <<ledger, index, unreadable, hashes, table, durable, binary, proc, history>>

\* A miss: the table is read on a blocking worker; a leaf without a row ends the
\* request with 500.
VerifyRead(c, ok) ==
    LET side == ReadRow(hashes, Current(c), ok)
    IN  /\ Looking(c)
        /\ ~Cached(Current(c))
        /\ Goto(c, IF side = NoSide THEN Idle
                   ELSE [at |-> "fill", leaf |-> Current(c), side |-> side,
                         todo |-> req[c].todo, chain |-> req[c].chain])
        /\ UNCHANGED <<ledger, memory, table, durable, binary, proc, history>>

\* The row goes into the LRU, over whatever another handler has put there.
VerifyFill(c) ==
    /\ req[c].at = "fill"
    /\ Found(c, req[c].leaf, req[c].side)
    /\ UNCHANGED <<ledger, index, unreadable, hashes, table, durable, binary, proc, history>>

\* The response of a request that has looked up all its leaves.  The entries are
\* sent in the order of the pipeline and of the ledger, which they determine.
Response(c) ==
    [chain |-> req[c].chain,
     complete |-> AllRequiredStagesPresent({e.side.rec : e \in req[c].chain})]

Answering(c) == req[c].at = "verify" /\ req[c].todo = {}

VerifyReply(c) ==
    /\ Answering(c)
    /\ Goto(c, Idle)
    /\ UNCHANGED <<ledger, memory, table, durable, binary, proc, history>>

-----------------------------------------------------------------------------
(***************************************************************************)
(* Stop and boot.                                                          *)
(***************************************************************************)

\* The process ends, while it serves or while it boots: memory is gone, and a
\* side table without a path too.
Stop ==
    /\ mode # "down"
    /\ stops < MaxStops
    /\ stops' = stops + 1
    /\ mode' = "down" /\ todo' = {}
    /\ index' = {} /\ unreadable' = {} /\ lru' = <<>> /\ hashes' = {}
    /\ table' = IF durable THEN table ELSE [i \in 1..MaxLeaves |-> NoSide]
    /\ req' = [c \in Client |-> Idle]
    /\ UNCHANGED <<ledger, durable, binary, history>>

\* A new process over the same ledger, with either binary.  The leaves are read
\* at once; they are gone through before the port is bound.
Boot(bin) ==
    /\ mode = "down"
    /\ mode' = "booting"
    /\ todo' = WaveLeaves
    /\ binary' = bin
    /\ blind' = FALSE /\ misread' = {} /\ unwritten' = {}
    /\ UNCHANGED <<ledger, memory, table, durable, stops, req, answers>>

\* load_all_payloads fails: the error is logged and the service starts.
BootBlind(bin) ==
    /\ mode = "down"
    /\ mode' = "serving"
    /\ binary' = bin
    /\ blind' = TRUE /\ misread' = {} /\ unwritten' = {}
    /\ UNCHANGED <<ledger, memory, table, durable, todo, stops, req, answers>>

\* The HMAC-only side value rebuilt from a leaf's own bytes.
FromLedger(i) ==
    [rec |-> ledger[i].rec, mac |-> ledger[i].mac, type |-> "hmac", sig |-> FALSE]

NextToDo == Min(todo)

\* The boot's own lookup of leaf i, under the given hashes: nothing is cached
\* yet.  Without a side value it records the HMAC-only one.
Restore(i, known, read, write) ==
    LET found == ReadRow(known, i, read)
    IN  /\ lru' = Touch(lru, i, IF found = NoSide THEN FromLedger(i) ELSE found)
        /\ misread' = IF read \/ table[i] = NoSide THEN misread ELSE misread \cup {i}
        /\ IF found = NoSide THEN InsertRow(i, FromLedger(i), write)
                             ELSE UNCHANGED <<table, unwritten>>

\* Mutant: the leaf's hash is registered too late for its row to be found.
RebuildUnregistered(i, read, write) ==
    /\ index' = index \cup {i}
    /\ hashes' = hashes \cup {i}
    /\ Restore(i, hashes, read, write)
    /\ UNCHANGED unreadable

\* A leaf the binary can read.
RebuildReadable(i, read, write) ==
    /\ index' = index \cup {i}
    /\ hashes' = hashes \cup {i}
    /\ Restore(i, hashes \cup {i}, read, write)
    /\ UNCHANGED unreadable

\* Mutant: a leaf that does not parse is skipped as if it were no wave leaf.
SkipUnreadable(i) == UNCHANGED <<memory, table, sqlite>>

\* A leaf that names the wave and does not parse any further.
RebuildUnreadable(i) ==
    /\ unreadable' = unreadable \cup {i}
    /\ UNCHANGED <<index, lru, hashes, table, sqlite>>

\* reconstruct_wave_sessions_from_ledger, one leaf.
Rebuild(read, write) ==
    /\ mode = "booting"
    /\ todo # {}
    /\ IF Readable(ledger[NextToDo].rec, binary) THEN RebuildReadable(NextToDo, read, write)
                                                 ELSE RebuildUnreadable(NextToDo)
    /\ todo' = todo \ {NextToDo}
    /\ UNCHANGED <<ledger, durable, binary, mode, stops, req, answers, blind>>

\* The port is bound.
Serve ==
    /\ mode = "booting"
    /\ todo = {}
    /\ mode' = "serving"
    /\ UNCHANGED <<ledger, memory, table, durable, binary, todo, stops, req, history>>

-----------------------------------------------------------------------------
Post(c) ==
    \E body \in Posted, writer \in {"test", "closeout"},
       key \in {ApiKey} \cup Range(SkillKeys) :
        AppendSession(c, body, writer, key)

Next ==
    \/ \E c \in Client :
          \/ Post(c) \/ RecordLeaf(c) \/ RecordPayload(c) \/ Drop(c)
          \/ VerifyBegin(c) \/ VerifyHit(c) \/ VerifyFill(c) \/ VerifyReply(c)
          \/ \E ok \in BOOLEAN : RecordRow(c, ok) \/ VerifyRead(c, ok)
    \/ \E signer \in {"mcp", "drift"} :
          AppendMcpAudit(signer) \/ AppendReconcilerDrift(signer)
    \/ Stop
    \/ \E bin \in {"new", "old"} : Boot(bin) \/ BootBlind(bin)
    \/ \E read, write \in BOOLEAN : Rebuild(read, write)
    \/ Serve

Spec == Init /\ [][Next]_vars

-----------------------------------------------------------------------------
(***************************************************************************)
(* Properties.                                                             *)
(***************************************************************************)

Request ==
    {Idle}
    \cup [at : {"index", "cache", "table"}, leaf : 1..MaxLeaves,
          side : Side, created : BOOLEAN]
    \cup [at : {"verify"}, todo : SUBSET (1..MaxLeaves),
          chain : SUBSET [leaf : 1..MaxLeaves, side : Side]]
    \cup [at : {"fill"}, leaf : 1..MaxLeaves, side : Side, todo : SUBSET (1..MaxLeaves),
          chain : SUBSET [leaf : 1..MaxLeaves, side : Side]]

\* The derived state speaks of leaves of the ledger, and the LRU respects its
\* capacity.
TypeOK ==
    /\ ledger \in Seq(Leaf) /\ Len(ledger) <= MaxLeaves
    /\ index \subseteq WaveLeaves /\ unreadable \subseteq WaveLeaves
    /\ hashes \subseteq WaveLeaves
    /\ Len(lru) <= Capacity
    /\ \A n \in DOMAIN lru : lru[n].leaf \in WaveLeaves /\ lru[n].side \in Side
    /\ \A i \in DOMAIN table : table[i] # NoSide => table[i] \in Side
    /\ durable \in BOOLEAN /\ binary \in {"new", "old"}
    /\ mode \in {"down", "booting", "serving"} /\ todo \subseteq WaveLeaves
    /\ stops \in 0..MaxStops
    /\ \A c \in Client : req[c] \in Request
    /\ acked \subseteq WaveLeaves
    /\ fresh \in [1..MaxLeaves -> 0..2] /\ blind \in BOOLEAN
    /\ misread \subseteq WaveLeaves /\ unwritten \subseteq WaveLeaves

\* The entries of the answers about to be sent.
Entries == UNION {Response(c).chain : c \in {d \in Client : Answering(d)}}

\* Whatever the LRU was evicted, refilled from sqlite or rebuilt from the
\* ledger in between, an answer of the verify route shows for each leaf the
\* very record and HMAC that the leaf commits to (wave_session.rs,
\* verify_session; state.rs, lookup_wave_session_payload).
AnswerMatchesLedger ==
    \A e \in Entries :
        ledger[e.leaf] = [kind |-> "wave", rec |-> e.side.rec, mac |-> e.side.mac]

\* An entry the verify route labels ed25519 carries a signature that was
\* verified, and one labelled hmac an HMAC that was verified.  The one exception
\* is a side value rebuilt at a boot from the ledger's bytes alone.  It is shown
\* over a row that was verified only where that boot failed to read the row, or
\* to write one of its own before a replay brought the verified one; otherwise
\* only where no row has what was verified (append_session,
\* reconstruct_wave_sessions_from_ledger, lookup_wave_session_payload).
LabelsVerify ==
    \A e \in Entries :
        \/ SignatureVerifies(e.side.type, e.side.mac, e.side.sig)
        \/ /\ stops > 0 /\ e.side = FromLedger(e.leaf)
           /\ LET row == table[e.leaf]
              IN  \/ row = NoSide \/ ~SignatureVerifies(row.type, row.mac, row.sig)
                  \/ e.leaf \in misread \cup unwritten

\* An acknowledged leaf stays in the answers of verify, through evictions,
\* restarts and changes of the binary: while serving it is indexed, so that a
\* request begun now will list it, and its side value is found in the LRU or,
\* by a read that does not fail, in the table; or, if the running binary cannot
\* read it, the wave is at least not reported as unknown.  Excepted are a leaf
\* whose row sqlite refused since the last boot, whatever it failed to read, and
\* a boot that could not read the ledger (state.rs, lookup_wave_session_payload;
\* wave_session.rs, reconstruct_wave_sessions_from_ledger).
AcknowledgedResolves ==
    mode = "serving" /\ ~blind =>
        /\ \A i \in acked \ unreadable : i \in index /\ (i \in unwritten \/ Lookup(i) # NoSide)
        /\ acked # {} /\ index = {} => EmptyStatus = "unreadable"

\* Concurrent identical posts, replays and lost answers: a leaf is answered
\* with 201 at most once, and keys are unique in the ledger (append_session,
\* "decided atomically by the store's created flag").
CreatedOnce ==
    /\ \A i \in DOMAIN fresh : fresh[i] <= 1
    /\ \A i, j \in WaveLeaves : KeyOf(ledger[i].rec) = KeyOf(ledger[j].rec) => i = j

=============================================================================
