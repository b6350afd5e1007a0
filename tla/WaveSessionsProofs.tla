------------------------- MODULE WaveSessionsProofs -------------------------
(***************************************************************************)
(* What the wave-session routes keep, for any number of clients, records,  *)
(* leaves, stops and any capacity of the LRU.                              *)
(***************************************************************************)
EXTENDS WaveSessions, SequenceTheorems, WellFoundedInduction, TLAPS

\* A side value says of a leaf what the leaf commits to.
Matches(i, side) ==
    /\ i \in WaveLeaves
    /\ ledger[i].rec = side.rec
    /\ ledger[i].mac = side.mac

Verified(side) == SignatureVerifies(side.type, side.mac, side.sig)

\* A side value that may be shown: it was verified, or it was rebuilt and no
\* verified row can turn up in the table while this process runs, unless sqlite
\* failed this process on that very leaf.
Standing(i, side) ==
    \/ Verified(side)
    \/ /\ stops > 0 /\ side = FromLedger(i)
       /\ \/ i \in misread \/ i \in unwritten
          \/ table[i] # NoSide /\ ~Verified(table[i])

Posting(c) == req[c].at \in {"index", "cache", "table"}

CacheEntry == [leaf : 1..MaxLeaves, side : Side]

\* The types, in the form the proofs use.
WaveTypes ==
    /\ ledger \in Seq(Leaf) /\ Len(ledger) <= MaxLeaves
    /\ index \subseteq WaveLeaves /\ unreadable \subseteq WaveLeaves
    /\ hashes \subseteq WaveLeaves /\ acked \subseteq WaveLeaves /\ todo \subseteq WaveLeaves
    /\ lru \in Seq(CacheEntry) /\ Len(lru) <= Capacity
    /\ table \in [1..MaxLeaves -> Side \cup {NoSide}]
    /\ misread \subseteq WaveLeaves /\ unwritten \subseteq WaveLeaves
    /\ durable \in BOOLEAN /\ binary \in {"new", "old"}
    /\ mode \in {"down", "booting", "serving"} /\ stops \in 0..MaxStops
    /\ req \in [Client -> Request]
    /\ fresh \in [1..MaxLeaves -> 0..2] /\ blind \in BOOLEAN

\* Who runs when: handlers only while the process serves, and nothing derived
\* is left when it is down.
ModeInv ==
    /\ mode # "serving" => (\A c \in Client : req[c] = Idle) /\ stops > 0
    /\ mode = "down" => lru = <<>> /\ index = {} /\ unreadable = {} /\ hashes = {}

\* Every copy of a side value matches its leaf and may be shown.
SidesInv ==
    /\ \A n \in 1..Len(lru) : Matches(lru[n].leaf, lru[n].side) /\ Standing(lru[n].leaf, lru[n].side)
    /\ \A i \in 1..MaxLeaves : table[i] # NoSide =>
          /\ Matches(i, table[i])
          /\ Verified(table[i]) \/ (stops > 0 /\ table[i] = FromLedger(i))
    /\ \A c \in Client : Posting(c) =>
          /\ Matches(req[c].leaf, req[c].side) /\ Verified(req[c].side)
          /\ Readable(req[c].side.rec, binary)
    /\ \A c \in Client : req[c].at \in {"verify", "fill"} =>
          \A e \in req[c].chain : Matches(e.leaf, e.side) /\ Standing(e.leaf, e.side)
    /\ \A c \in Client : req[c].at = "fill" =>
          Matches(req[c].leaf, req[c].side) /\ Standing(req[c].leaf, req[c].side)

\* The leaf is indexed, and the table has its row unless it did not take it.
Resolves(i) == i \in index /\ i \in hashes /\ (i \in unwritten \/ table[i] # NoSide)

\* What was acknowledged resolves, or the boot has yet to come to it.
AckInv ==
    /\ \A i \in index \cup hashes : Readable(ledger[i].rec, binary)
    /\ \A c \in Client : req[c].at \in {"cache", "table"} => req[c].leaf \in index
    /\ mode = "serving" /\ ~blind => \A i \in acked : i \in unreadable \/ Resolves(i)
    /\ mode = "booting" =>
          /\ \A i \in acked : i \in todo \/ i \in unreadable \/ Resolves(i)
          /\ \A n \in 1..Len(lru) : lru[n].leaf \notin todo

\* The handler that created the leaf and has not answered yet.
Owns(c, i) == Posting(c) /\ req[c].created /\ req[c].leaf = i

\* A leaf has one creator, and once that one has answered none.
CreateInv ==
    /\ \A i, j \in WaveLeaves : KeyOf(ledger[i].rec) = KeyOf(ledger[j].rec) => i = j
    /\ \A i \in 1..MaxLeaves : \A c, d \in Client : Owns(c, i) /\ Owns(d, i) => c = d
    /\ \A i \in 1..MaxLeaves : fresh[i] <= 1
    /\ \A i \in 1..MaxLeaves : fresh[i] = 1 => i <= Len(ledger) /\ \A c \in Client : ~Owns(c, i)

-----------------------------------------------------------------------------
(***************************************************************************)
(* Records.                                                                *)
(***************************************************************************)

LEMMA Bounds == Capacity \in Nat /\ Capacity > 0 /\ MaxLeaves \in Nat /\ MaxStops \in Nat
<1>1. Capacity \in Nat \ {0} /\ MaxLeaves \in Nat /\ MaxStops \in Nat
  BY WaveAssumption, Zenon
<1>2. QED
  BY <1>1

LEMMA SideFields ==
    /\ NoSide \notin Side
    /\ \A side \in Side : side.rec \in Record /\ side.mac \in BOOLEAN /\ side.sig \in BOOLEAN
    /\ \A e \in CacheEntry : e.leaf \in 1..MaxLeaves /\ e.side \in Side
BY DEF Side, NoSide, CacheEntry

\* A wave leaf is its record and its HMAC.
LEMMA WaveLeafFields ==
    ASSUME WaveTypes, NEW i \in WaveLeaves
    PROVE  /\ i \in 1..MaxLeaves /\ i \in 1..Len(ledger)
           /\ ledger[i].rec \in Record /\ ledger[i].mac \in BOOLEAN
           /\ ledger[i] = [kind |-> "wave", rec |-> ledger[i].rec, mac |-> ledger[i].mac]
<1>1. i \in 1..Len(ledger) /\ ledger[i] \in Leaf /\ ledger[i].kind = "wave"
  BY DEF WaveTypes, WaveLeaves, Leaves
<1>2. i \in 1..MaxLeaves
  BY <1>1, Bounds DEF WaveTypes
<1>3. ledger[i] \in [kind : {"wave"}, rec : Record, mac : BOOLEAN]
  BY <1>1 DEF Leaf
<1>4. QED
  BY <1>1, <1>2, <1>3

\* The fields of a handler.
LEMMA RequestFields ==
    ASSUME NEW r \in Request
    PROVE  /\ r.at \in {"index", "cache", "table"} =>
                /\ r.leaf \in 1..MaxLeaves /\ r.side \in Side /\ r.created \in BOOLEAN
                /\ r \in [at : {"index", "cache", "table"}, leaf : 1..MaxLeaves,
                          side : Side, created : BOOLEAN]
           /\ r.at \in {"verify", "fill"} =>
                r.todo \subseteq 1..MaxLeaves /\ r.chain \subseteq CacheEntry
           /\ r.at = "fill" => r.leaf \in 1..MaxLeaves /\ r.side \in Side
BY DEF Request, Idle, CacheEntry

-----------------------------------------------------------------------------
(***************************************************************************)
(* The LRU.                                                                *)
(***************************************************************************)

\* Removing an entry leaves entries that were there.
LEMMA OthersFacts ==
    ASSUME NEW S, NEW cache \in Seq(S), NEW i
    PROVE  /\ Others(cache, i) \in Seq(S)
           /\ \A n \in 1..Len(Others(cache, i)) : \E m \in 1..Len(cache) : Others(cache, i)[n] = cache[m]
<1>1. CASE ~\E n \in DOMAIN cache : cache[n].leaf = i
  <2>1. Others(cache, i) = cache
    BY <1>1 DEF Others
  <2>2. QED
    BY <2>1
<1>2. CASE \E n \in DOMAIN cache : cache[n].leaf = i
  <2> DEFINE k == CHOOSE n \in DOMAIN cache : cache[n].leaf = i
  <2>1. k \in 1..Len(cache) /\ Len(cache) \in Nat
    BY <1>2
  <2> HIDE DEF k
  <2> DEFINE a == SubSeq(cache, 1, k - 1)
             b == SubSeq(cache, k + 1, Len(cache))
  <2>2. Others(cache, i) = a \o b
    BY <1>2 DEF Others, RemoveAt, k
  <2>3. /\ a \in Seq(S) /\ Len(a) = k - 1
        /\ \A n \in 1..(k - 1) : a[n] = cache[n]
    BY <2>1
  <2>4. /\ b \in Seq(S) /\ Len(b) = Len(cache) - k
        /\ \A n \in 1..(Len(cache) - k) : b[n] = cache[k + n]
    BY <2>1
  <2> HIDE DEF a, b
  <2>5. /\ a \o b \in Seq(S) /\ Len(a \o b) = Len(a) + Len(b)
        /\ \A n \in 1..(Len(a) + Len(b)) :
              (a \o b)[n] = IF n <= Len(a) THEN a[n] ELSE b[n - Len(a)]
    BY <2>3, <2>4, ConcatProperties
  <2>6. ASSUME NEW n \in 1..Len(a \o b) PROVE \E m \in 1..Len(cache) : (a \o b)[n] = cache[m]
    <3>1. CASE n <= Len(a)
      <4>1. n \in 1..(k - 1) /\ n \in 1..Len(cache)
        BY <2>1, <2>3, <2>4, <2>5, <3>1
      <4>2. QED
        BY <2>3, <2>4, <2>5, <3>1, <4>1
    <3>2. CASE ~(n <= Len(a))
      <4>1. n - Len(a) \in 1..(Len(cache) - k) /\ k + (n - Len(a)) \in 1..Len(cache)
        BY <2>1, <2>3, <2>4, <2>5, <3>2
      <4>2. (a \o b)[n] = cache[k + (n - Len(a))]
        BY <2>3, <2>4, <2>5, <3>2, <4>1
      <4>3. QED
        BY <4>1, <4>2
    <3>3. QED
      BY <3>1, <3>2
  <2>7. QED
    BY <2>2, <2>5, <2>6
<1>3. QED
  BY <1>1, <1>2

\* The LRU stays within its capacity and gains at most the touched entry.
LEMMA TouchFacts ==
    ASSUME NEW S, NEW cache \in Seq(S), NEW i, NEW side, [leaf |-> i, side |-> side] \in S
    PROVE  /\ Touch(cache, i, side) \in Seq(S) /\ Len(Touch(cache, i, side)) <= Capacity
           /\ \A n \in 1..Len(Touch(cache, i, side)) :
                \/ Touch(cache, i, side)[n] = [leaf |-> i, side |-> side]
                \/ \E m \in 1..Len(cache) : Touch(cache, i, side)[n] = cache[m]
<1> DEFINE e == [leaf |-> i, side |-> side]
           rest == Others(cache, i)
           moved == <<e>> \o rest
           cut == IF Len(moved) < Capacity THEN Len(moved) ELSE Capacity
<1>1. /\ rest \in Seq(S)
      /\ \A n \in 1..Len(rest) : \E m \in 1..Len(cache) : rest[n] = cache[m]
  BY OthersFacts
<1>2. Touch(cache, i, side) = SubSeq(moved, 1, cut) /\ e \in S
  BY DEF Touch
<1> HIDE DEF e, rest
<1>3. <<e>> \in Seq(S) /\ Len(<<e>>) = 1 /\ <<e>>[1] = e
  BY <1>2
<1>4. /\ moved \in Seq(S) /\ Len(moved) = 1 + Len(rest)
      /\ \A n \in 1..(1 + Len(rest)) : moved[n] = IF n <= 1 THEN <<e>>[n] ELSE rest[n - 1]
  BY <1>1, <1>3, ConcatProperties
<1>5. ASSUME NEW n \in 1..Len(moved)
      PROVE  moved[n] = e \/ \E m \in 1..Len(cache) : moved[n] = cache[m]
  <2>1. Len(rest) \in Nat
    BY <1>1
  <2>2. CASE n = 1
    BY <1>3, <1>4, <2>1, <2>2
  <2>3. CASE n # 1
    <3>1. n - 1 \in 1..Len(rest) /\ moved[n] = rest[n - 1]
      BY <1>4, <2>1, <2>3
    <3>2. QED
      BY <1>1, <3>1
  <2>4. QED
    BY <2>2, <2>3
<1> HIDE DEF moved
<1>6. cut \in Nat /\ cut <= Len(moved) /\ cut <= Capacity
  BY <1>4, Bounds
<1> HIDE DEF cut
<1>7. /\ SubSeq(moved, 1, cut) \in Seq(S) /\ Len(SubSeq(moved, 1, cut)) = cut
      /\ \A n \in 1..cut : SubSeq(moved, 1, cut)[n] = moved[n]
  BY <1>4, <1>6
<1>8. \A n \in 1..cut : n \in 1..Len(moved)
  BY <1>4, <1>6
<1>9. QED
  BY <1>2, <1>5, <1>6, <1>7, <1>8 DEF e

-----------------------------------------------------------------------------
(***************************************************************************)
(* The ledger only grows.                                                  *)
(***************************************************************************)

WaveLeaf(side) == [kind |-> "wave", rec |-> side.rec, mac |-> side.mac]

Grows == ledger' = ledger \/ \E l \in Leaf : ledger' = Append(ledger, l)

\* What was true of a wave leaf stays true.
LEMMA GrowsFacts ==
    ASSUME WaveTypes, Grows
    PROVE  /\ Len(ledger) <= Len(ledger') /\ ledger' \in Seq(Leaf)
           /\ WaveLeaves \subseteq WaveLeaves'
           /\ \A i \in WaveLeaves : ledger'[i] = ledger[i] /\ FromLedger(i)' = FromLedger(i)
<1>1. ledger \in Seq(Leaf) /\ Len(ledger) \in Nat
  BY DEF WaveTypes
<1>2. /\ ledger' \in Seq(Leaf) /\ Len(ledger) <= Len(ledger')
      /\ \A i \in 1..Len(ledger) : ledger'[i] = ledger[i] /\ i \in 1..Len(ledger')
  BY <1>1 DEF Grows
<1>3. QED
  BY <1>2 DEF WaveLeaves, Leaves, FromLedger

\* A post that got past the checks: either its leaf is new and so is its key, or
\* the very same leaf is in the ledger.
Appended(c, i, side, created) ==
    /\ mode = "serving" /\ req[c] = Idle
    /\ req' = [req EXCEPT ![c] = [at |-> "index", leaf |-> i, side |-> side, created |-> created]]
    /\ Readable(side.rec, binary) /\ Verified(side)
    /\ created => /\ i = Len(ledger) + 1 /\ Len(ledger) < MaxLeaves
                  /\ ledger' = Append(ledger, WaveLeaf(side)) /\ WithKey(side.rec) = {}
    /\ ~created => ledger' = ledger /\ i \in WaveLeaves /\ ledger[i] = WaveLeaf(side)
    /\ UNCHANGED <<memory, table, durable, binary, proc, history>>

LEMMA PostFacts ==
    ASSUME WaveTypes, NEW c \in Client, Post(c)
    PROVE  \E i \in 1..MaxLeaves, side \in Side, created \in BOOLEAN : Appended(c, i, side, created)
<1> PICK body \in Posted, writer \in {"test", "closeout"}, key \in {ApiKey} \cup Range(SkillKeys) :
        AppendSession(c, body, writer, key)
  BY DEF Post
<1> DEFINE side == [rec |-> body.rec, mac |-> body.mac, type |-> body.type,
                    sig |-> body.type = "ed25519" /\ body.sig]
<1>1. body \in Body
  BY WaveAssumption, Zenon
<1>2. /\ body.rec \in Record /\ body.type \in {"hmac", "ed25519"}
      /\ body.mac \in BOOLEAN /\ body.sig \in BOOLEAN
  BY <1>1 DEF Body
<1>3. (body.type = "ed25519" /\ body.sig) \in BOOLEAN
  OBVIOUS
<1>4. side \in Side
  BY <1>2, <1>3 DEF Side
<1>5. /\ side.rec = body.rec /\ side.mac = body.mac /\ side.type = body.type
      /\ side.sig = (body.type = "ed25519" /\ body.sig)
  OBVIOUS
<1>6. Verified(side)
  BY <1>2, <1>5 DEF AppendSession, Verified, SignatureVerifies, VerifyKernelHmac, VerifyEd25519
<1>7. mode = "serving" /\ req[c] = Idle /\ Readable(body.rec, binary)
      /\ UNCHANGED <<memory, table, durable, binary, proc, history>>
  BY DEF AppendSession
<1>8. \/ /\ WithKey(body.rec) = {} /\ Len(ledger) < MaxLeaves
         /\ ledger' = Append(ledger, [kind |-> "wave", rec |-> body.rec, mac |-> body.mac])
         /\ req' = [req EXCEPT ![c] = [at |-> "index", leaf |-> Len(ledger) + 1,
                                       side |-> side, created |-> TRUE]]
      \/ \E i \in WithKey(body.rec) :
            /\ ledger[i] = [kind |-> "wave", rec |-> body.rec, mac |-> body.mac]
            /\ req' = [req EXCEPT ![c] = [at |-> "index", leaf |-> i,
                                          side |-> side, created |-> FALSE]]
            /\ ledger' = ledger
  BY DEF AppendSession, Goto, SamePayload
<1>9. WaveLeaf(side) = [kind |-> "wave", rec |-> body.rec, mac |-> body.mac]
  BY <1>5 DEF WaveLeaf
<1> HIDE DEF side
<1>10. CASE WithKey(body.rec) = {} /\ Len(ledger) < MaxLeaves
            /\ ledger' = Append(ledger, [kind |-> "wave", rec |-> body.rec, mac |-> body.mac])
            /\ req' = [req EXCEPT ![c] = [at |-> "index", leaf |-> Len(ledger) + 1,
                                          side |-> side, created |-> TRUE]]
  <2>1. Len(ledger) + 1 \in 1..MaxLeaves
    BY <1>10, Bounds DEF WaveTypes
  <2>2. Appended(c, Len(ledger) + 1, side, TRUE)
    BY <1>5, <1>6, <1>7, <1>9, <1>10 DEF Appended
  <2>3. QED
    BY <1>4, <2>1, <2>2
<1>11. ASSUME NEW i \in WithKey(body.rec),
              ledger[i] = [kind |-> "wave", rec |-> body.rec, mac |-> body.mac],
              req' = [req EXCEPT ![c] = [at |-> "index", leaf |-> i,
                                         side |-> side, created |-> FALSE]],
              ledger' = ledger
       PROVE  \E j \in 1..MaxLeaves, s \in Side, created \in BOOLEAN : Appended(c, j, s, created)
  <2>1. i \in WaveLeaves /\ i \in 1..MaxLeaves
    BY WaveLeafFields DEF WithKey
  <2>2. Appended(c, i, side, FALSE)
    BY <1>5, <1>6, <1>7, <1>9, <1>11, <2>1 DEF Appended
  <2>3. QED
    BY <1>4, <2>1, <2>2
<1>12. QED
  BY <1>8, <1>10, <1>11

\* An audit leaf touches nothing but the ledger.
Audited ==
    /\ Len(ledger) < MaxLeaves
    /\ \E l \in Leaf : l.kind = "audit" /\ ledger' = Append(ledger, l)
    /\ UNCHANGED <<memory, table, durable, binary, proc, req, history>>

LEMMA AuditFacts ==
    ASSUME NEW signer, AppendMcpAudit(signer) \/ AppendReconcilerDrift(signer)
    PROVE  Audited
<1>1. ASSUME NEW key \in {"mcp", "drift"}, AppendAudit(key) PROVE Audited
  <2>1. [kind |-> "audit", key |-> key] \in Leaf /\ [kind |-> "audit", key |-> key].kind = "audit"
    BY DEF Leaf
  <2>2. QED
    BY <1>1, <2>1 DEF AppendAudit, Audited
<1>2. QED
  BY <1>1 DEF AppendMcpAudit, AppendReconcilerDrift

\* The steps that sqlite may fail, and the lookup as a whole.
RowStep(c) == \E ok \in BOOLEAN : RecordRow(c, ok)
LookupStep(c) == VerifyHit(c) \/ VerifyFill(c) \/ \E ok \in BOOLEAN : VerifyRead(c, ok)
RebuildStep == \E read, write \in BOOLEAN : Rebuild(read, write)

\* Every step.
LEMMA WaveCases ==
    ASSUME WaveTypes, [Next]_vars
    PROVE  \/ \E c \in Client, i \in 1..MaxLeaves, side \in Side, created \in BOOLEAN :
                 Appended(c, i, side, created)
           \/ \E c \in Client : \/ RecordLeaf(c) \/ RecordPayload(c) \/ RowStep(c) \/ Drop(c)
                                \/ VerifyBegin(c) \/ LookupStep(c) \/ VerifyReply(c)
           \/ Audited
           \/ Stop
           \/ \E bin \in {"new", "old"} : Boot(bin) \/ BootBlind(bin)
           \/ RebuildStep
           \/ Serve
           \/ UNCHANGED vars
BY PostFacts, AuditFacts DEF Next, RowStep, LookupStep, RebuildStep

\* No step takes a leaf away.
LEMMA LedgerGrows ==
    ASSUME WaveTypes, [Next]_vars
    PROVE  Grows
<1>1. ASSUME NEW c \in Client, NEW i \in 1..MaxLeaves, NEW side \in Side, NEW created \in BOOLEAN,
             Appended(c, i, side, created)
      PROVE  Grows
  <2>1. WaveLeaf(side) \in Leaf
    BY SideFields DEF WaveLeaf, Leaf
  <2>2. QED
    BY <1>1, <2>1 DEF Appended, Grows
<1>2. CASE Audited
  BY <1>2 DEF Audited, Grows
<1>3. ASSUME NEW c \in Client,
             \/ RecordLeaf(c) \/ RecordPayload(c) \/ RowStep(c) \/ Drop(c)
             \/ VerifyBegin(c) \/ LookupStep(c) \/ VerifyReply(c)
      PROVE  Grows
  BY <1>3 DEF RecordLeaf, RecordPayload, RowStep, RecordRow, Drop, VerifyBegin, LookupStep,
       VerifyHit, VerifyRead, VerifyFill, VerifyReply, Grows
<1>4. CASE \/ Stop \/ RebuildStep \/ Serve \/ UNCHANGED vars
           \/ \E bin \in {"new", "old"} : Boot(bin) \/ BootBlind(bin)
  BY <1>4 DEF Stop, RebuildStep, Rebuild, Serve, Boot, BootBlind, vars, Grows
<1>5. QED
  BY <1>1, <1>2, <1>3, <1>4, WaveCases

-----------------------------------------------------------------------------
(***************************************************************************)
(* Types.                                                                  *)
(***************************************************************************)

LEMMA WaveTypesInit == Init => WaveTypes
<1> SUFFICES ASSUME Init PROVE WaveTypes
  OBVIOUS
<1>1. ledger \in Seq(Leaf) /\ Len(ledger) <= MaxLeaves /\ WaveLeaves = {}
  BY Bounds DEF Init, WaveLeaves, Leaves
<1>2. lru \in Seq(CacheEntry) /\ Len(lru) <= Capacity
  BY Bounds DEF Init
<1>3. /\ table \in [1..MaxLeaves -> Side \cup {NoSide}] /\ req \in [Client -> Request]
      /\ fresh \in [1..MaxLeaves -> 0..2] /\ stops \in 0..MaxStops
  BY Bounds DEF Init, Request
<1>4. QED
  BY <1>1, <1>2, <1>3 DEF Init, WaveTypes

\* A row is added or stays; a leaf is left without one only where the write
\* failed.
Inserted(i, side) ==
    /\ \/ table' = table
       \/ table[i] = NoSide /\ table' = [table EXCEPT ![i] = side]
    /\ unwritten \subseteq unwritten' /\ unwritten' \subseteq unwritten \cup {i}
    /\ i \in unwritten' \/ table'[i] # NoSide

LEMMA InsertRowFacts ==
    ASSUME WaveTypes, NEW i \in 1..MaxLeaves, NEW side \in Side, NEW ok \in BOOLEAN,
           InsertRow(i, side, ok)
    PROVE  Inserted(i, side) /\ table' \in [1..MaxLeaves -> Side \cup {NoSide}]
<1>1. table \in [1..MaxLeaves -> Side \cup {NoSide}]
  BY DEF WaveTypes
<1>2. CASE ok /\ table[i] = NoSide
  <2>1. table' = [table EXCEPT ![i] = side] /\ unwritten' = unwritten
    BY <1>2 DEF InsertRow
  <2>2. QED
    BY <1>1, <1>2, <2>1, SideFields DEF Inserted
<1>3. CASE ~(ok /\ table[i] = NoSide)
  <2>1. table' = table /\ (unwritten' = IF ok \/ table[i] # NoSide THEN unwritten
                                       ELSE unwritten \cup {i})
    BY <1>3 DEF InsertRow
  <2>2. QED
    BY <1>1, <1>3, <2>1 DEF Inserted
<1>4. QED
  BY <1>2, <1>3

\* The side a recording handler touches the LRU with.
LEMMA CachedFacts ==
    ASSUME WaveTypes, NEW i, Cached(i)
    PROVE  \E n \in 1..Len(lru) : lru[n].leaf = i /\ lru[n].side = CachedSide(i)
<1> DEFINE k == CHOOSE n \in DOMAIN lru : lru[n].leaf = i
<1>1. DOMAIN lru = 1..Len(lru)
  BY DEF WaveTypes
<1>2. k \in DOMAIN lru /\ lru[k].leaf = i
  BY DEF Cached
<1>3. CachedSide(i) = lru[k].side
  BY DEF CachedSide
<1>4. QED
  BY <1>1, <1>2, <1>3

\* What the rebuild of a readable leaf puts into the LRU and the table: the row,
\* or what the ledger has, where there is no row or it could not be read.
Restored(i, side) ==
    \/ table[i] # NoSide /\ side = table[i] /\ UNCHANGED <<table, unwritten>>
    \/ /\ side = FromLedger(i) /\ Inserted(i, side)
       /\ table[i] = NoSide \/ i \in misread' \/ ~Readable(table[i].rec, binary)

LEMMA RebuildFacts ==
    ASSUME WaveTypes, NEW i \in WaveLeaves, NEW read \in BOOLEAN, NEW write \in BOOLEAN,
           RebuildReadable(i, read, write)
    PROVE  \E side \in Side :
              /\ lru' = Touch(lru, i, side) /\ Restored(i, side)
              /\ index' = index \cup {i} /\ hashes' = hashes \cup {i} /\ unreadable' = unreadable
              /\ misread \subseteq misread' /\ misread' \subseteq misread \cup {i}
              /\ table' \in [1..MaxLeaves -> Side \cup {NoSide}]
<1> DEFINE found == ReadRow(hashes \cup {i}, i, read)
           side == IF found = NoSide THEN FromLedger(i) ELSE found
<1>1. /\ lru' = Touch(lru, i, side) /\ index' = index \cup {i} /\ hashes' = hashes \cup {i}
      /\ unreadable' = unreadable
      /\ misread' = IF read \/ table[i] = NoSide THEN misread ELSE misread \cup {i}
      /\ IF found = NoSide THEN InsertRow(i, FromLedger(i), write)
                           ELSE UNCHANGED <<table, unwritten>>
  BY DEF RebuildReadable, Restore
<1>2. /\ table \in [1..MaxLeaves -> Side \cup {NoSide}] /\ i \in 1..MaxLeaves
      /\ ledger[i].rec \in Record /\ ledger[i].mac \in BOOLEAN
  BY WaveLeafFields DEF WaveTypes
<1>3. FromLedger(i) \in Side
  BY <1>2 DEF FromLedger, Side
<1>4. found = IF read THEN Row(table, i, binary) ELSE NoSide
  BY DEF ReadRow
<1> HIDE DEF found
<1>5. CASE found = NoSide
  <2>1. /\ Inserted(i, FromLedger(i)) /\ table' \in [1..MaxLeaves -> Side \cup {NoSide}]
        /\ side = FromLedger(i)
    BY <1>1, <1>2, <1>3, <1>5, InsertRowFacts
  <2>2. table[i] = NoSide \/ i \in misread' \/ ~Readable(table[i].rec, binary)
    BY <1>1, <1>4, <1>5 DEF Row
  <2>3. QED
    BY <1>1, <1>3, <2>1, <2>2 DEF Restored
<1>6. CASE found # NoSide
  <2>1. side = found /\ found = table[i] /\ found \in Side
    BY <1>2, <1>4, <1>6 DEF Row
  <2>2. QED
    BY <1>1, <1>2, <1>6, <2>1 DEF Restored
<1>7. QED
  BY <1>5, <1>6

\* A set of numbers has a least one.
LEMMA Least ==
    ASSUME NEW T, T \subseteq Nat, T # {}
    PROVE  \E i \in T : \A j \in T : i <= j
<1>1. PICK i \in T : \A j \in T : ~(<<j, i>> \in OpToRel(<, Nat))
  BY NatLessThanWellFounded, WFMin
<1>2. \A j \in T : ~(j < i)
  BY <1>1 DEF OpToRel
<1>3. QED
  BY <1>2

\* The leaf a boot comes to next is one it has yet to go through.
LEMMA NextToDoFacts ==
    ASSUME WaveTypes, todo # {}
    PROVE  NextToDo \in todo /\ NextToDo \in WaveLeaves
<1>1. todo \subseteq Nat
  BY DEF WaveTypes, WaveLeaves, Leaves
<1>2. \E i \in todo : \A j \in todo : i <= j
  BY <1>1, Least
<1>3. NextToDo \in todo
  BY <1>2 DEF NextToDo, Min
<1>4. QED
  BY <1>3 DEF WaveTypes

\* A lookup of the verify route finds nothing and ends the request, or holds
\* the row it has read, or shows what the LRU has or it held.
Loaded(c, i, side) ==
    /\ lru' = lru
    /\ req' = [req EXCEPT ![c] = [at |-> "fill", leaf |-> i, side |-> side,
                                  todo |-> req[c].todo, chain |-> req[c].chain]]
    /\ table[i] # NoSide /\ side = table[i]

Shown(c, i, side) ==
    /\ lru' = Touch(lru, i, side)
    /\ req' = [req EXCEPT ![c] = [at |-> "verify", todo |-> req[c].todo \ {i},
                                  chain |-> req[c].chain \cup {[leaf |-> i, side |-> side]}]]
    /\ \/ \E n \in 1..Len(lru) : lru[n].leaf = i /\ side = lru[n].side
       \/ req[c].at = "fill" /\ i = req[c].leaf /\ side = req[c].side

LEMMA LookupFacts ==
    ASSUME WaveTypes, NEW c \in Client, LookupStep(c)
    PROVE  /\ req[c].at \in {"verify", "fill"}
           /\ UNCHANGED <<ledger, index, unreadable, hashes, table, durable, binary, proc, history>>
           /\ \/ req' = [req EXCEPT ![c] = Idle] /\ lru' = lru
              \/ \E i \in 1..MaxLeaves, side \in Side : Loaded(c, i, side) \/ Shown(c, i, side)
<1>0. /\ req[c] \in Request /\ lru \in Seq(CacheEntry)
      /\ table \in [1..MaxLeaves -> Side \cup {NoSide}]
  BY DEF WaveTypes
<1>1. /\ req[c].at \in {"verify", "fill"}
      /\ UNCHANGED <<ledger, index, unreadable, hashes, table, durable, binary, proc, history>>
  BY DEF LookupStep, VerifyHit, VerifyRead, VerifyFill, Looking, memory
<1>2. ASSUME Looking(c) PROVE Current(c) \in 1..MaxLeaves
  <2>1. req[c].todo # {} /\ req[c].todo \subseteq 1..MaxLeaves
    BY <1>0, <1>2, RequestFields DEF Looking
  <2>2. \E j \in req[c].todo : \A k \in req[c].todo : j <= k
    BY <2>1, Least
  <2>3. Current(c) \in req[c].todo
    BY <2>2 DEF Current, Min
  <2>4. QED
    BY <2>1, <2>3
<1>3. CASE VerifyHit(c)
  <2> PICK i \in 1..MaxLeaves : i = Current(c)
    BY <1>2, <1>3 DEF VerifyHit
  <2>1. Cached(i) /\ Found(c, i, CachedSide(i))
    BY <1>3 DEF VerifyHit
  <2>2. PICK n \in 1..Len(lru) : lru[n].leaf = i /\ lru[n].side = CachedSide(i)
    BY <2>1, CachedFacts
  <2>3. CachedSide(i) \in Side
    BY <1>0, <2>2, SideFields
  <2>4. Shown(c, i, CachedSide(i))
    BY <2>1, <2>2 DEF Shown, Found, Goto
  <2>5. QED
    BY <1>1, <2>3, <2>4
<1>4. ASSUME NEW ok \in BOOLEAN, VerifyRead(c, ok)
      PROVE  \/ req' = [req EXCEPT ![c] = Idle] /\ lru' = lru
             \/ \E i \in 1..MaxLeaves, side \in Side : Loaded(c, i, side)
  <2> PICK i \in 1..MaxLeaves : i = Current(c)
    BY <1>2, <1>4 DEF VerifyRead
  <2> DEFINE side == ReadRow(hashes, i, ok)
  <2>1. /\ lru' = lru
        /\ req' = [req EXCEPT ![c] = IF side = NoSide THEN Idle
                                     ELSE [at |-> "fill", leaf |-> i, side |-> side,
                                           todo |-> req[c].todo, chain |-> req[c].chain]]
    BY <1>4 DEF VerifyRead, Goto, memory
  <2>2. side # NoSide => table[i] # NoSide /\ side = table[i] /\ side \in Side
    BY <1>0 DEF ReadRow, Row
  <2> HIDE DEF side
  <2>3. CASE side = NoSide
    BY <2>1, <2>3
  <2>4. CASE side # NoSide
    BY <2>1, <2>2, <2>4 DEF Loaded
  <2>5. QED
    BY <2>3, <2>4
<1>5. CASE VerifyFill(c)
  <2>1. req[c].at = "fill" /\ Found(c, req[c].leaf, req[c].side)
    BY <1>5 DEF VerifyFill
  <2>2. req[c].leaf \in 1..MaxLeaves /\ req[c].side \in Side
    BY <1>0, <2>1, RequestFields
  <2>3. Shown(c, req[c].leaf, req[c].side)
    BY <2>1 DEF Shown, Found, Goto
  <2>4. QED
    BY <1>1, <2>2, <2>3
<1>6. QED
  BY <1>1, <1>3, <1>4, <1>5 DEF LookupStep

\* What the handler is left with, for the parts that do not look at sides.
LEMMA LookupShape ==
    ASSUME WaveTypes, NEW c \in Client, LookupStep(c)
    PROVE  /\ \E r \in Request : /\ r.at \in {"idle", "verify", "fill"}
                                 /\ req' = [req EXCEPT ![c] = r]
           /\ \/ lru' = lru
              \/ \E i \in 1..MaxLeaves, side \in Side : lru' = Touch(lru, i, side)
<1>0. req[c] \in Request
  BY DEF WaveTypes
<1>1. req[c].todo \subseteq 1..MaxLeaves /\ req[c].chain \subseteq CacheEntry
  BY <1>0, LookupFacts, RequestFields
<1>2. CASE req' = [req EXCEPT ![c] = Idle] /\ lru' = lru
  <2>1. Idle \in Request /\ Idle.at = "idle"
    BY DEF Request, Idle
  <2>2. QED
    BY <1>2, <2>1
<1>3. ASSUME NEW i \in 1..MaxLeaves, NEW side \in Side, Loaded(c, i, side)
      PROVE  /\ \E r \in Request : r.at \in {"idle", "verify", "fill"} /\ req' = [req EXCEPT ![c] = r]
             /\ lru' = lru
  <2> DEFINE r == [at |-> "fill", leaf |-> i, side |-> side,
                   todo |-> req[c].todo, chain |-> req[c].chain]
  <2>1. r \in Request /\ r.at = "fill"
    BY <1>1 DEF Request, CacheEntry
  <2>2. req' = [req EXCEPT ![c] = r] /\ lru' = lru
    BY <1>3 DEF Loaded
  <2> HIDE DEF r
  <2>3. QED
    BY <2>1, <2>2
<1>4. ASSUME NEW i \in 1..MaxLeaves, NEW side \in Side, Shown(c, i, side)
      PROVE  /\ \E r \in Request : r.at \in {"idle", "verify", "fill"} /\ req' = [req EXCEPT ![c] = r]
             /\ lru' = Touch(lru, i, side)
  <2> DEFINE e == [leaf |-> i, side |-> side]
             r == [at |-> "verify", todo |-> req[c].todo \ {i}, chain |-> req[c].chain \cup {e}]
  <2>1. e \in CacheEntry
    BY DEF CacheEntry
  <2>2. req' = [req EXCEPT ![c] = r] /\ lru' = Touch(lru, i, side)
    BY <1>4 DEF Shown
  <2> HIDE DEF e
  <2>3. r \in Request /\ r.at = "verify"
    BY <1>1, <2>1 DEF Request, CacheEntry
  <2> HIDE DEF r
  <2>4. QED
    BY <2>2, <2>3
<1>5. QED
  BY <1>2, <1>3, <1>4, LookupFacts

\* Each step keeps the types.
LEMMA WaveTypesStep ==
    ASSUME WaveTypes, SidesInv, [Next]_vars
    PROVE  WaveTypes'
<1> USE Bounds
<1>0. /\ ledger \in Seq(Leaf) /\ Len(ledger) \in Nat /\ Len(ledger) <= MaxLeaves
      /\ lru \in Seq(CacheEntry) /\ Len(lru) <= Capacity /\ req \in [Client -> Request]
      /\ table \in [1..MaxLeaves -> Side \cup {NoSide}]
      /\ stops \in 0..MaxStops /\ fresh \in [1..MaxLeaves -> 0..2]
      /\ Idle \in Request
  BY DEF WaveTypes, Request
<1>g. /\ ledger' \in Seq(Leaf) /\ WaveLeaves \subseteq WaveLeaves'
  BY LedgerGrows, GrowsFacts
<1>p. \A c \in Client : Posting(c) => req[c].leaf \in WaveLeaves
  BY DEF SidesInv, Matches
<1>e. ASSUME NEW i \in 1..MaxLeaves, NEW side \in Side
      PROVE  [leaf |-> i, side |-> side] \in CacheEntry
  BY DEF CacheEntry
<1>1. ASSUME NEW c \in Client, NEW i \in 1..MaxLeaves, NEW side \in Side, NEW created \in BOOLEAN,
             Appended(c, i, side, created)
      PROVE  WaveTypes'
  <2>1. [at |-> "index", leaf |-> i, side |-> side, created |-> created] \in Request
    BY DEF Request
  <2>2. req' \in [Client -> Request]
    BY <1>0, <1>1, <2>1 DEF Appended
  <2>3. Len(ledger') <= MaxLeaves
    BY <1>0, <1>1 DEF Appended
  <2>4. UNCHANGED <<memory, table, durable, binary, proc, history>>
    BY <1>1 DEF Appended
  <2>5. QED
    BY <1>g, <2>2, <2>3, <2>4 DEF WaveTypes, memory, proc, history, answers, sqlite
<1>2. CASE Audited
  <2>1. Len(ledger') <= MaxLeaves
    BY <1>0, <1>2 DEF Audited
  <2>2. UNCHANGED <<memory, table, durable, binary, proc, req, history>>
    BY <1>2 DEF Audited
  <2>3. QED
    BY <1>g, <2>1, <2>2 DEF WaveTypes, memory, proc, history, answers, sqlite
<1>3. ASSUME NEW c \in Client, RecordLeaf(c) PROVE WaveTypes'
  <2>1. req[c] \in [at : {"index", "cache", "table"}, leaf : 1..MaxLeaves,
                    side : Side, created : BOOLEAN]
    BY <1>0, <1>3, RequestFields DEF RecordLeaf
  <2>2. [req[c] EXCEPT !.at = "cache"] \in Request
    BY <2>1 DEF Request
  <2>3. req' \in [Client -> Request]
    BY <1>0, <1>3, <2>2 DEF RecordLeaf, Goto
  <2>4. index' = index \cup {req[c].leaf}
        /\ UNCHANGED <<ledger, unreadable, lru, hashes, table, durable, binary, proc, history>>
    BY <1>3 DEF RecordLeaf
  <2>5. WaveLeaves' = WaveLeaves
    BY <2>4 DEF WaveLeaves, Leaves
  <2>6. QED
    BY <1>p, <1>3, <2>3, <2>4, <2>5 DEF WaveTypes, proc, history, answers, sqlite, RecordLeaf, Posting
<1>4. ASSUME NEW c \in Client, RecordPayload(c) PROVE WaveTypes'
  <2> DEFINE i == req[c].leaf
             side == IF Cached(i) THEN CachedSide(i) ELSE req[c].side
  <2>1. /\ req[c] \in [at : {"index", "cache", "table"}, leaf : 1..MaxLeaves,
                       side : Side, created : BOOLEAN]
        /\ req[c].side \in Side /\ i \in 1..MaxLeaves
    BY <1>0, <1>4, RequestFields DEF RecordPayload
  <2>2. [req[c] EXCEPT !.at = "table"] \in Request
    BY <2>1 DEF Request
  <2>3. req' \in [Client -> Request]
    BY <1>0, <1>4, <2>2 DEF RecordPayload, Goto
  <2>4. ASSUME Cached(i) PROVE CachedSide(i) \in Side
    <3>1. PICK n \in 1..Len(lru) : lru[n].side = CachedSide(i)
      BY <2>4, CachedFacts
    <3>2. lru[n] \in CacheEntry
      BY <1>0
    <3>3. QED
      BY <3>1, <3>2, SideFields
  <2>5. side \in Side
    BY <2>1, <2>4
  <2>6. /\ lru' = Touch(lru, i, side)
        /\ UNCHANGED <<ledger, index, unreadable, hashes, table, durable, binary, proc, history>>
    BY <1>4 DEF RecordPayload
  <2> HIDE DEF i, side
  <2>7. lru' \in Seq(CacheEntry) /\ Len(lru') <= Capacity
    BY <1>0, <1>e, <2>1, <2>5, <2>6, TouchFacts
  <2>8. WaveLeaves' = WaveLeaves
    BY <2>6 DEF WaveLeaves, Leaves
  <2>9. QED
    BY <2>3, <2>6, <2>7, <2>8 DEF WaveTypes, proc, history, answers, sqlite
<1>5. ASSUME NEW c \in Client, NEW ok \in BOOLEAN, RecordRow(c, ok) PROVE WaveTypes'
  <2> DEFINE i == req[c].leaf
  <2>1. req[c].side \in Side /\ i \in 1..MaxLeaves /\ i \in WaveLeaves /\ req[c].created \in BOOLEAN
    BY <1>0, <1>p, <1>5, RequestFields DEF RecordRow, Posting
  <2>2. req' \in [Client -> Request]
    BY <1>0, <1>5 DEF RecordRow, Goto
  <2>3. /\ table' \in [1..MaxLeaves -> Side \cup {NoSide}]
        /\ unwritten' \subseteq unwritten \cup {i}
    BY <1>5, <2>1, InsertRowFacts DEF RecordRow, Inserted
  <2>4. fresh' \in [1..MaxLeaves -> 0..2]
    BY <1>0, <1>5, <2>1 DEF RecordRow, answers
  <2>5. /\ hashes' = hashes \cup {i} /\ acked' \subseteq acked \cup {i}
        /\ UNCHANGED <<ledger, index, unreadable, lru, durable, binary, proc, blind, misread>>
    BY <1>5 DEF RecordRow, answers
  <2>6. WaveLeaves' = WaveLeaves
    BY <2>5 DEF WaveLeaves, Leaves
  <2>7. QED
    BY <2>1, <2>2, <2>3, <2>4, <2>5, <2>6 DEF WaveTypes, proc
<1>6. ASSUME NEW c \in Client, Drop(c) \/ VerifyBegin(c) \/ VerifyReply(c) PROVE WaveTypes'
  <2>1. UNCHANGED <<ledger, memory, table, durable, binary, proc, history>>
    BY <1>6 DEF Drop, VerifyBegin, VerifyReply
  <2>2. index \subseteq 1..MaxLeaves
    BY WaveLeafFields DEF WaveTypes
  <2>3. [at |-> "verify", todo |-> index, chain |-> {}] \in Request
    BY <2>2 DEF Request
  <2>4. req' \in [Client -> Request]
    BY <1>0, <1>6, <2>3 DEF Drop, VerifyBegin, VerifyReply, Goto
  <2>5. WaveLeaves' = WaveLeaves
    BY <2>1 DEF WaveLeaves, Leaves
  <2>6. QED
    BY <2>1, <2>4, <2>5 DEF WaveTypes, memory, proc, history, answers, sqlite
<1>7. ASSUME NEW c \in Client, LookupStep(c) PROVE WaveTypes'
  <2>1. UNCHANGED <<ledger, index, unreadable, hashes, table, durable, binary, proc, history>>
    BY <1>7, LookupFacts
  <2>2. WaveLeaves' = WaveLeaves
    BY <2>1 DEF WaveLeaves, Leaves
  <2>3. req' \in [Client -> Request]
    BY <1>0, <1>7, LookupShape
  <2>4. lru' \in Seq(CacheEntry) /\ Len(lru') <= Capacity
    <3>1. CASE lru' = lru
      BY <1>0, <3>1
    <3>2. ASSUME NEW i \in 1..MaxLeaves, NEW side \in Side, lru' = Touch(lru, i, side)
          PROVE  lru' \in Seq(CacheEntry) /\ Len(lru') <= Capacity
      BY <1>0, <1>e, <3>2, TouchFacts
    <3>3. QED
      BY <1>7, <3>1, <3>2, LookupShape
  <2>5. QED
    BY <2>1, <2>2, <2>3, <2>4 DEF WaveTypes, proc, history, answers, sqlite
<1>8. CASE Stop
  <2>1. /\ lru' \in Seq(CacheEntry) /\ Len(lru') <= Capacity
        /\ table' \in [1..MaxLeaves -> Side \cup {NoSide}] /\ req' \in [Client -> Request]
        /\ stops' \in 0..MaxStops
    BY <1>0, <1>8 DEF Stop
  <2>2. /\ index' = {} /\ unreadable' = {} /\ hashes' = {} /\ todo' = {} /\ mode' = "down"
        /\ UNCHANGED <<ledger, durable, binary, history>>
    BY <1>8 DEF Stop
  <2>3. WaveLeaves' = WaveLeaves
    BY <2>2 DEF WaveLeaves, Leaves
  <2>4. QED
    BY <2>1, <2>2, <2>3 DEF WaveTypes, history, answers, sqlite
<1>9. ASSUME NEW bin \in {"new", "old"}, Boot(bin) \/ BootBlind(bin)
      PROVE  WaveTypes'
  <2>1. /\ UNCHANGED <<ledger, memory, table, durable, stops, req, answers>>
        /\ binary' = bin /\ blind' \in BOOLEAN /\ misread' = {} /\ unwritten' = {}
        /\ mode' \in {"booting", "serving"} /\ todo' \in {WaveLeaves, todo}
    BY <1>9 DEF Boot, BootBlind
  <2>2. WaveLeaves' = WaveLeaves
    BY <2>1 DEF WaveLeaves, Leaves
  <2>3. QED
    BY <2>1, <2>2 DEF WaveTypes, memory, answers
<1>10. ASSUME NEW read \in BOOLEAN, NEW write \in BOOLEAN, Rebuild(read, write) PROVE WaveTypes'
  <2> DEFINE i == NextToDo
  <2>1. i \in todo /\ i \in WaveLeaves /\ i \in 1..MaxLeaves
    BY <1>10, NextToDoFacts, WaveLeafFields DEF Rebuild
  <2>2. /\ todo' = todo \ {i}
        /\ UNCHANGED <<ledger, durable, binary, mode, stops, req, answers, blind>>
        /\ RebuildReadable(i, read, write) \/ RebuildUnreadable(i)
    BY <1>10 DEF Rebuild
  <2>3. WaveLeaves' = WaveLeaves
    BY <2>2 DEF WaveLeaves, Leaves
  <2> HIDE DEF i
  <2>4. CASE RebuildUnreadable(i)
    BY <2>1, <2>2, <2>3, <2>4 DEF WaveTypes, answers, sqlite, RebuildUnreadable
  <2>5. CASE RebuildReadable(i, read, write)
    <3>1. PICK side \in Side :
            /\ lru' = Touch(lru, i, side) /\ Restored(i, side)
            /\ index' = index \cup {i} /\ hashes' = hashes \cup {i} /\ unreadable' = unreadable
            /\ misread' \subseteq misread \cup {i}
            /\ table' \in [1..MaxLeaves -> Side \cup {NoSide}]
      BY <2>1, <2>5, RebuildFacts
    <3>2. lru' \in Seq(CacheEntry) /\ Len(lru') <= Capacity
      BY <1>0, <1>e, <2>1, <3>1, TouchFacts
    <3>3. unwritten' \subseteq unwritten \cup {i}
      BY <3>1 DEF Restored, Inserted
    <3>4. QED
      BY <2>1, <2>2, <2>3, <3>1, <3>2, <3>3 DEF WaveTypes, answers
  <2>6. QED
    BY <2>2, <2>4, <2>5
<1>11. CASE Serve
  <2>1. /\ UNCHANGED <<ledger, memory, table, durable, binary, todo, stops, req, history>>
        /\ mode' = "serving"
    BY <1>11 DEF Serve
  <2>2. WaveLeaves' = WaveLeaves
    BY <2>1 DEF WaveLeaves, Leaves
  <2>3. QED
    BY <2>1, <2>2 DEF WaveTypes, memory, history, answers, sqlite
<1>12. CASE UNCHANGED vars
  BY <1>12 DEF vars, WaveTypes, WaveLeaves, Leaves, memory, proc, history, answers, sqlite
<1>13. QED
  BY <1>1, <1>2, <1>3, <1>4, <1>5, <1>6, <1>7, <1>8, <1>9, <1>10, <1>11, <1>12, WaveCases
     DEF RowStep, RebuildStep

-----------------------------------------------------------------------------
(***************************************************************************)
(* Who runs when.                                                          *)
(***************************************************************************)

LEMMA ModeStep ==
    ASSUME WaveTypes, ModeInv, [Next]_vars
    PROVE  ModeInv'
<1>0. /\ req \in [Client -> Request] /\ stops \in Nat
      /\ mode \in {"down", "booting", "serving"}
      /\ \A c \in Client : req[c].at # "idle" => mode = "serving"
  BY Bounds DEF WaveTypes, ModeInv, Idle
<1>1. ASSUME NEW c \in Client, NEW i \in 1..MaxLeaves, NEW side \in Side, NEW created \in BOOLEAN,
             Appended(c, i, side, created)
      PROVE  ModeInv'
  BY <1>1 DEF Appended, ModeInv, proc
<1>2. CASE Audited
  BY <1>2 DEF Audited, ModeInv, proc, memory
<1>3. ASSUME NEW c \in Client,
             \/ RecordLeaf(c) \/ RecordPayload(c) \/ RowStep(c)
             \/ VerifyBegin(c) \/ LookupStep(c) \/ VerifyReply(c)
      PROVE  ModeInv'
  <2>1. mode = "serving" /\ mode' = mode
    BY <1>0, <1>3 DEF RecordLeaf, RecordPayload, RowStep, RecordRow, VerifyBegin, LookupStep,
         VerifyHit, VerifyRead, VerifyFill, Looking, VerifyReply, Answering, proc
  <2>2. QED
    BY <2>1 DEF ModeInv
<1>4. ASSUME NEW c \in Client, Drop(c) PROVE ModeInv'
  BY <1>0, <1>4 DEF Drop, ModeInv, proc, Goto
<1>5. CASE Stop
  BY <1>0, <1>5 DEF Stop, ModeInv
<1>6. ASSUME NEW bin \in {"new", "old"}, Boot(bin) \/ BootBlind(bin)
      PROVE  ModeInv'
  BY <1>6 DEF Boot, BootBlind, ModeInv
<1>7. CASE RebuildStep \/ Serve
  BY <1>7 DEF RebuildStep, Rebuild, Serve, ModeInv
<1>8. CASE UNCHANGED vars
  BY <1>8 DEF vars, ModeInv, proc, memory
<1>9. QED
  BY <1>1, <1>2, <1>3, <1>4, <1>5, <1>6, <1>7, <1>8, WaveCases

-----------------------------------------------------------------------------
(***************************************************************************)
(* Every copy of a side value is right.                                    *)
(***************************************************************************)

Right(i, side) == Matches(i, side) /\ Standing(i, side)

\* What a handler may come to hold: a posted side that was verified, entries
\* that are right.
Holds(r) ==
    /\ r.at \in {"index", "cache", "table"} =>
          Matches(r.leaf, r.side) /\ Verified(r.side) /\ Readable(r.side.rec, binary)
    /\ r.at \in {"verify", "fill"} => \A e \in r.chain : Right(e.leaf, e.side)
    /\ r.at = "fill" => Right(r.leaf, r.side)

LEMMA SidesHold == SidesInv => \A c \in Client : Holds(req[c])
BY DEF SidesInv, Holds, Right, Posting

\* A row that a step may add.
NewRow(i, row) ==
    /\ table[i] = NoSide /\ Matches(i, row)
    /\ Verified(row) \/ (stops > 0 /\ row = FromLedger(i))

\* What sqlite failed at is not forgotten while the process runs.
SqliteGrows == misread \subseteq misread' /\ unwritten \subseteq unwritten'

\* A step keeps it if what is new is right.
LEMMA SidesKept ==
    ASSUME WaveTypes, SidesInv, Grows, UNCHANGED <<stops, binary>>, SqliteGrows,
           \A i \in 1..MaxLeaves : table'[i] = table[i] \/ NewRow(i, table'[i]),
           \A n \in 1..Len(lru') : \/ \E m \in 1..Len(lru) : lru'[n] = lru[m]
                                   \/ Right(lru'[n].leaf, lru'[n].side)
                                   \/ Right(lru[n].leaf, lru[n].side)',
           \A c \in Client : Holds(req'[c]) \/ Holds(req[c])'
    PROVE  SidesInv'
<1>1. \A i, side : Matches(i, side) => Matches(i, side)'
  BY GrowsFacts DEF Matches
<1>2. ASSUME NEW i, NEW side, Right(i, side) PROVE Right(i, side)'
  <2>1. i \in WaveLeaves /\ i \in 1..MaxLeaves /\ Matches(i, side)' /\ Standing(i, side)
    BY <1>1, <1>2, WaveLeafFields DEF Right, Matches
  <2>2. FromLedger(i)' = FromLedger(i)
    BY <2>1, GrowsFacts
  <2>3. table[i] # NoSide => table'[i] = table[i]
    BY <2>1 DEF NewRow
  <2>4. Standing(i, side)'
    BY <2>1, <2>2, <2>3 DEF Standing, Verified, SqliteGrows
  <2>5. QED
    BY <2>1, <2>4 DEF Right
<1>3. \A n \in 1..Len(lru') : \/ Right(lru'[n].leaf, lru'[n].side)
                               \/ Right(lru[n].leaf, lru[n].side)'
  BY DEF SidesInv, Right
<1>4. ASSUME NEW n \in 1..Len(lru') PROVE Right(lru[n].leaf, lru[n].side)'
  <2> SUFFICES ASSUME Right(lru'[n].leaf, lru'[n].side) PROVE Right(lru[n].leaf, lru[n].side)'
    BY <1>3
  <2>1. PICK e : e = lru'[n]
    OBVIOUS
  <2>2. Right(e.leaf, e.side)'
    BY <1>2, <2>1
  <2>3. QED
    BY <2>1, <2>2 DEF Right, Matches, Standing
<1>5. ASSUME NEW i \in 1..MaxLeaves, table'[i] # NoSide
      PROVE  /\ Matches(i, table[i])'
             /\ (Verified(table[i]) \/ (stops > 0 /\ table[i] = FromLedger(i)))'
  <2>1. PICK row : row = table'[i]
    OBVIOUS
  <2>2. /\ Matches(i, row) /\ i \in WaveLeaves
        /\ Verified(row) \/ (stops > 0 /\ row = FromLedger(i))
    BY <1>5, <2>1 DEF SidesInv, Matches, NewRow
  <2>3. FromLedger(i)' = FromLedger(i) /\ Matches(i, row)'
    BY <1>1, <2>2, GrowsFacts
  <2>4. QED
    BY <2>1, <2>2, <2>3 DEF Matches, Verified
<1>6. ASSUME NEW c \in Client PROVE Holds(req[c])'
  <2> SUFFICES ASSUME Holds(req'[c]) PROVE Holds(req[c])'
    OBVIOUS
  <2>1. PICK r : r = req'[c]
    OBVIOUS
  <2>2. Holds(r)
    BY <2>1
  <2>3. Holds(r)'
    BY <1>1, <1>2, <2>2 DEF Holds
  <2>4. QED
    BY <2>1, <2>3 DEF Holds, Right, Matches, Standing
<1>7. QED
  BY <1>4, <1>5, <1>6 DEF SidesInv, Right, Holds, Posting

LEMMA SidesInit == Init => SidesInv
BY Bounds DEF Init, SidesInv, Posting, Idle

\* Each step keeps it.
LEMMA SidesStep ==
    ASSUME WaveTypes, WaveTypes', ModeInv, SidesInv, [Next]_vars
    PROVE  SidesInv'
<1>0. /\ lru \in Seq(CacheEntry) /\ lru' \in Seq(CacheEntry)
      /\ req \in [Client -> Request] /\ req' \in [Client -> Request]
      /\ table \in [1..MaxLeaves -> Side \cup {NoSide}]
      /\ table' \in [1..MaxLeaves -> Side \cup {NoSide}]
      /\ Len(lru) \in Nat /\ Len(lru') \in Nat /\ Idle.at = "idle"
      /\ stops \in Nat
  BY Bounds DEF WaveTypes, Idle
<1>h. \A c \in Client : Holds(req[c])
  BY SidesHold
<1>i. Holds(Idle) /\ Holds(Idle)'
  BY <1>0 DEF Holds
<1>g. Grows
  BY LedgerGrows
<1>q. ASSUME UNCHANGED history PROVE SqliteGrows
  BY <1>q DEF history, sqlite, SqliteGrows
<1>l. ASSUME lru' = lru
      PROVE  \A n \in 1..Len(lru') : \/ \E m \in 1..Len(lru) : lru'[n] = lru[m]
                                     \/ Right(lru'[n].leaf, lru'[n].side)
  BY <1>l
<1>t. ASSUME NEW i \in 1..MaxLeaves, NEW side \in Side, lru' = Touch(lru, i, side), Right(i, side)
      PROVE  \A n \in 1..Len(lru') : \/ \E m \in 1..Len(lru) : lru'[n] = lru[m]
                                     \/ Right(lru'[n].leaf, lru'[n].side)
  <2>1. PICK e : e = [leaf |-> i, side |-> side]
    OBVIOUS
  <2>2. e \in CacheEntry /\ e.leaf = i /\ e.side = side
    BY <2>1 DEF CacheEntry
  <2>3. \A n \in 1..Len(lru') : lru'[n] = e \/ \E m \in 1..Len(lru) : lru'[n] = lru[m]
    BY <1>0, <1>t, <2>1, <2>2, TouchFacts
  <2>4. QED
    BY <1>t, <2>2, <2>3
<1>c. ASSUME NEW i, NEW side, NEW n \in 1..Len(lru), lru[n].leaf = i, side = lru[n].side
      PROVE  Right(i, side)
  BY <1>c DEF SidesInv, Right
\* A row of the table is right to show.
<1>r. ASSUME NEW i \in 1..MaxLeaves, table[i] # NoSide PROVE Right(i, table[i])
  BY <1>r DEF SidesInv, Right, Standing
<1>1. ASSUME NEW c \in Client, NEW i \in 1..MaxLeaves, NEW side \in Side, NEW created \in BOOLEAN,
             Appended(c, i, side, created)
      PROVE  SidesInv'
  <2> DEFINE r == [at |-> "index", leaf |-> i, side |-> side, created |-> created]
  <2>1. r.at = "index" /\ r.leaf = i /\ r.side = side
    OBVIOUS
  <2>2. /\ req'[c] = r /\ (\A d \in Client \ {c} : req'[d] = req[d])
        /\ UNCHANGED <<memory, table, durable, binary, proc, history>>
        /\ Readable(side.rec, binary) /\ Verified(side)
    BY <1>0, <1>1 DEF Appended
  <2> HIDE DEF r
  <2>3. Matches(i, side)'
    <3>1. CASE created
      <4>1. ledger' = Append(ledger, WaveLeaf(side)) /\ i = Len(ledger) + 1
        BY <1>1, <3>1 DEF Appended
      <4>2. /\ WaveLeaf(side) \in Leaf /\ WaveLeaf(side).kind = "wave"
            /\ WaveLeaf(side).rec = side.rec /\ WaveLeaf(side).mac = side.mac
        BY SideFields DEF WaveLeaf, Leaf
      <4>3. ledger \in Seq(Leaf) /\ Len(ledger) \in Nat
        BY DEF WaveTypes
      <4>4. ledger'[i] = WaveLeaf(side) /\ i \in 1..Len(ledger')
        BY <4>1, <4>2, <4>3
      <4>5. QED
        BY <4>2, <4>4 DEF Matches, WaveLeaves, Leaves
    <3>2. CASE ~created
      <4>1. ledger' = ledger /\ i \in WaveLeaves /\ ledger[i] = WaveLeaf(side)
        BY <1>1, <3>2 DEF Appended
      <4>2. WaveLeaf(side).rec = side.rec /\ WaveLeaf(side).mac = side.mac
        BY DEF WaveLeaf
      <4>3. QED
        BY <4>1, <4>2 DEF Matches, WaveLeaves, Leaves
    <3>3. QED
      BY <3>1, <3>2
  <2>4. Holds(r)'
    BY <2>1, <2>2, <2>3 DEF Holds, Verified
  <2>5. \A d \in Client : Holds(req'[d]) \/ Holds(req[d])'
    <3>1. Holds(req[c])'
      BY <2>2, <2>4 DEF Holds, Matches, Right, Standing, r
    <3>2. QED
      BY <1>h, <2>2, <3>1
  <2>6. QED
    BY <1>g, <1>l, <1>q, <2>2, <2>5, SidesKept DEF memory, proc
<1>2. CASE Audited
  <2>1. UNCHANGED <<memory, table, binary, proc, req, history>>
    BY <1>2 DEF Audited
  <2>2. SqliteGrows
    BY <1>q, <2>1
  <2>3. QED
    BY <1>g, <1>h, <1>l, <2>1, <2>2, SidesKept DEF memory, proc
<1>3. ASSUME NEW c \in Client, RecordLeaf(c) PROVE SidesInv'
  <2>1. req[c] \in [at : {"index", "cache", "table"}, leaf : 1..MaxLeaves,
                    side : Side, created : BOOLEAN]
    BY <1>0, <1>3, RequestFields DEF RecordLeaf
  <2> DEFINE r == [req[c] EXCEPT !.at = "cache"]
  <2>2. r.at = "cache" /\ r.leaf = req[c].leaf /\ r.side = req[c].side
    BY <2>1
  <2>3. /\ req'[c] = r /\ (\A d \in Client \ {c} : req'[d] = req[d])
        /\ UNCHANGED <<lru, table, binary, proc, history>>
    BY <1>0, <1>3 DEF RecordLeaf, Goto
  <2> HIDE DEF r
  <2>4. Holds(r)
    BY <1>3, <1>h, <2>2 DEF Holds, RecordLeaf
  <2>5. QED
    BY <1>g, <1>h, <1>l, <1>q, <2>3, <2>4, SidesKept DEF proc
<1>4. ASSUME NEW c \in Client, RecordPayload(c) PROVE SidesInv'
  <2> DEFINE i == req[c].leaf
             side == IF Cached(i) THEN CachedSide(i) ELSE req[c].side
             r == [req[c] EXCEPT !.at = "table"]
  <2>1. /\ req[c] \in [at : {"index", "cache", "table"}, leaf : 1..MaxLeaves,
                       side : Side, created : BOOLEAN]
        /\ req[c].side \in Side /\ i \in 1..MaxLeaves /\ req[c].at = "cache"
    BY <1>0, <1>4, RequestFields DEF RecordPayload
  <2>2. r.at = "table" /\ r.leaf = i /\ r.side = req[c].side
    BY <2>1
  <2>3. /\ req'[c] = r /\ (\A d \in Client \ {c} : req'[d] = req[d])
        /\ lru' = Touch(lru, i, side) /\ UNCHANGED <<table, binary, proc, history>>
    BY <1>0, <1>4 DEF RecordPayload, Goto
  <2> HIDE DEF r
  <2>4. Holds(r)
    BY <1>h, <2>1, <2>2 DEF Holds
  <2>5. side \in Side /\ Right(i, side)
    <3>1. CASE Cached(i)
      <4>1. PICK n \in 1..Len(lru) : lru[n].leaf = i /\ lru[n].side = CachedSide(i)
        BY <3>1, CachedFacts
      <4>2. lru[n] \in CacheEntry
        BY <1>0
      <4>3. QED
        BY <1>c, <3>1, <4>1, <4>2, SideFields
    <3>2. CASE ~Cached(i)
      BY <1>h, <2>1, <3>2 DEF Holds, Right, Standing
    <3>3. QED
      BY <3>1, <3>2
  <2> HIDE DEF i, side
  <2>6. \A n \in 1..Len(lru') : \/ \E m \in 1..Len(lru) : lru'[n] = lru[m]
                                \/ Right(lru'[n].leaf, lru'[n].side)
    BY <1>t, <2>1, <2>3, <2>5
  <2>7. \A d \in Client : Holds(req'[d])
    BY <1>h, <2>3, <2>4
  <2>8. QED
    BY <1>g, <1>q, <2>3, <2>6, <2>7, SidesKept DEF proc
<1>5. ASSUME NEW c \in Client, Drop(c) \/ VerifyBegin(c) \/ VerifyReply(c) PROVE SidesInv'
  <2> DEFINE r == [at |-> "verify", todo |-> index, chain |-> {}]
  <2>1. r.at = "verify" /\ r.chain = {}
    OBVIOUS
  <2>2. /\ req'[c] \in {Idle, r} /\ (\A d \in Client \ {c} : req'[d] = req[d])
        /\ UNCHANGED <<memory, table, binary, proc, history>>
    BY <1>0, <1>5 DEF Drop, VerifyBegin, VerifyReply, Goto
  <2> HIDE DEF r
  <2>3. Holds(r)
    BY <2>1 DEF Holds
  <2>4. QED
    BY <1>g, <1>h, <1>i, <1>l, <1>q, <2>2, <2>3, SidesKept DEF memory, proc
<1>6. ASSUME NEW c \in Client, LookupStep(c) PROVE SidesInv'
  <2>1. /\ UNCHANGED <<table, binary, proc>> /\ SqliteGrows
        /\ req[c].at \in {"verify", "fill"}
    BY <1>6, <1>q, LookupFacts
  <2>2. CASE req' = [req EXCEPT ![c] = Idle] /\ lru' = lru
    <3>1. req'[c] = Idle /\ \A d \in Client \ {c} : req'[d] = req[d]
      BY <1>0, <2>2
    <3>2. QED
      BY <1>g, <1>h, <1>i, <1>l, <2>1, <2>2, <3>1, SidesKept DEF proc
  <2>3. ASSUME NEW i \in 1..MaxLeaves, NEW side \in Side, Loaded(c, i, side)
        PROVE  SidesInv'
    <3> DEFINE r == [at |-> "fill", leaf |-> i, side |-> side,
                     todo |-> req[c].todo, chain |-> req[c].chain]
    <3>1. Right(i, side)
      BY <1>r, <2>3 DEF Loaded
    <3>2. r.at = "fill" /\ r.leaf = i /\ r.side = side /\ r.chain = req[c].chain
      OBVIOUS
    <3>3. lru' = lru /\ req'[c] = r /\ \A d \in Client \ {c} : req'[d] = req[d]
      BY <1>0, <2>3 DEF Loaded
    <3> HIDE DEF r
    <3>4. Holds(r)
      BY <1>h, <2>1, <3>1, <3>2 DEF Holds
    <3>5. \A d \in Client : Holds(req'[d])
      BY <1>h, <3>3, <3>4
    <3>6. QED
      BY <1>g, <1>l, <2>1, <3>3, <3>5, SidesKept DEF proc
  <2>4. ASSUME NEW i \in 1..MaxLeaves, NEW side \in Side, Shown(c, i, side)
        PROVE  SidesInv'
    <3>1. Right(i, side)
      BY <1>c, <1>h, <2>4 DEF Shown, Holds
    <3> DEFINE e == [leaf |-> i, side |-> side]
               r == [at |-> "verify", todo |-> req[c].todo \ {i}, chain |-> req[c].chain \cup {e}]
    <3>2. r.at = "verify" /\ r.chain = req[c].chain \cup {e} /\ e.leaf = i /\ e.side = side
      OBVIOUS
    <3>3. req'[c] = r /\ \A d \in Client \ {c} : req'[d] = req[d]
      BY <1>0, <2>4 DEF Shown
    <3> HIDE DEF e, r
    <3>4. Holds(r)
      BY <1>h, <2>1, <3>1, <3>2 DEF Holds
    <3>5. \A n \in 1..Len(lru') : \/ \E m \in 1..Len(lru) : lru'[n] = lru[m]
                                  \/ Right(lru'[n].leaf, lru'[n].side)
      BY <1>t, <2>4, <3>1 DEF Shown
    <3>6. \A d \in Client : Holds(req'[d])
      BY <1>h, <3>3, <3>4
    <3>7. QED
      BY <1>g, <2>1, <3>5, <3>6, SidesKept DEF proc
  <2>5. QED
    BY <1>6, <2>2, <2>3, <2>4, LookupFacts
<1>7. ASSUME NEW c \in Client, NEW ok \in BOOLEAN, RecordRow(c, ok) PROVE SidesInv'
  <2> PICK i \in 1..MaxLeaves, side \in Side : i = req[c].leaf /\ side = req[c].side
    BY <1>0, <1>7, RequestFields DEF RecordRow
  <2>1. /\ Matches(i, side) /\ Verified(side) /\ req[c].at = "table"
        /\ UNCHANGED <<ledger, lru, binary, proc, misread>>
        /\ InsertRow(i, side, ok)
        /\ req'[c] = Idle /\ (\A d \in Client \ {c} : req'[d] = req[d])
    BY <1>0, <1>7, <1>h DEF RecordRow, Goto, Holds
  <2>2. Inserted(i, side)
    BY <2>1, InsertRowFacts
  <2>3. \A j \in 1..MaxLeaves : table'[j] = table[j] \/ NewRow(j, table'[j])
    BY <1>0, <2>1, <2>2 DEF Inserted, NewRow
  <2>4. SqliteGrows
    BY <2>1, <2>2 DEF Inserted, SqliteGrows
  <2>5. \A d \in Client : Holds(req'[d])
    BY <1>h, <1>i, <2>1
  <2>6. QED
    BY <1>g, <1>l, <2>1, <2>3, <2>4, <2>5, SidesKept DEF proc
\* With no handler and an empty LRU only the rows are left.
<1>8. ASSUME lru' = <<>>, \A c \in Client : req'[c] = Idle, ledger' = ledger,
             stops <= stops', \A i \in 1..MaxLeaves : table'[i] \in {table[i], NoSide}
      PROVE  SidesInv'
  <2>1. ASSUME NEW i \in 1..MaxLeaves, table'[i] # NoSide
        PROVE  /\ Matches(i, table[i])'
               /\ (Verified(table[i]) \/ (stops > 0 /\ table[i] = FromLedger(i)))'
    <3>1. /\ table'[i] = table[i] /\ Matches(i, table[i])
          /\ Verified(table[i]) \/ (stops > 0 /\ table[i] = FromLedger(i))
      BY <1>8, <2>1 DEF SidesInv
    <3>2. stops > 0 => stops' > 0
      BY <1>0, <1>8 DEF WaveTypes
    <3>3. QED
      BY <1>8, <3>1, <3>2 DEF Matches, Verified, FromLedger, WaveLeaves, Leaves
  <2>2. Len(lru') = 0
    BY <1>8
  <2>3. \A c \in Client : ~Posting(c)' /\ req'[c].at \notin {"verify", "fill"}
    BY <1>0, <1>8 DEF Posting
  <2>4. QED
    BY <2>1, <2>2, <2>3 DEF SidesInv
<1>9. CASE Stop
  <2>1. /\ lru' = <<>> /\ ledger' = ledger /\ stops' = stops + 1
        /\ req' = [c \in Client |-> Idle]
        /\ table' = IF durable THEN table ELSE [i \in 1..MaxLeaves |-> NoSide]
    BY <1>9 DEF Stop
  <2>2. \A i \in 1..MaxLeaves : table'[i] \in {table[i], NoSide}
    BY <2>1
  <2>3. QED
    BY <1>0, <1>8, <2>1, <2>2
<1>10. ASSUME NEW bin \in {"new", "old"}, Boot(bin) \/ BootBlind(bin)
       PROVE  SidesInv'
  <2>1. UNCHANGED <<ledger, lru, table, stops, req>> /\ mode = "down"
    BY <1>10 DEF Boot, BootBlind, memory
  <2>2. lru = <<>> /\ \A c \in Client : req[c] = Idle
    BY <2>1 DEF ModeInv
  <2>3. QED
    BY <1>0, <1>8, <2>1, <2>2
<1>11. ASSUME NEW read \in BOOLEAN, NEW write \in BOOLEAN, Rebuild(read, write) PROVE SidesInv'
  <2> PICK i \in 1..MaxLeaves : i = NextToDo /\ i \in WaveLeaves
    BY <1>11, NextToDoFacts, WaveLeafFields DEF Rebuild
  <2>1. /\ UNCHANGED <<ledger, binary, stops, req>>
        /\ \/ Readable(ledger[i].rec, binary) /\ RebuildReadable(i, read, write)
           \/ RebuildUnreadable(i)
    BY <1>11 DEF Rebuild
  <2>2. (\A c \in Client : req[c] = Idle) /\ stops > 0
    BY <1>11 DEF Rebuild, ModeInv
  <2>3. \A c \in Client : Holds(req'[c])
    BY <1>i, <2>1, <2>2
  <2>4. CASE RebuildUnreadable(i)
    <3>1. UNCHANGED <<lru, table>> /\ SqliteGrows
      BY <2>4 DEF RebuildUnreadable, sqlite, SqliteGrows
    <3>2. QED
      BY <1>g, <1>l, <2>1, <2>3, <3>1, SidesKept
  <2>5. CASE Readable(ledger[i].rec, binary) /\ RebuildReadable(i, read, write)
    <3>1. PICK side \in Side : /\ lru' = Touch(lru, i, side) /\ Restored(i, side)
                              /\ misread \subseteq misread'
      BY <2>5, RebuildFacts
    <3>2. SqliteGrows
      BY <3>1 DEF Restored, Inserted, SqliteGrows
    <3>3. CASE table[i] # NoSide /\ side = table[i] /\ UNCHANGED <<table, unwritten>>
      <4>1. Right(i, side)
        BY <1>r, <3>3
      <4>2. QED
        BY <1>g, <1>t, <2>1, <2>3, <3>1, <3>2, <3>3, <4>1, SidesKept
    <3>4. CASE /\ side = FromLedger(i) /\ Inserted(i, side)
               /\ table[i] = NoSide \/ i \in misread' \/ ~Readable(table[i].rec, binary)
      <4>1. table[i] = NoSide \/ i \in misread'
        BY <2>5, <3>4 DEF SidesInv, Matches
      <4>2. Matches(i, side) /\ Matches(i, side)' /\ FromLedger(i)' = FromLedger(i)
        BY <2>1, <3>4 DEF Matches, FromLedger, WaveLeaves, Leaves
      <4>3. \A j \in 1..MaxLeaves : table'[j] = table[j] \/ NewRow(j, table'[j])
        BY <1>0, <2>2, <3>4, <4>2 DEF Inserted, NewRow
      <4>4. Standing(i, side)'
        <5>1. stops' > 0 /\ side = FromLedger(i)'
          BY <2>1, <2>2, <3>4, <4>2
        <5>2. CASE i \in misread' \/ i \in unwritten'
          BY <5>1, <5>2 DEF Standing
        <5>3. CASE table[i] = NoSide /\ i \notin unwritten'
          <6>1. table' = [table EXCEPT ![i] = side]
            BY <3>4, <5>3 DEF Inserted
          <6>2. table'[i] = side /\ side # NoSide
            BY <1>0, <6>1, SideFields
          <6>3. QED
            BY <5>1, <6>2 DEF Standing, Verified
        <5>4. QED
          BY <4>1, <5>2, <5>3
      <4>5. Right(i, side)'
        BY <4>2, <4>4 DEF Right
      <4>6. \A n \in 1..Len(lru') : \/ \E m \in 1..Len(lru) : lru'[n] = lru[m]
                                    \/ Right(lru[n].leaf, lru[n].side)'
        <5>1. PICK e : e = [leaf |-> i, side |-> side]
          OBVIOUS
        <5>2. e \in CacheEntry /\ e.leaf = i /\ e.side = side
          BY <5>1 DEF CacheEntry
        <5>3. \A n \in 1..Len(lru') : lru'[n] = e \/ \E m \in 1..Len(lru) : lru'[n] = lru[m]
          BY <1>0, <3>1, <5>1, <5>2, TouchFacts
        <5>4. ASSUME NEW n \in 1..Len(lru'), lru'[n] = e PROVE Right(lru[n].leaf, lru[n].side)'
          BY <4>5, <5>2, <5>4 DEF Right, Matches, Standing
        <5>5. QED
          BY <5>3, <5>4
      <4>7. QED
        BY <1>g, <2>1, <2>3, <3>2, <4>3, <4>6, SidesKept
    <3>5. QED
      BY <3>1, <3>3, <3>4 DEF Restored
  <2>6. QED
    BY <2>1, <2>4, <2>5
<1>12. CASE Serve \/ UNCHANGED vars
  <2>1. UNCHANGED <<ledger, lru, table, binary, stops, req>> /\ SqliteGrows
    BY <1>12, <1>q DEF Serve, vars, memory, proc
  <2>2. \A c \in Client : Holds(req'[c])
    BY <1>h, <2>1
  <2>3. QED
    BY <1>g, <1>l, <2>1, <2>2, SidesKept
<1>13. QED
  BY <1>1, <1>2, <1>3, <1>4, <1>5, <1>6, <1>7, <1>9, <1>10, <1>11, <1>12, WaveCases
     DEF RowStep, RebuildStep

-----------------------------------------------------------------------------
(***************************************************************************)
(* What was acknowledged resolves.                                         *)
(***************************************************************************)

LEMMA AckInit == Init => AckInv
BY DEF Init, AckInv, Idle

\* A step of a handler, or of the ledger, that takes nothing away.
LEMMA AckKept ==
    ASSUME WaveTypes, AckInv, Grows, UNCHANGED <<acked, unreadable, binary, mode, todo, blind>>,
           unwritten \subseteq unwritten',
           index \subseteq index', hashes \subseteq hashes',
           \A i \in index' \cup hashes' : i \in WaveLeaves /\ Readable(ledger[i].rec, binary),
           \A i \in 1..MaxLeaves : table[i] # NoSide => table'[i] # NoSide,
           mode = "booting" => lru' = lru,
           \A c \in Client : req'[c].at \in {"cache", "table"} => req'[c].leaf \in index'
    PROVE  AckInv'
<1>1. \A i \in index' \cup hashes' : Readable(ledger[i].rec, binary)'
  BY GrowsFacts DEF Readable
<1>2. \A i \in acked : i \in 1..MaxLeaves
  BY WaveLeafFields DEF WaveTypes
<1>3. \A i \in acked : Resolves(i) => Resolves(i)'
  BY <1>2 DEF Resolves
<1>4. QED
  BY <1>1, <1>3 DEF AckInv

LEMMA AckStep ==
    ASSUME WaveTypes, ModeInv, SidesInv, AckInv, [Next]_vars
    PROVE  AckInv'
<1>0. /\ lru \in Seq(CacheEntry) /\ req \in [Client -> Request]
      /\ table \in [1..MaxLeaves -> Side \cup {NoSide}]
      /\ index \subseteq WaveLeaves /\ hashes \subseteq WaveLeaves /\ acked \subseteq WaveLeaves
      /\ Idle.at = "idle" /\ mode \in {"down", "booting", "serving"}
  BY DEF WaveTypes, Idle
<1>g. Grows
  BY LedgerGrows
<1>k. \A i \in index \cup hashes : i \in WaveLeaves /\ Readable(ledger[i].rec, binary)
  BY <1>0 DEF AckInv
<1>p. ASSUME NEW c \in Client, Posting(c)
      PROVE  /\ req[c].leaf \in WaveLeaves /\ Readable(ledger[req[c].leaf].rec, binary)
             /\ req[c].leaf \in 1..MaxLeaves /\ mode = "serving"
  <2>1. /\ req[c].leaf \in WaveLeaves /\ ledger[req[c].leaf].rec = req[c].side.rec
        /\ Readable(req[c].side.rec, binary)
    BY <1>p DEF SidesInv, Matches
  <2>2. mode = "serving"
    BY <1>0, <1>p DEF ModeInv, Posting
  <2>3. QED
    BY <2>1, <2>2, WaveLeafFields
\* A step of a handler that leaves the derived state, but for the LRU.
<1>s. ASSUME NEW c \in Client, NEW r, req'[c] = r, \A d \in Client \ {c} : req'[d] = req[d],
             r.at \notin {"cache", "table"} \/ r.leaf \in index,
             lru' = lru \/ mode = "serving",
             UNCHANGED <<index, unreadable, hashes, table, binary, proc, history>>
      PROVE  AckInv'
  <2>1. \A d \in Client : req'[d].at \in {"cache", "table"} => req'[d].leaf \in index'
    BY <1>s DEF AckInv
  <2>2. QED
    BY <1>g, <1>k, <1>s, <2>1, AckKept DEF proc, history, answers, sqlite
<1>1. ASSUME NEW c \in Client, NEW i \in 1..MaxLeaves, NEW side \in Side, NEW created \in BOOLEAN,
             Appended(c, i, side, created)
      PROVE  AckInv'
  <2> DEFINE r == [at |-> "index", leaf |-> i, side |-> side, created |-> created]
  <2>1. r.at = "index"
    OBVIOUS
  <2>2. /\ req'[c] = r /\ (\A d \in Client \ {c} : req'[d] = req[d])
        /\ UNCHANGED <<memory, table, binary, proc, history>>
    BY <1>0, <1>1 DEF Appended
  <2> HIDE DEF r
  <2>3. QED
    BY <1>s, <2>1, <2>2 DEF memory
<1>2. CASE Audited
  <2>1. UNCHANGED <<memory, table, binary, proc, req, history>>
    BY <1>2 DEF Audited
  <2>2. \A d \in Client : req'[d].at \in {"cache", "table"} => req'[d].leaf \in index'
    BY <2>1 DEF AckInv, memory
  <2>3. QED
    BY <1>g, <1>k, <2>1, <2>2, AckKept DEF memory, proc, history, answers, sqlite
<1>3. ASSUME NEW c \in Client, RecordLeaf(c) PROVE AckInv'
  <2> PICK i : i = req[c].leaf
    OBVIOUS
  <2>1. i \in WaveLeaves /\ Readable(ledger[i].rec, binary)
    BY <1>p, <1>3 DEF RecordLeaf, Posting
  <2>2. req[c] \in [at : {"index", "cache", "table"}, leaf : 1..MaxLeaves,
                    side : Side, created : BOOLEAN]
    BY <1>0, <1>3, RequestFields DEF RecordLeaf
  <2>3. /\ req'[c].leaf = i /\ (\A d \in Client \ {c} : req'[d] = req[d])
        /\ index' = index \cup {i}
        /\ UNCHANGED <<unreadable, lru, hashes, table, binary, proc, history>>
    BY <1>0, <1>3, <2>2 DEF RecordLeaf, Goto
  <2>4. \A d \in Client : req'[d].at \in {"cache", "table"} => req'[d].leaf \in index'
    BY <2>3 DEF AckInv
  <2>5. QED
    BY <1>g, <1>k, <2>1, <2>3, <2>4, AckKept DEF proc, history, answers, sqlite
<1>4. ASSUME NEW c \in Client, RecordPayload(c) PROVE AckInv'
  <2> DEFINE r == [req[c] EXCEPT !.at = "table"]
  <2>1. /\ req[c] \in [at : {"index", "cache", "table"}, leaf : 1..MaxLeaves,
                       side : Side, created : BOOLEAN]
        /\ req[c].at = "cache"
    BY <1>0, <1>4, RequestFields DEF RecordPayload
  <2>2. r.leaf = req[c].leaf /\ req[c].leaf \in index /\ mode = "serving"
    BY <1>p, <2>1 DEF AckInv, Posting
  <2>3. /\ req'[c] = r /\ (\A d \in Client \ {c} : req'[d] = req[d])
        /\ UNCHANGED <<index, unreadable, hashes, table, binary, proc, history>>
    BY <1>0, <1>4 DEF RecordPayload, Goto
  <2> HIDE DEF r
  <2>4. QED
    BY <1>s, <2>2, <2>3
<1>5. ASSUME NEW c \in Client, Drop(c) \/ VerifyBegin(c) \/ VerifyReply(c) PROVE AckInv'
  <2> DEFINE r == [at |-> "verify", todo |-> index, chain |-> {}]
  <2>1. r.at = "verify"
    OBVIOUS
  <2>2. /\ req'[c] \in {Idle, r} /\ (\A d \in Client \ {c} : req'[d] = req[d])
        /\ UNCHANGED <<memory, table, binary, proc, history>>
    BY <1>0, <1>5 DEF Drop, VerifyBegin, VerifyReply, Goto
  <2> HIDE DEF r
  <2>3. QED
    BY <1>0, <1>s, <2>1, <2>2 DEF memory
<1>6. ASSUME NEW c \in Client, LookupStep(c) PROVE AckInv'
  <2>1. /\ UNCHANGED <<index, unreadable, hashes, table, binary, proc, history>>
        /\ req[c].at \in {"verify", "fill"}
    BY <1>6, LookupFacts
  <2>2. mode = "serving"
    BY <1>0, <2>1 DEF ModeInv
  <2>3. PICK r \in Request : r.at \in {"idle", "verify", "fill"} /\ req' = [req EXCEPT ![c] = r]
    BY <1>6, LookupShape
  <2>4. req'[c] = r /\ \A d \in Client \ {c} : req'[d] = req[d]
    BY <1>0, <2>3
  <2>5. QED
    BY <1>s, <2>1, <2>2, <2>3, <2>4
<1>7. ASSUME NEW c \in Client, NEW ok \in BOOLEAN, RecordRow(c, ok) PROVE AckInv'
  <2> PICK i \in 1..MaxLeaves, side \in Side : i = req[c].leaf /\ side = req[c].side
    BY <1>0, <1>7, RequestFields DEF RecordRow
  <2>1. /\ req[c].at = "table" /\ hashes' = hashes \cup {i} /\ acked' \subseteq acked \cup {i}
        /\ InsertRow(i, side, ok)
        /\ UNCHANGED <<ledger, index, unreadable, lru, binary, proc, blind>>
        /\ req'[c] = Idle /\ (\A d \in Client \ {c} : req'[d] = req[d])
    BY <1>0, <1>7 DEF RecordRow, Goto, answers
  <2>2. i \in index /\ mode = "serving"
    BY <1>p, <2>1 DEF AckInv, Posting
  <2>3. /\ \A j \in 1..MaxLeaves : table[j] # NoSide => table'[j] # NoSide
        /\ i \in unwritten' \/ table'[i] # NoSide
        /\ unwritten \subseteq unwritten'
    <3>1. Inserted(i, side)
      BY <2>1, InsertRowFacts
    <3>2. QED
      BY <1>0, <3>1, SideFields DEF Inserted
  <2>4. \A j \in index' \cup hashes' : Readable(ledger[j].rec, binary)'
    BY <1>k, <2>1, <2>2 DEF Readable
  <2>5. ASSUME NEW j \in acked', ~blind, j \notin unreadable PROVE Resolves(j)'
    <3>1. CASE j = i
      BY <1>0, <2>1, <2>2, <2>3, <3>1 DEF Resolves, proc
    <3>2. CASE j \in acked
      <4>1. Resolves(j) /\ j \in 1..MaxLeaves
        BY <1>0, <2>2, <2>5, <3>2, WaveLeafFields DEF AckInv
      <4>2. QED
        BY <2>1, <2>3, <4>1 DEF Resolves, proc
    <3>3. QED
      BY <2>1, <3>1, <3>2
  <2>6. QED
    BY <1>0, <2>1, <2>2, <2>4, <2>5 DEF AckInv, proc
<1>8. CASE Stop
  <2>1. /\ index' = {} /\ hashes' = {} /\ mode' = "down" /\ req' = [c \in Client |-> Idle]
    BY <1>8 DEF Stop
  <2>2. QED
    BY <1>0, <2>1 DEF AckInv
<1>9. ASSUME NEW bin \in {"new", "old"}, Boot(bin) \/ BootBlind(bin)
      PROVE  AckInv'
  <2>1. /\ UNCHANGED <<memory, req, acked>> /\ mode = "down"
        /\ \/ mode' = "booting" /\ todo' = WaveLeaves
           \/ mode' = "serving" /\ blind'
    BY <1>9 DEF Boot, BootBlind, answers
  <2>2. lru = <<>> /\ index = {} /\ hashes = {} /\ \A c \in Client : req[c] = Idle
    BY <2>1 DEF ModeInv
  <2>3. QED
    BY <1>0, <2>1, <2>2 DEF AckInv, memory
<1>10. ASSUME NEW read \in BOOLEAN, NEW write \in BOOLEAN, Rebuild(read, write) PROVE AckInv'
  <2> PICK i \in 1..MaxLeaves : i = NextToDo /\ i \in WaveLeaves /\ i \in todo
    BY <1>10, NextToDoFacts, WaveLeafFields DEF Rebuild
  <2>1. /\ UNCHANGED <<ledger, binary, mode, req, answers, blind>> /\ mode = "booting"
        /\ todo' = todo \ {i}
        /\ \/ Readable(ledger[i].rec, binary) /\ RebuildReadable(i, read, write)
           \/ RebuildUnreadable(i)
    BY <1>10 DEF Rebuild
  <2>2. \A c \in Client : req[c] = Idle
    BY <2>1 DEF ModeInv
  <2>3. CASE RebuildUnreadable(i)
    <3>1. UNCHANGED <<index, lru, hashes, table, sqlite>> /\ unreadable' = unreadable \cup {i}
      BY <2>3 DEF RebuildUnreadable
    <3>2. QED
      BY <1>0, <2>1, <2>2, <3>1 DEF AckInv, Resolves, Readable, answers, sqlite
  <2>4. CASE Readable(ledger[i].rec, binary) /\ RebuildReadable(i, read, write)
    <3>1. PICK side \in Side :
            /\ lru' = Touch(lru, i, side) /\ Restored(i, side)
            /\ index' = index \cup {i} /\ hashes' = hashes \cup {i} /\ unreadable' = unreadable
      BY <2>4, RebuildFacts
    <3>3. (i \in unwritten' \/ table'[i] # NoSide) /\ unwritten \subseteq unwritten'
      BY <3>1 DEF Restored, Inserted
    <3>4. \A j \in 1..MaxLeaves : table[j] # NoSide => table'[j] # NoSide
      BY <1>0, <3>1, SideFields DEF Restored, Inserted
    <3>5. \A n \in 1..Len(lru') : lru'[n].leaf \notin todo'
      <4>1. PICK e : e = [leaf |-> i, side |-> side]
        OBVIOUS
      <4>2. e \in CacheEntry /\ e.leaf = i
        BY <4>1 DEF CacheEntry
      <4>3. \A n \in 1..Len(lru') : lru'[n] = e \/ \E m \in 1..Len(lru) : lru'[n] = lru[m]
        BY <1>0, <3>1, <4>1, <4>2, TouchFacts
      <4>4. QED
        BY <2>1, <4>2, <4>3 DEF AckInv
    <3>6. \A j \in index' \cup hashes' : Readable(ledger[j].rec, binary)'
      BY <1>k, <2>1, <2>4, <3>1 DEF Readable
    <3>7. ASSUME NEW j \in acked' PROVE j \in todo' \/ j \in unreadable' \/ Resolves(j)'
      <4>1. j \in acked /\ j \in 1..MaxLeaves
        BY <1>0, <2>1, WaveLeafFields DEF answers
      <4>2. CASE j = i
        BY <2>1, <3>1, <3>3, <4>2 DEF Resolves
      <4>3. CASE j # i
        BY <2>1, <3>1, <3>3, <3>4, <4>1, <4>3 DEF AckInv, Resolves
      <4>4. QED
        BY <4>2, <4>3
    <3>8. QED
      BY <1>0, <2>1, <2>2, <3>5, <3>6, <3>7 DEF AckInv
  <2>5. QED
    BY <2>1, <2>3, <2>4
<1>11. CASE Serve
  <2>1. /\ UNCHANGED <<ledger, memory, table, binary, req, history>>
        /\ mode = "booting" /\ todo = {} /\ mode' = "serving"
    BY <1>11 DEF Serve
  <2>2. QED
    BY <1>0, <2>1 DEF AckInv, Resolves, Readable, memory, history, answers, sqlite
<1>12. CASE UNCHANGED vars
  BY <1>12 DEF vars, AckInv, Resolves, Readable, memory, proc, history, answers, sqlite
<1>13. QED
  BY <1>1, <1>2, <1>3, <1>4, <1>5, <1>6, <1>7, <1>8, <1>9, <1>10, <1>11, <1>12, WaveCases
     DEF RowStep, RebuildStep

-----------------------------------------------------------------------------
(***************************************************************************)
(* A leaf has one creator.                                                 *)
(***************************************************************************)

LEMMA CreateInit == Init => CreateInv
BY DEF Init, CreateInv, WaveLeaves, Leaves, Owns, Posting, Idle

\* A step that adds no wave leaf, answers no 201 and gives no leaf an owner.
LEMMA CreateKept ==
    ASSUME CreateInv, fresh' = fresh, Len(ledger) <= Len(ledger'), WaveLeaves' = WaveLeaves,
           \A i \in WaveLeaves : ledger'[i] = ledger[i],
           \A c \in Client : \A i \in 1..MaxLeaves : Owns(c, i)' => Owns(c, i),
           WaveTypes, WaveTypes'
    PROVE  CreateInv'
<1>1. Len(ledger) \in Nat /\ Len(ledger') \in Nat
  BY DEF WaveTypes
<1>2. \A i, j \in WaveLeaves' : KeyOf(ledger'[i].rec) = KeyOf(ledger'[j].rec) => i = j
  BY DEF CreateInv
<1>3. \A i \in 1..MaxLeaves : fresh'[i] = 1 => i <= Len(ledger') /\ \A c \in Client : ~Owns(c, i)'
  BY <1>1 DEF CreateInv
<1>4. QED
  BY <1>2, <1>3 DEF CreateInv

LEMMA CreateStep ==
    ASSUME WaveTypes, WaveTypes', SidesInv, CreateInv, [Next]_vars
    PROVE  CreateInv'
<1>0. /\ req \in [Client -> Request] /\ fresh \in [1..MaxLeaves -> 0..2]
      /\ ledger \in Seq(Leaf) /\ ledger' \in Seq(Leaf)
      /\ Len(ledger) \in Nat /\ Len(ledger') \in Nat /\ Idle.at = "idle"
  BY DEF WaveTypes, Idle
<1>g. /\ Len(ledger) <= Len(ledger') /\ WaveLeaves \subseteq WaveLeaves'
      /\ \A i \in WaveLeaves : ledger'[i] = ledger[i]
  BY LedgerGrows, GrowsFacts
<1>p. ASSUME NEW c \in Client, NEW i \in 1..MaxLeaves, Owns(c, i) PROVE i \in 1..Len(ledger)
  BY <1>p DEF Owns, SidesInv, Matches, WaveLeaves, Leaves
\* A handler that changes, and creates nothing by it.
<1>s. ASSUME NEW c \in Client, NEW r, req'[c] = r, \A d \in Client \ {c} : req'[d] = req[d],
             \/ r.at \notin {"index", "cache", "table"}
             \/ ~r.created
             \/ Posting(c) /\ r.leaf = req[c].leaf /\ r.created = req[c].created,
             ledger' = ledger, fresh' = fresh
      PROVE  CreateInv'
  <2>1. WaveLeaves' = WaveLeaves
    BY <1>s DEF WaveLeaves, Leaves
  <2>2. \A d \in Client : \A i \in 1..MaxLeaves : Owns(d, i)' => Owns(d, i)
    BY <1>s DEF Owns, Posting
  <2>3. QED
    BY <1>g, <1>s, <2>1, <2>2, CreateKept
<1>1. ASSUME NEW c \in Client, NEW i \in 1..MaxLeaves, NEW side \in Side, NEW created \in BOOLEAN,
             Appended(c, i, side, created)
      PROVE  CreateInv'
  <2> DEFINE r == [at |-> "index", leaf |-> i, side |-> side, created |-> created]
  <2>1. r.at = "index" /\ r.leaf = i /\ r.created = created
    OBVIOUS
  <2>2. /\ req'[c] = r /\ (\A d \in Client \ {c} : req'[d] = req[d])
        /\ fresh' = fresh /\ req[c] = Idle
    BY <1>0, <1>1 DEF Appended, history, answers
  <2> HIDE DEF r
  <2>3. CASE ~created
    BY <1>1, <1>s, <2>1, <2>2, <2>3 DEF Appended
  <2>4. CASE created
    <3>1. /\ i = Len(ledger) + 1 /\ WithKey(side.rec) = {}
          /\ ledger' = Append(ledger, WaveLeaf(side))
      BY <1>1, <2>4 DEF Appended
    <3>2. WaveLeaf(side) \in Leaf /\ WaveLeaf(side).rec = side.rec
      BY SideFields DEF WaveLeaf, Leaf
    <3>3. Len(ledger') = Len(ledger) + 1 /\ ledger'[i] = WaveLeaf(side)
          /\ \A j \in 1..Len(ledger) : ledger'[j] = ledger[j]
      BY <1>0, <3>1, <3>2
    <3>4. \A j \in WaveLeaves' : j \in WaveLeaves \/ j = i
      BY <1>0, <3>1, <3>3 DEF WaveLeaves, Leaves
    <3>5. \A j \in WaveLeaves : KeyOf(ledger[j].rec) # KeyOf(side.rec) /\ ledger'[j] = ledger[j]
      BY <1>g, <3>1 DEF WithKey
    <3>6. ledger'[i].rec = side.rec
      BY <3>2, <3>3
    <3>7. \A j, k \in WaveLeaves' : KeyOf(ledger'[j].rec) = KeyOf(ledger'[k].rec) => j = k
      <4>1. \A j, k \in WaveLeaves : KeyOf(ledger[j].rec) = KeyOf(ledger[k].rec) => j = k
        BY DEF CreateInv
      <4>2. QED
        BY <3>4, <3>5, <3>6, <4>1
    <3>8. \A d \in Client : \A j \in 1..MaxLeaves :
             Owns(d, j)' => (d = c /\ j = i) \/ (d # c /\ Owns(d, j))
      BY <2>1, <2>2 DEF Owns, Posting
    <3>9. \A d \in Client : ~Owns(d, i)
      BY <1>0, <1>p, <3>1
    <3>10. fresh[i] # 1
      BY <1>0, <3>1 DEF CreateInv
    <3>11. ASSUME NEW j \in 1..MaxLeaves, NEW d \in Client, NEW e \in Client, Owns(d, j)', Owns(e, j)'
           PROVE  d = e
      <4>1. CASE j = i
        BY <3>8, <3>9, <3>11, <4>1
      <4>2. CASE j # i
        BY <3>8, <3>11, <4>2 DEF CreateInv
      <4>3. QED
        BY <4>1, <4>2
    <3>12. ASSUME NEW j \in 1..MaxLeaves, fresh'[j] = 1
           PROVE  j <= Len(ledger') /\ \A d \in Client : ~Owns(d, j)'
      <4>1. j # i /\ j <= Len(ledger) /\ \A d \in Client : ~Owns(d, j)
        BY <2>2, <3>10, <3>12 DEF CreateInv
      <4>2. QED
        BY <1>0, <3>3, <3>8, <4>1
    <3>13. \A j \in 1..MaxLeaves : fresh'[j] <= 1
      BY <2>2 DEF CreateInv
    <3>14. QED
      BY <3>7, <3>11, <3>12, <3>13 DEF CreateInv
  <2>5. QED
    BY <2>3, <2>4
<1>2. CASE Audited
  <2>1. PICK l \in Leaf : l.kind = "audit" /\ ledger' = Append(ledger, l)
    BY <1>2 DEF Audited
  <2>2. WaveLeaves' \subseteq WaveLeaves
    BY <1>0, <2>1 DEF WaveLeaves, Leaves
  <2>3. req' = req /\ fresh' = fresh
    BY <1>2 DEF Audited, history, answers
  <2>4. \A d \in Client : \A i \in 1..MaxLeaves : Owns(d, i)' => Owns(d, i)
    BY <2>3 DEF Owns, Posting
  <2>5. QED
    BY <1>g, <2>2, <2>3, <2>4, CreateKept
<1>3. ASSUME NEW c \in Client, RecordLeaf(c) \/ RecordPayload(c) PROVE CreateInv'
  <2>1. PICK a \in {"cache", "table"} : req' = [req EXCEPT ![c] = [req[c] EXCEPT !.at = a]]
    BY <1>3 DEF RecordLeaf, RecordPayload, Goto
  <2>2. Posting(c) /\ ledger' = ledger /\ fresh' = fresh
    BY <1>3 DEF RecordLeaf, RecordPayload, Posting, history, answers
  <2>3. req[c] \in [at : {"index", "cache", "table"}, leaf : 1..MaxLeaves,
                    side : Side, created : BOOLEAN]
    BY <1>0, <2>2, RequestFields DEF Posting
  <2> DEFINE r == [req[c] EXCEPT !.at = a]
  <2>4. r.leaf = req[c].leaf /\ r.created = req[c].created
    BY <2>3
  <2>5. req'[c] = r /\ \A d \in Client \ {c} : req'[d] = req[d]
    BY <1>0, <2>1
  <2> HIDE DEF r
  <2>6. QED
    BY <1>s, <2>2, <2>4, <2>5
<1>4. ASSUME NEW c \in Client, Drop(c) \/ VerifyBegin(c) \/ VerifyReply(c) PROVE CreateInv'
  <2> DEFINE r == [at |-> "verify", todo |-> index, chain |-> {}]
  <2>1. r.at = "verify"
    OBVIOUS
  <2>2. /\ req'[c] \in {Idle, r} /\ (\A d \in Client \ {c} : req'[d] = req[d])
        /\ ledger' = ledger /\ fresh' = fresh
    BY <1>0, <1>4 DEF Drop, VerifyBegin, VerifyReply, Goto, history, answers
  <2> HIDE DEF r
  <2>3. QED
    BY <1>0, <1>s, <2>1, <2>2
<1>5. ASSUME NEW c \in Client, LookupStep(c) PROVE CreateInv'
  <2>1. ledger' = ledger /\ fresh' = fresh
    BY <1>5, LookupFacts DEF history, answers
  <2>2. PICK r \in Request : r.at \in {"idle", "verify", "fill"} /\ req' = [req EXCEPT ![c] = r]
    BY <1>5, LookupShape
  <2>3. req'[c] = r /\ \A d \in Client \ {c} : req'[d] = req[d]
    BY <1>0, <2>2
  <2>4. QED
    BY <1>s, <2>1, <2>2, <2>3
\* The answer: the creator counts its leaf and is gone.
<1>6. ASSUME NEW c \in Client, NEW ok \in BOOLEAN, RecordRow(c, ok) PROVE CreateInv'
  <2> PICK i \in 1..MaxLeaves : i = req[c].leaf
    BY <1>0, <1>6, RequestFields DEF RecordRow
  <2>1. /\ req'[c] = Idle /\ (\A d \in Client \ {c} : req'[d] = req[d]) /\ ledger' = ledger
        /\ Posting(c) /\ req[c].created \in BOOLEAN
        /\ \/ fresh' = fresh
           \/ req[c].created /\ fresh' = [fresh EXCEPT ![i] = @ + 1]
    BY <1>0, <1>6, RequestFields DEF RecordRow, Goto, Posting, answers
  <2>2. CASE fresh' = fresh
    BY <1>0, <1>s, <2>1, <2>2
  <2>3. CASE req[c].created /\ fresh' = [fresh EXCEPT ![i] = @ + 1]
    <3>1. Owns(c, i)
      BY <2>1, <2>3 DEF Owns
    <3>2. fresh[i] = 0
      BY <1>0, <3>1 DEF CreateInv
    <3>3. fresh'[i] = 1 /\ \A j \in 1..MaxLeaves \ {i} : fresh'[j] = fresh[j]
      BY <1>0, <2>3, <3>2
    <3>4. \A d \in Client : \A j \in 1..MaxLeaves : Owns(d, j)' => d # c /\ Owns(d, j)
      BY <1>0, <2>1 DEF Owns, Posting
    <3>5. ASSUME NEW j \in 1..MaxLeaves, fresh'[j] = 1
          PROVE  j <= Len(ledger') /\ \A d \in Client : ~Owns(d, j)'
      <4>1. CASE j = i
        <5>1. \A d \in Client : Owns(d, i) => d = c
          BY <3>1 DEF CreateInv
        <5>2. i <= Len(ledger')
          BY <1>0, <1>p, <2>1, <3>1
        <5>3. QED
          BY <3>4, <4>1, <5>1, <5>2
      <4>2. CASE j # i
        BY <2>1, <3>3, <3>4, <3>5, <4>2 DEF CreateInv
      <4>3. QED
        BY <4>1, <4>2
    <3>6. \A j \in 1..MaxLeaves : fresh'[j] <= 1
      BY <3>3 DEF CreateInv
    <3>7. \A j, k \in WaveLeaves' : KeyOf(ledger'[j].rec) = KeyOf(ledger'[k].rec) => j = k
      BY <2>1 DEF CreateInv, WaveLeaves, Leaves
    <3>8. \A j \in 1..MaxLeaves : \A d, e \in Client : Owns(d, j)' /\ Owns(e, j)' => d = e
      BY <3>4 DEF CreateInv
    <3>9. QED
      BY <3>5, <3>6, <3>7, <3>8 DEF CreateInv
  <2>4. QED
    BY <2>1, <2>2, <2>3
<1>7. CASE \/ Stop \/ RebuildStep \/ Serve \/ UNCHANGED vars
           \/ \E bin \in {"new", "old"} : Boot(bin) \/ BootBlind(bin)
  <2>1. ledger' = ledger /\ fresh' = fresh /\ (req' = req \/ req' = [c \in Client |-> Idle])
    BY <1>7 DEF Stop, RebuildStep, Rebuild, Serve, Boot, BootBlind, vars, history, answers
  <2>2. \A d \in Client : \A i \in 1..MaxLeaves : Owns(d, i)' => Owns(d, i)
    BY <1>0, <2>1 DEF Owns, Posting
  <2>3. WaveLeaves' = WaveLeaves
    BY <2>1 DEF WaveLeaves, Leaves
  <2>4. QED
    BY <1>g, <2>1, <2>2, <2>3, CreateKept
<1>8. QED
  BY <1>1, <1>2, <1>3, <1>4, <1>5, <1>6, <1>7, WaveCases DEF RowStep

-----------------------------------------------------------------------------
(***************************************************************************)
(* The theorems.                                                           *)
(***************************************************************************)

\* The inductive invariant of the wave-session routes.
WaveInv == WaveTypes /\ ModeInv /\ SidesInv /\ AckInv /\ CreateInv

\* Every reachable state of the wave-session routes satisfies their inductive
\* invariant (wave_session.rs, state.rs).
LEMMA WaveInvariant == Spec => []WaveInv
<1>1. Init => WaveInv
  <2>1. Init => ModeInv
    BY DEF Init, ModeInv
  <2>2. QED
    BY <2>1, WaveTypesInit, SidesInit, AckInit, CreateInit DEF WaveInv
<1>2. WaveInv /\ [Next]_vars => WaveInv'
  BY WaveTypesStep, ModeStep, SidesStep, AckStep, CreateStep DEF WaveInv
<1>3. QED
  BY <1>1, <1>2, PTL DEF Spec

\* The derived state (index, unreadable leaves, leaf hashes, LRU, side table)
\* speaks only of wave leaves of the ledger, and the LRU keeps to its capacity
\* through every post, lookup, stop and rebuild (state.rs).
THEOREM WaveTypeCorrect == Spec => []TypeOK
<1>1. WaveInv => TypeOK
  <2> SUFFICES ASSUME WaveInv PROVE TypeOK
    OBVIOUS
  <2>1. /\ lru \in Seq(CacheEntry) /\ table \in [1..MaxLeaves -> Side \cup {NoSide}]
        /\ req \in [Client -> Request]
    BY DEF WaveInv, WaveTypes
  <2>2. DOMAIN lru = 1..Len(lru)
    BY <2>1
  <2>3. \A n \in DOMAIN lru : lru[n].leaf \in WaveLeaves /\ lru[n].side \in Side
    BY <2>1, <2>2, SideFields DEF WaveInv, SidesInv, Matches
  <2>4. \A i \in DOMAIN table : table[i] # NoSide => table[i] \in Side
    BY <2>1
  <2>5. QED
    BY <2>1, <2>3, <2>4 DEF WaveInv, WaveTypes, TypeOK
<1>2. QED
  BY <1>1, WaveInvariant, PTL

\* The entries of an answer are entries some handler holds.
LEMMA EntriesHeld ==
    ASSUME NEW e \in Entries
    PROVE  \E c \in Client : req[c].at = "verify" /\ e \in req[c].chain
<1>1. PICK c \in Client : Answering(c) /\ e \in Response(c).chain
  BY DEF Entries
<1>2. Response(c).chain = req[c].chain
  BY DEF Response
<1>3. QED
  BY <1>1, <1>2 DEF Answering

\* An answer of the verify route shows for each leaf the record and the HMAC that
\* the leaf commits to, through evictions, refills from sqlite, stops and
\* rebuilds (wave_session.rs, verify_session).
THEOREM AnswersMatchLedger == Spec => []AnswerMatchesLedger
<1>1. WaveInv => AnswerMatchesLedger
  <2> SUFFICES ASSUME WaveInv, NEW e \in Entries
               PROVE  ledger[e.leaf] = [kind |-> "wave", rec |-> e.side.rec, mac |-> e.side.mac]
    BY DEF AnswerMatchesLedger
  <2>1. Matches(e.leaf, e.side)
    BY EntriesHeld DEF WaveInv, SidesInv
  <2>2. QED
    BY <2>1, WaveLeafFields DEF Matches, WaveInv
<1>2. QED
  BY <1>1, WaveInvariant, PTL

\* An entry is labelled with a signature that was verified, or was rebuilt at a
\* boot and no row of the side table says better, unless sqlite failed to read or
\* to write that row since the boot (append_session, lookup_wave_session_payload,
\* reconstruct_wave_sessions_from_ledger).
THEOREM LabelsAreVerified == Spec => []LabelsVerify
<1>1. WaveInv => LabelsVerify
  <2> SUFFICES ASSUME WaveInv, NEW e \in Entries
               PROVE  \/ SignatureVerifies(e.side.type, e.side.mac, e.side.sig)
                      \/ /\ stops > 0 /\ e.side = FromLedger(e.leaf)
                         /\ \/ table[e.leaf] = NoSide
                            \/ ~SignatureVerifies(table[e.leaf].type, table[e.leaf].mac,
                                                  table[e.leaf].sig)
                            \/ e.leaf \in misread \cup unwritten
    BY DEF LabelsVerify
  <2>1. Standing(e.leaf, e.side)
    BY EntriesHeld DEF WaveInv, SidesInv
  <2>2. QED
    BY <2>1 DEF Standing, Verified
<1>2. QED
  BY <1>1, WaveInvariant, PTL

\* While the service runs an acknowledged leaf is indexed and its side value is
\* found, or the running binary cannot read it and the wave is reported
\* unreadable and not unknown; through evictions, stops in the middle of a boot
\* and changes of the binary (state.rs, lookup_wave_session_payload;
\* wave_session.rs, reconstruct_wave_sessions_from_ledger).  A leaf is excepted
\* whose row sqlite refused since the last boot.
THEOREM AcknowledgedStaysResolvable == Spec => []AcknowledgedResolves
<1>1. WaveInv => AcknowledgedResolves
  <2> SUFFICES ASSUME WaveInv, mode = "serving", ~blind
               PROVE  /\ \A i \in acked \ unreadable : i \in index /\ (i \in unwritten \/ Lookup(i) # NoSide)
                      /\ acked # {} /\ index = {} => EmptyStatus = "unreadable"
    BY DEF AcknowledgedResolves
  <2>1. \A i \in acked : i \in unreadable \/ Resolves(i)
    BY DEF WaveInv, AckInv
  <2>2. ASSUME NEW i \in acked \ unreadable, i \notin unwritten PROVE Lookup(i) # NoSide
    <3>1. i \in index /\ i \in hashes /\ table[i] # NoSide /\ i \in 1..MaxLeaves
      BY <2>1, <2>2, WaveLeafFields DEF Resolves, WaveInv, WaveTypes
    <3>2. Readable(table[i].rec, binary)
      BY <3>1 DEF WaveInv, SidesInv, AckInv, Matches
    <3>3. CASE Cached(i)
      <4>1. PICK n \in 1..Len(lru) : lru[n].side = CachedSide(i)
        BY <3>3, CachedFacts DEF WaveInv
      <4>2. lru[n].side # NoSide
        BY SideFields DEF WaveInv, WaveTypes
      <4>3. QED
        BY <3>3, <4>1, <4>2 DEF Lookup
    <3>4. CASE ~Cached(i)
      BY <3>1, <3>2, <3>4 DEF Lookup, ReadRow, Row
    <3>5. QED
      BY <3>3, <3>4
  <2>3. QED
    BY <2>1, <2>2 DEF Resolves, EmptyStatus
<1>2. QED
  BY <1>1, WaveInvariant, PTL

\* However identical posts race, are replayed or lose their answers, a leaf is
\* answered with 201 at most once and keys are unique in the ledger
\* (append_session).
THEOREM LeavesAreCreatedOnce == Spec => []CreatedOnce
<1>1. WaveInv => CreatedOnce
  <2> SUFFICES ASSUME WaveInv PROVE CreatedOnce
    OBVIOUS
  <2>1. DOMAIN fresh = 1..MaxLeaves
    BY DEF WaveInv, WaveTypes
  <2>2. QED
    BY <2>1 DEF WaveInv, CreateInv, CreatedOnce
<1>2. QED
  BY <1>1, WaveInvariant, PTL

=============================================================================
