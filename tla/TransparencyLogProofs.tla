----------------------- MODULE TransparencyLogProofs -----------------------
(***************************************************************************)
(* What the routes of the transparency log keep, for any number of         *)
(* handlers, keys, payloads and leaves.                                    *)
(***************************************************************************)
EXTENDS TransparencyLog, FiniteSetTheorems, FunctionTheorems, TLAPS

-----------------------------------------------------------------------------
(***************************************************************************)
(* Handlers and their types.                                               *)
(***************************************************************************)

\* The fields a handler has where it stands.
LEMMA LocalFields ==
    ASSUME NEW s \in Local
    PROVE  /\ s.at \in {"insert", "commit", "appended"} => s.row \in Row
           /\ s.at = "insert" => s \in [at : {"insert"}, row : Row, snapshot : SUBSET Key]
           /\ s.at \in {"commit", "appended"} =>
                s.created \in BOOLEAN /\ s \in [at : {s.at}, row : Row, created : BOOLEAN]
           /\ s.at = "sth" => s.size \in Nat
           /\ s.at \in {"leaf", "proof", "verified"} => s.id \in Nat /\ s.entry \in Row
           /\ s.at \in {"proof", "verified"} =>
                /\ s.view \subseteq Row
                /\ s \in [at : {"proof", "verified"}, id : Nat, entry : Row, view : SUBSET Row]
           /\ s.at \in {"sized", "extend", "proven"} =>
                /\ s.first \in Nat /\ s.second \in Nat /\ s.idx \in Nat
                /\ s \in [at : {"sized", "extend", "proven"}, first : Nat, second : Nat, idx : Nat]
BY DEF Local, Idle

\* The types, and what Cardinality needs.
TypeInv == TypeOK /\ IsFiniteSet(rows)

\* A step of the handler c that leaves everything else alone.
Quiet(c) ==
    /\ \E s \in Local : task' = [task EXCEPT ![c] = s]
    /\ UNCHANGED <<storeVars, tree, historyVars>>

LEMMA TypeInit == Init => TypeInv
<1> SUFFICES ASSUME Init PROVE TypeInv
  OBVIOUS
<1>1. next \in Nat /\ Idle \in Local
  BY LogAssumption DEF Init, FirstIndex, Local
<1>2. IsFiniteSet({})
  BY FS_EmptySet
<1>3. fresh \in [Key -> 0..2] /\ task \in [Task -> Local]
  BY <1>1 DEF Init
<1>4. QED
  BY <1>1, <1>2, <1>3 DEF Init, TypeInv, TypeOK

\* Where a quiet step sends its handler.
LEMMA QuietSteps ==
    ASSUME TypeInv, NEW c \in Task
    PROVE  /\ \A k \in Key, p \in Payload : MemoryReplay(c, k, p) => Quiet(c)
           /\ PgInserted(c) \/ PgConflict(c) \/ PgAbort(c) => Quiet(c)
           /\ SthSize(c) => Quiet(c)
           /\ \A id \in 0..MaxSeq : VerifyLeaf(c, id) => Quiet(c)
           /\ VerifyProof(c) \/ VerifyRoot(c) => Quiet(c)
           /\ \A first, second \in 1..MaxSeq : ConsistencySize(c, first, second) => Quiet(c)
           /\ ConsistencyLock(c) \/ ConsistencyGap(c) \/ ConsistencyProof(c) => Quiet(c)
           /\ Finish(c) => Quiet(c)
<1> DEFINE s == task[c]
<1>0. s \in Local /\ Idle \in Local /\ rows \subseteq Row /\ Len(tree) \in Nat
  BY DEF TypeInv, TypeOK, Local
<1>1. CurrentSize \in Nat
  BY FS_CardinalityType DEF TypeInv, CurrentSize
<1>2. MaxSeq \in Nat
  BY LogAssumption
<1>3. ASSUME NEW r \in Row, NEW b \in BOOLEAN
      PROVE  [at |-> "appended", row |-> r, created |-> b] \in Local
  BY DEF Local
<1>4. ASSUME NEW r \in Row, NEW b \in BOOLEAN
      PROVE  [at |-> "commit", row |-> r, created |-> b] \in Local
  BY DEF Local
<1>5. \A k \in Key, p \in Payload : MemoryReplay(c, k, p) => Quiet(c)
  BY <1>0, <1>3 DEF MemoryReplay, Quiet, Goto
<1>6. PgInserted(c) => Quiet(c)
  BY <1>0, <1>4, LocalFields DEF PgInserted, Quiet, Goto
<1>7. PgConflict(c) => Quiet(c)
  BY <1>0, <1>4 DEF PgConflict, Quiet, Goto
<1>8. PgAbort(c) \/ ConsistencyGap(c) \/ Finish(c) => Quiet(c)
  BY <1>0 DEF PgAbort, ConsistencyGap, Finish, Quiet, Goto
<1>9. SthSize(c) => Quiet(c)
  <2>1. [at |-> "sth", size |-> CurrentSize] \in Local
    BY <1>1 DEF Local
  <2>2. QED
    BY <2>1 DEF SthSize, Quiet, Goto
<1>10. ASSUME NEW id \in 0..MaxSeq, VerifyLeaf(c, id) PROVE Quiet(c)
  <2>1. \A r \in rows : [at |-> "leaf", id |-> id, entry |-> r] \in Local
    BY <1>0, <1>2 DEF Local
  <2>2. QED
    BY <1>10, <2>1 DEF VerifyLeaf, Quiet, Goto
<1>11. ASSUME VerifyProof(c) PROVE Quiet(c)
  <2>1. s.id \in Nat /\ s.entry \in Row
    BY <1>0, <1>11, LocalFields DEF VerifyProof
  <2>2. [at |-> "proof", id |-> s.id, entry |-> s.entry, view |-> rows] \in Local
    BY <1>0, <2>1 DEF Local
  <2>3. QED
    BY <1>0, <1>11, <2>2 DEF VerifyProof, Quiet, Goto
<1>12. ASSUME VerifyRoot(c) PROVE Quiet(c)
  <2>1. s \in [at : {"proof", "verified"}, id : Nat, entry : Row, view : SUBSET Row]
    BY <1>0, <1>12, LocalFields DEF VerifyRoot
  <2>2. [s EXCEPT !.at = "verified"] \in Local
    BY <2>1 DEF Local
  <2>3. QED
    BY <1>0, <1>12, <2>2 DEF VerifyRoot, Quiet, Goto
<1>13. ASSUME NEW first \in 1..MaxSeq, NEW second \in 1..MaxSeq,
              ConsistencySize(c, first, second)
       PROVE  Quiet(c)
  <2>1. [at |-> "sized", first |-> first, second |-> second, idx |-> 0] \in Local
    BY <1>2 DEF Local
  <2>2. QED
    BY <1>13, <2>1 DEF ConsistencySize, Quiet, Goto
<1>14. ASSUME ConsistencyLock(c) \/ ConsistencyProof(c) PROVE Quiet(c)
  <2>1. s \in [at : {"sized", "extend", "proven"}, first : Nat, second : Nat, idx : Nat]
    BY <1>0, <1>14, LocalFields DEF ConsistencyLock, ConsistencyProof
  <2>2. /\ [s EXCEPT !.at = "extend", !.idx = Len(tree)] \in Local
        /\ [s EXCEPT !.at = "proven"] \in Local
    BY <1>0, <2>1 DEF Local
  <2>3. QED
    BY <1>14, <2>2 DEF ConsistencyLock, ConsistencyProof, Quiet, Goto
<1>15. QED
  BY <1>5, <1>6, <1>7, <1>8, <1>9, <1>10, <1>11, <1>12, <1>13, <1>14

\* Every other step.
LEMMA StepCases ==
    ASSUME TypeInv, [Next]_vars
    PROVE  \/ \E c \in Task, k \in Key, p \in Payload : MemoryAppend(c, k, p) \/ PgInsert(c, k, p)
           \/ \E c \in Task : \/ PgCommit(c) \/ AppendReply(c) \/ SthRoot(c)
                              \/ ConsistencyExtend(c) \/ Quiet(c)
           \/ Restart
           \/ UNCHANGED vars
<1>1. CASE \E c \in Task : AppendStep(c)
  BY <1>1, QuietSteps DEF AppendStep
<1>2. CASE \E c \in Task : ReadStep(c)
  BY <1>2, QuietSteps DEF ReadStep
<1>3. QED
  BY <1>1, <1>2 DEF Next

\* Each step keeps the types.
LEMMA TypeStep ==
    ASSUME TypeInv, [Next]_vars
    PROVE  TypeInv'
<1>0. /\ task \in [Task -> Local] /\ Idle \in Local /\ rows \subseteq Row /\ next \in Nat
      /\ tree \in Seq(Row) /\ IsFiniteSet(rows)
  BY DEF TypeInv, TypeOK, Local
<1>1. ASSUME NEW c \in Task, NEW k \in Key, NEW p \in Payload, MemoryAppend(c, k, p)
      PROVE  TypeInv'
  <2> DEFINE row == [index |-> next, key |-> k, payload |-> p]
  <2>1. row \in Row /\ next + 1 \in Nat
    BY <1>0 DEF Row
  <2>2. [at |-> "appended", row |-> row, created |-> TRUE] \in Local
    BY <2>1 DEF Local
  <2>3. task' \in [Task -> Local]
    BY <1>0, <1>1, <2>2 DEF MemoryAppend, Goto
  <2>4. IsFiniteSet(rows')
    BY <1>0, <1>1, FS_AddElement DEF MemoryAppend
  <2>5. QED
    BY <1>0, <1>1, <2>1, <2>3, <2>4 DEF MemoryAppend, TypeInv, TypeOK, historyVars
<1>2. ASSUME NEW c \in Task, NEW k \in Key, NEW p \in Payload, PgInsert(c, k, p)
      PROVE  TypeInv'
  <2> DEFINE row == [index |-> next, key |-> k, payload |-> p]
  <2>1. row \in Row /\ next + 1 \in Nat /\ KeysOf(rows) \subseteq Key
    BY <1>0 DEF Row, KeysOf
  <2>2. [at |-> "insert", snapshot |-> KeysOf(rows), row |-> row] \in Local
    BY <2>1 DEF Local
  <2>3. task' \in [Task -> Local]
    BY <1>0, <1>2, <2>2 DEF PgInsert, Goto
  <2>4. QED
    BY <1>0, <1>2, <2>1, <2>3 DEF PgInsert, TypeInv, TypeOK, historyVars
<1>3. ASSUME NEW c \in Task, PgCommit(c) PROVE TypeInv'
  <2>1. task[c].row \in Row /\ task[c] \in [at : {"commit"}, row : Row, created : BOOLEAN]
    BY <1>0, <1>3, LocalFields DEF PgCommit
  <2>2. [task[c] EXCEPT !.at = "appended"] \in Local
    BY <2>1 DEF Local
  <2>3. task' \in [Task -> Local]
    BY <1>0, <1>3, <2>2 DEF PgCommit, Goto
  <2>4. IsFiniteSet(rows')
    BY <1>0, <1>3, FS_AddElement DEF PgCommit
  <2>5. QED
    BY <1>0, <1>3, <2>1, <2>3, <2>4 DEF PgCommit, TypeInv, TypeOK, historyVars
<1>4. ASSUME NEW c \in Task, AppendReply(c) PROVE TypeInv'
  <2>1. task[c].row \in Row /\ task[c].created \in BOOLEAN /\ task[c].row.key \in Key
    BY <1>0, <1>4, LocalFields DEF AppendReply, Row
  <2>2. task' \in [Task -> Local]
    BY <1>0, <1>4 DEF AppendReply, Goto
  <2>3. fresh' \in [Key -> 0..2]
    BY <1>4, <2>1 DEF AppendReply, TypeInv, TypeOK
  <2>4. QED
    BY <1>0, <1>4, <2>1, <2>2, <2>3 DEF AppendReply, TypeInv, TypeOK, storeVars
<1>5. ASSUME NEW c \in Task, SthRoot(c) PROVE TypeInv'
  <2>1. task[c].size \in Nat
    BY <1>0, <1>5, LocalFields DEF SthRoot
  <2>2. task' \in [Task -> Local]
    BY <1>0, <1>5 DEF SthRoot, Goto
  <2>3. heads' \subseteq [size : Nat, view : SUBSET Row]
    BY <1>0, <1>5, <2>1 DEF SthRoot, CurrentRoot, TypeInv, TypeOK
  <2>4. QED
    BY <1>0, <1>5, <2>2, <2>3 DEF SthRoot, TypeInv, TypeOK, storeVars
<1>6. ASSUME NEW c \in Task, ConsistencyExtend(c) PROVE TypeInv'
  <2>1. task[c] \in [at : {"sized", "extend", "proven"}, first : Nat, second : Nat, idx : Nat]
    BY <1>0, <1>6, LocalFields DEF ConsistencyExtend, Extending
  <2>2. [task[c] EXCEPT !.idx = @ + 1] \in Local
    BY <2>1 DEF Local
  <2>3. task' \in [Task -> Local]
    BY <1>0, <1>6, <2>2 DEF ConsistencyExtend, Goto
  <2>4. tree' \in Seq(Row)
    BY <1>0, <1>6 DEF ConsistencyExtend
  <2>5. QED
    BY <1>0, <1>6, <2>3, <2>4 DEF ConsistencyExtend, TypeInv, TypeOK, storeVars, historyVars
<1>7. ASSUME NEW c \in Task, Quiet(c) PROVE TypeInv'
  BY <1>0, <1>7 DEF Quiet, TypeInv, TypeOK, storeVars, historyVars
<1>8. CASE Restart
  <2>1. task' \in [Task -> Local] /\ tree' \in Seq(Row)
    BY <1>0, <1>8 DEF Restart
  <2>2. QED
    BY <1>0, <1>8, <2>1 DEF Restart, TypeInv, TypeOK, storeVars, historyVars
<1>9. CASE UNCHANGED vars
  BY <1>9 DEF vars, TypeInv, TypeOK
<1>10. QED
  BY <1>1, <1>2, <1>3, <1>4, <1>5, <1>6, <1>7, <1>8, <1>9, StepCases

\* The state of the log and of its handlers is well typed.
THEOREM LogTypeCorrect == Spec => []TypeOK
<1>1. TypeInv /\ [Next]_vars => TypeInv'
  BY TypeStep
<1>2. TypeInv => TypeOK
  BY DEF TypeInv
<1>3. QED
  BY TypeInit, <1>1, <1>2, PTL DEF Spec

-----------------------------------------------------------------------------
(***************************************************************************)
(* Appends are idempotent.                                                 *)
(***************************************************************************)

\* A leaf this handler created and has not answered for yet.
Owes(c, k) == task[c].at = "appended" /\ task[c].created /\ task[c].row.key = k

\* A key is committed once and answered with 201 once: the transaction about
\* to create it is alone with it, and once its row is there, either one
\* handler owes the 201 or it was given.
KeyInv ==
    /\ \A q, r \in rows : q.key = r.key => q = r
    /\ acked \subseteq rows
    /\ backend = "memory" => \A c \in Task : task[c].at \notin {"insert", "commit"}
    /\ \A c \in Task : task[c].at = "appended" => task[c].row \in rows
    /\ \A c \in Task : task[c].at = "commit" =>
          IF task[c].created THEN task[c].row.key \notin KeysOf(rows)
                             ELSE task[c].row \in rows
    /\ \A c, d \in Task :
          task[c].at = "commit" /\ task[d].at = "commit" /\ task[c].row.key = task[d].row.key
          => c = d
    /\ \A k \in Key : \A c, d \in Task : Owes(c, k) /\ Owes(d, k) => c = d
    /\ \A k \in Key : fresh[k] < 2
    /\ \A k \in Key : fresh[k] = 1 => k \in KeysOf(rows) /\ \A c \in Task : ~Owes(c, k)

\* A handler that goes where no append is under way disturbs nothing.
LEMMA KeyKept ==
    ASSUME TypeInv, KeyInv, NEW c \in Task, NEW s,
           s.at \notin {"insert", "commit", "appended"},
           task' = [task EXCEPT ![c] = s],
           UNCHANGED <<backend, rows, acked, fresh>>
    PROVE  KeyInv'
<1>1. task \in [Task -> Local]
  BY DEF TypeInv, TypeOK
<1>2. task'[c] = s /\ \A d \in Task \ {c} : task'[d] = task[d]
  BY <1>1
<1>3. \A d \in Task : task'[d].at \in {"insert", "commit", "appended"} => task'[d] = task[d]
  BY <1>2
<1>4. KeysOf(rows)' = KeysOf(rows)
  BY DEF KeysOf
<1>5. \A d \in Task, k \in Key : Owes(d, k)' => Owes(d, k)
  BY <1>3 DEF Owes
<1>6. QED
  BY <1>3, <1>4, <1>5 DEF KeyInv

LEMMA KeyInit == Init => KeyInv
BY DEF Init, KeyInv, Idle, Owes, KeysOf

\* Each step keeps it.
LEMMA KeyStep ==
    ASSUME TypeInv, KeyInv, [Next]_vars
    PROVE  KeyInv'
<1>0. /\ task \in [Task -> Local] /\ rows \subseteq Row /\ fresh \in [Key -> 0..2]
      /\ \A c \in Task : task[c].at \in {"insert", "commit", "appended"} => task[c].row.key \in Key
      /\ Idle.at = "idle"
  BY LocalFields DEF TypeInv, TypeOK, Row, Idle
<1>1. ASSUME NEW c \in Task, NEW k \in Key, NEW p \in Payload, MemoryAppend(c, k, p)
      PROVE  KeyInv'
  <2> DEFINE row == [index |-> next, key |-> k, payload |-> p]
             s == [at |-> "appended", row |-> row, created |-> TRUE]
  <2>1. row.key = k /\ s.at = "appended" /\ s.row = row /\ s.created
    OBVIOUS
  <2> HIDE DEF row, s
  <2>2. /\ task'[c] = s /\ (\A d \in Task \ {c} : task'[d] = task[d])
        /\ rows' = rows \cup {row} /\ k \notin KeysOf(rows)
        /\ backend = "memory" /\ backend' = backend /\ acked' = acked /\ fresh' = fresh
    BY <1>0, <1>1 DEF MemoryAppend, Goto, historyVars, row, s
  <2>3. \A q \in rows : q.key # k
    BY <2>2 DEF KeysOf
  <2>4. \A d \in Task : task'[d].at \notin {"insert", "commit"}
    BY <2>1, <2>2 DEF KeyInv
  <2>5. \A d \in Task \ {c} : task[d].at = "appended" => task[d].row.key # k
    BY <2>3 DEF KeyInv
  <2>6. \A d \in Task, j \in Key :
          Owes(d, j)' <=> (d = c /\ j = k) \/ (d # c /\ j # k /\ Owes(d, j))
    BY <2>1, <2>2, <2>5 DEF Owes
  <2>7. KeysOf(rows)' = KeysOf(rows) \cup {k} /\ fresh[k] # 1
    BY <2>1, <2>2 DEF KeysOf, KeyInv
  <2>8. \A q, r \in rows' : q.key = r.key => q = r
    BY <2>1, <2>2, <2>3 DEF KeyInv
  <2>9. \A d \in Task : task'[d].at = "appended" => task'[d].row \in rows'
    BY <2>1, <2>2 DEF KeyInv
  <2>10. QED
    BY <1>0, <2>2, <2>4, <2>6, <2>7, <2>8, <2>9 DEF KeyInv
<1>2. ASSUME NEW c \in Task, NEW k \in Key, NEW p \in Payload, MemoryReplay(c, k, p)
      PROVE  KeyInv'
  <2> PICK r \in rows : Goto(c, [at |-> "appended", row |-> r, created |-> FALSE])
    BY <1>2 DEF MemoryReplay
  <2> DEFINE s == [at |-> "appended", row |-> r, created |-> FALSE]
  <2>1. s.at = "appended" /\ s.row = r /\ ~s.created
    OBVIOUS
  <2> HIDE DEF s
  <2>2. /\ task'[c] = s /\ (\A d \in Task \ {c} : task'[d] = task[d])
        /\ UNCHANGED <<backend, rows, acked, fresh>>
    BY <1>0, <1>2 DEF MemoryReplay, Goto, storeVars, historyVars, s
  <2>3. \A d \in Task, j \in Key : Owes(d, j)' => Owes(d, j)
    BY <2>1, <2>2 DEF Owes
  <2>4. KeysOf(rows)' = KeysOf(rows)
    BY <2>2 DEF KeysOf
  <2>5. \A d \in Task : task'[d].at \in {"insert", "commit"} => task'[d] = task[d]
    BY <2>1, <2>2
  <2>6. QED
    BY <2>1, <2>2, <2>3, <2>4, <2>5 DEF KeyInv
<1>3. ASSUME NEW c \in Task, NEW k \in Key, NEW p \in Payload, PgInsert(c, k, p)
      PROVE  KeyInv'
  <2>1. task'[c].at = "insert" /\ \A d \in Task \ {c} : task'[d] = task[d]
    BY <1>0, <1>3 DEF PgInsert, Goto
  <2>2. backend # "memory" /\ UNCHANGED <<backend, rows, acked, fresh>>
    BY <1>3 DEF PgInsert, historyVars
  <2>3. \A d \in Task, j \in Key : Owes(d, j)' => Owes(d, j)
    BY <2>1 DEF Owes
  <2>4. KeysOf(rows)' = KeysOf(rows)
    BY <2>2 DEF KeysOf
  <2>5. \A d \in Task : task'[d].at \in {"commit", "appended"} => task'[d] = task[d]
    BY <2>1
  <2>6. QED
    BY <2>2, <2>3, <2>4, <2>5 DEF KeyInv
<1>4. ASSUME NEW c \in Task, NEW r, NEW b \in BOOLEAN,
             task' = [task EXCEPT ![c] = [at |-> "commit", row |-> r, created |-> b]],
             task[c].at = "insert", KeyFree(c, r.key), UNCHANGED <<backend, rows, acked, fresh>>,
             IF b THEN r.key \notin KeysOf(rows) ELSE r \in rows
      PROVE  KeyInv'
  <2> DEFINE s == [at |-> "commit", row |-> r, created |-> b]
  <2>1. s.at = "commit" /\ s.row = r /\ s.created = b
    OBVIOUS
  <2> HIDE DEF s
  <2>2. task'[c] = s /\ \A d \in Task \ {c} : task'[d] = task[d]
    BY <1>0, <1>4 DEF s
  <2>3. backend # "memory"
    BY <1>4 DEF KeyInv
  <2>4. \A d \in Task \ {c} : task[d].at = "commit" => task[d].row.key # r.key
    BY <1>4 DEF KeyFree
  <2>5. \A d \in Task, j \in Key : Owes(d, j)' => Owes(d, j)
    BY <2>1, <2>2 DEF Owes
  <2>6. KeysOf(rows)' = KeysOf(rows)
    BY <1>4 DEF KeysOf
  <2>7. \A d \in Task : task'[d].at = "appended" => task'[d].row \in rows'
    BY <1>4, <2>1, <2>2 DEF KeyInv
  <2>8. \A d \in Task : task'[d].at = "commit" =>
          IF task'[d].created THEN task'[d].row.key \notin KeysOf(rows)
                              ELSE task'[d].row \in rows
    BY <1>4, <2>1, <2>2 DEF KeyInv
  <2>9. \A d, e \in Task :
          task'[d].at = "commit" /\ task'[e].at = "commit" /\ task'[d].row.key = task'[e].row.key
          => d = e
    BY <2>1, <2>2, <2>4 DEF KeyInv
  <2>10. QED
    BY <1>4, <2>3, <2>5, <2>6, <2>7, <2>8, <2>9 DEF KeyInv
<1>5. ASSUME NEW c \in Task, PgInserted(c) PROVE KeyInv'
  BY <1>4, <1>5 DEF PgInserted, Goto, storeVars, historyVars
<1>6. ASSUME NEW c \in Task, PgConflict(c) PROVE KeyInv'
  <2> PICK r \in rows :
        /\ r.key = task[c].row.key
        /\ Goto(c, IF r.payload = task[c].row.payload
                   THEN [at |-> "commit", row |-> r, created |-> FALSE] ELSE Idle)
    BY <1>6 DEF PgConflict
  <2>1. UNCHANGED <<backend, rows, acked, fresh>> /\ task[c].at = "insert" /\ KeyFree(c, r.key)
    BY <1>6 DEF PgConflict, storeVars, historyVars
  <2>2. CASE r.payload = task[c].row.payload
    BY <1>4, <2>1, <2>2 DEF Goto
  <2>3. CASE r.payload # task[c].row.payload
    BY <1>0, <2>1, <2>3, KeyKept DEF Goto
  <2>4. QED
    BY <2>2, <2>3
<1>7. ASSUME NEW c \in Task, PgCommit(c) PROVE KeyInv'
  <2> DEFINE r == task[c].row
             k == r.key
             b == task[c].created
  <2>1. /\ task[c] \in [at : {"commit"}, row : Row, created : BOOLEAN] /\ k \in Key
        /\ b \in BOOLEAN /\ r \in Row
    BY <1>0, <1>7, LocalFields DEF PgCommit
  <2>2. task'[c].at = "appended" /\ task'[c].row = r /\ task'[c].created = b
    BY <1>0, <1>7, <2>1 DEF PgCommit, Goto
  <2>3. \A d \in Task \ {c} : task'[d] = task[d]
    BY <1>0, <1>7 DEF PgCommit, Goto
  <2>4. rows' = rows \cup {r} /\ UNCHANGED <<backend, acked, fresh>> /\ task[c].at = "commit"
    BY <1>7 DEF PgCommit, historyVars
  <2>5. backend # "memory" /\ IF b THEN k \notin KeysOf(rows) ELSE r \in rows
    BY <2>4 DEF KeyInv
  <2>6. \A d \in Task \ {c} : task[d].at = "commit" => task[d].row.key # k
    BY <2>4 DEF KeyInv
  <2> HIDE DEF r, b
  <2>7. CASE ~b
    <3>1. rows' = rows
      BY <2>4, <2>5, <2>7
    <3>2. \A d \in Task, j \in Key : Owes(d, j)' => Owes(d, j)
      BY <2>2, <2>3, <2>7 DEF Owes
    <3>3. KeysOf(rows)' = KeysOf(rows)
      BY <3>1 DEF KeysOf
    <3>4. \A d \in Task : task'[d].at = "commit" => task'[d] = task[d]
      BY <2>2, <2>3
    <3>5. \A d \in Task : task'[d].at = "appended" => task'[d].row \in rows'
      BY <2>2, <2>3, <2>4, <3>1 DEF KeyInv
    <3>6. QED
      BY <2>4, <2>5, <3>1, <3>2, <3>3, <3>4, <3>5 DEF KeyInv
  <2>8. CASE b
    <3>1. \A q \in rows : q.key # k
      BY <2>5, <2>8 DEF KeysOf
    <3>2. \A d \in Task \ {c} : task[d].at = "appended" => task[d].row.key # k
      BY <3>1 DEF KeyInv
    <3>3. \A d \in Task, j \in Key :
            Owes(d, j)' <=> (d = c /\ j = k) \/ (d # c /\ j # k /\ Owes(d, j))
      BY <2>2, <2>3, <2>8, <3>2 DEF Owes
    <3>4. KeysOf(rows)' = KeysOf(rows) \cup {k} /\ fresh[k] # 1
      BY <2>1, <2>4, <2>5, <2>8 DEF KeysOf, KeyInv
    <3>5. \A q, p \in rows' : q.key = p.key => q = p
      BY <2>4, <3>1 DEF KeyInv
    <3>6. \A d \in Task : task'[d].at = "appended" => task'[d].row \in rows'
      BY <2>2, <2>3, <2>4 DEF KeyInv
    <3>7. \A d \in Task : task'[d].at = "commit" => d # c /\ task'[d] = task[d] /\ task[d].row.key # k
      BY <2>2, <2>3, <2>6
    <3>8. \A d \in Task : task'[d].at = "commit" =>
            IF task'[d].created THEN task'[d].row.key \notin KeysOf(rows)'
                                ELSE task'[d].row \in rows'
      BY <2>4, <3>4, <3>7 DEF KeyInv
    <3>9. \A j \in Key : \A d, e \in Task : Owes(d, j)' /\ Owes(e, j)' => d = e
      BY <3>3 DEF KeyInv
    <3>10. \A j \in Key : fresh'[j] = 1 => j \in KeysOf(rows)' /\ \A d \in Task : ~Owes(d, j)'
      BY <2>4, <3>3, <3>4 DEF KeyInv
    <3>11. \A d, e \in Task :
             task'[d].at = "commit" /\ task'[e].at = "commit" /\ task'[d].row.key = task'[e].row.key
             => d = e
      BY <3>7 DEF KeyInv
    <3>12. acked' \subseteq rows' /\ \A j \in Key : fresh'[j] < 2
      BY <2>4 DEF KeyInv
    <3>13. backend' # "memory"
      BY <2>4, <2>5
    <3>14. QED
      BY <3>5, <3>6, <3>8, <3>9, <3>10, <3>11, <3>12, <3>13 DEF KeyInv
  <2>9. QED
    BY <2>1, <2>7, <2>8 DEF b
<1>8. ASSUME NEW c \in Task, AppendReply(c) PROVE KeyInv'
  <2> DEFINE r == task[c].row
  <2> PICK k \in Key : k = r.key
    BY <1>0, <1>8 DEF AppendReply
  <2>1. task[c].at = "appended" /\ r \in rows /\ k \in KeysOf(rows)
    BY <1>0, <1>8 DEF AppendReply, KeyInv, KeysOf
  <2>2. task'[c].at = "idle" /\ \A d \in Task \ {c} : task'[d] = task[d]
    BY <1>0, <1>8 DEF AppendReply, Goto
  <2>3. UNCHANGED <<backend, rows>> /\ acked' = acked \cup {r}
    BY <1>8 DEF AppendReply, storeVars
  <2>4. \A d \in Task, j \in Key : Owes(d, j)' => d # c /\ Owes(d, j)
    BY <2>2 DEF Owes
  <2>5. \A d \in Task : task'[d].at \in {"insert", "commit", "appended"} => task'[d] = task[d]
    BY <2>2
  <2>6. KeysOf(rows)' = KeysOf(rows)
    BY <2>3 DEF KeysOf
  <2>7. CASE task[c].created
    <3>1. Owes(c, k)
      BY <2>1, <2>7 DEF Owes
    <3>2. fresh[k] = 0 /\ fresh'[k] = 1 /\ \A j \in Key \ {k} : fresh'[j] = fresh[j]
      BY <1>0, <1>8, <2>1, <2>7, <3>1 DEF AppendReply, KeyInv
    <3>3. \A d \in Task : ~Owes(d, k)'
      <4>1. \A d \in Task : Owes(d, k) => d = c
        BY <2>1, <3>1 DEF KeyInv
      <4>2. QED
        BY <2>1, <2>4, <4>1
    <3>4. \A j \in Key : fresh'[j] = 1 => j \in KeysOf(rows)' /\ \A d \in Task : ~Owes(d, j)'
      <4>1. \A j \in Key \ {k} :
              fresh'[j] = 1 => j \in KeysOf(rows)' /\ \A d \in Task : ~Owes(d, j)'
        BY <2>4, <2>6, <3>2 DEF KeyInv
      <4>2. QED
        BY <2>1, <2>6, <3>3, <4>1
    <3>5. \A j \in Key : fresh'[j] < 2
      BY <3>2 DEF KeyInv
    <3>6. QED
      BY <2>1, <2>3, <2>4, <2>5, <2>6, <3>4, <3>5 DEF KeyInv
  <2>8. CASE ~task[c].created
    <3>1. fresh' = fresh
      BY <1>0, <1>8, <2>8 DEF AppendReply
    <3>2. QED
      BY <2>1, <2>3, <2>4, <2>5, <2>6, <3>1 DEF KeyInv
  <2>9. QED
    BY <2>7, <2>8
<1>9. ASSUME NEW c \in Task,
             \/ PgAbort(c) \/ SthSize(c) \/ SthRoot(c) \/ VerifyProof(c) \/ VerifyRoot(c)
             \/ ConsistencyLock(c) \/ ConsistencyExtend(c) \/ ConsistencyGap(c)
             \/ ConsistencyProof(c) \/ Finish(c)
             \/ \E id \in 0..MaxSeq : VerifyLeaf(c, id)
             \/ \E first, second \in 1..MaxSeq : ConsistencySize(c, first, second)
      PROVE  KeyInv'
  <2>1. UNCHANGED <<backend, rows, acked, fresh>>
    BY <1>9 DEF PgAbort, SthSize, SthRoot, VerifyProof, VerifyRoot, ConsistencyLock,
         ConsistencyExtend, ConsistencyGap, ConsistencyProof, Finish, VerifyLeaf,
         ConsistencySize, storeVars, historyVars
  <2>2. task[c] \in Local
    BY <1>0
  <2>3. ASSUME NEW s, s.at \notin {"insert", "commit", "appended"},
               task' = [task EXCEPT ![c] = s]
        PROVE  KeyInv'
    BY <2>1, <2>3, KeyKept
  <2>4. KeyInv'
    <3>1. CASE VerifyRoot(c)
      <4>1. task[c] \in [at : {"proof", "verified"}, id : Nat, entry : Row, view : SUBSET Row]
        BY <2>2, <3>1, LocalFields DEF VerifyRoot
      <4>2. [task[c] EXCEPT !.at = "verified"].at = "verified"
        BY <4>1
      <4>3. QED
        BY <1>0, <2>3, <3>1, <4>2 DEF VerifyRoot, Goto
    <3>2. CASE ConsistencyLock(c) \/ ConsistencyExtend(c) \/ ConsistencyProof(c)
      <4>1. task[c] \in [at : {"sized", "extend", "proven"}, first : Nat, second : Nat, idx : Nat]
        BY <2>2, <3>2, LocalFields
           DEF ConsistencyLock, ConsistencyExtend, Extending, ConsistencyProof
      <4>2. /\ [task[c] EXCEPT !.at = "extend", !.idx = Len(tree)].at = "extend"
            /\ [task[c] EXCEPT !.idx = @ + 1].at = task[c].at
            /\ [task[c] EXCEPT !.at = "proven"].at = "proven"
        BY <4>1
      <4>3. QED
        BY <2>3, <3>2, <4>1, <4>2 DEF ConsistencyLock, ConsistencyExtend, ConsistencyProof, Goto
    <3>3. CASE PgAbort(c) \/ ConsistencyGap(c) \/ Finish(c) \/ SthRoot(c)
      BY <1>0, <2>3, <3>3 DEF PgAbort, ConsistencyGap, Finish, SthRoot, Goto
    <3>4. CASE SthSize(c)
      BY <2>3, <3>4 DEF SthSize, Goto
    <3>5. CASE VerifyProof(c)
      BY <1>0, <2>3, <3>5 DEF VerifyProof, Goto
    <3>6. CASE \E id \in 0..MaxSeq : VerifyLeaf(c, id)
      BY <2>3, <3>6 DEF VerifyLeaf, Goto
    <3>7. CASE \E first, second \in 1..MaxSeq : ConsistencySize(c, first, second)
      BY <2>3, <3>7 DEF ConsistencySize, Goto
    <3>8. QED
      BY <1>9, <3>1, <3>2, <3>3, <3>4, <3>5, <3>6, <3>7
  <2>5. QED
    BY <2>4
<1>10. CASE Restart
  <2>1. \A d \in Task : task'[d].at = "idle"
    BY <1>0, <1>10 DEF Restart
  <2>2. UNCHANGED <<backend, rows, acked, fresh>>
    BY <1>10 DEF Restart, storeVars, historyVars
  <2>3. KeysOf(rows)' = KeysOf(rows)
    BY <2>2 DEF KeysOf
  <2>4. \A d \in Task, j \in Key : ~Owes(d, j)'
    BY <2>1 DEF Owes
  <2>5. QED
    BY <2>1, <2>2, <2>3, <2>4 DEF KeyInv
<1>11. CASE UNCHANGED vars
  BY <1>11 DEF vars, KeyInv, KeysOf, Owes
<1>12. QED
  BY <1>1, <1>2, <1>3, <1>5, <1>6, <1>7, <1>8, <1>9, <1>10, <1>11
     DEF Next, AppendStep, ReadStep

\* "append is idempotent on idempotency_key", for both stores and however many
\* clients race with one key.
THEOREM AppendsAreIdempotent == Spec => []AppendIsIdempotent
<1>1. Init => TypeInv /\ KeyInv
  BY TypeInit, KeyInit
<1>2. TypeInv /\ KeyInv /\ [Next]_vars => TypeInv' /\ KeyInv'
  BY TypeStep, KeyStep
<1>3. KeyInv => AppendIsIdempotent
  BY DEF KeyInv, AppendIsIdempotent
<1>4. QED
  BY <1>1, <1>2, <1>3, PTL DEF Spec

-----------------------------------------------------------------------------
(***************************************************************************)
(* The memory store.                                                       *)
(***************************************************************************)

\* The rows of a view have the indices 0 to n - 1.
Dense(view, n) ==
    /\ view \subseteq Row
    /\ \A q, r \in view : q.index = r.index => q = r
    /\ \A r \in view : r.index < n
    /\ \A i \in Nat : i < n => \E r \in view : r.index = i

UpTo(m) == {r \in rows : r.index < m}

\* What a handler remembers of the ledger and of the cached tree still holds.
Remembers(s) ==
    /\ s.at \in {"leaf", "proof", "verified"} => s.entry \in rows /\ s.entry.index = s.id
    /\ s.at \in {"proof", "verified"} =>
          \E m \in Nat : m <= next /\ s.id < m /\ s.view = UpTo(m)
    /\ s.at \in {"sized", "extend", "proven"} => s.first <= s.second
    /\ s.at = "extend" => s.idx = Len(tree)
    /\ s.at = "proven" => s.second <= Len(tree)

\* The ledger has no gaps, every root handed out is that of a prefix, the cached
\* tree is a prefix, and one handler at a time extends it.
MemoryInv == backend = "memory" =>
    /\ Dense(rows, next)
    /\ \A h \in heads : \E m \in Nat : m <= next /\ h.view = UpTo(m)
    /\ \A i \in 1..Len(tree) : tree[i] \in rows /\ tree[i].index = i - 1
    /\ \A c \in Task : Remembers(task[c])
    /\ \A c, d \in Task : task[c].at = "extend" /\ task[d].at = "extend" => c = d

\* Indices count the rows of a dense view.
LEMMA DenseCardinality ==
    ASSUME NEW view, NEW n \in Nat, Dense(view, n)
    PROVE  IsFiniteSet(view) /\ Cardinality(view) = n
<1> DEFINE f == [r \in view |-> r.index]
<1>1. f \in [view -> 0..(n - 1)]
  BY DEF Dense, Row
<1>2. \A q, r \in view : f[q] = f[r] => q = r
  BY DEF Dense
<1>3. \A i \in 0..(n - 1) : \E r \in view : f[r] = i
  BY DEF Dense
<1>4. f \in Bijection(view, 0..(n - 1))
  BY <1>1, <1>2, <1>3, Fun_IsBij
<1>5. ExistsBijection(view, 0..(n - 1))
  BY <1>4, Fun_ExistsBij
<1>6. ExistsBijection(0..(n - 1), view)
  BY <1>5, Fun_ExistsBijSymmetric
<1>7. IsFiniteSet(0..(n - 1)) /\ Cardinality(0..(n - 1)) = n
  <2>1. 0 \in Int /\ n - 1 \in Int
    OBVIOUS
  <2>2. Cardinality(0..(n - 1)) = IF 0 > n - 1 THEN 0 ELSE (n - 1) - 0 + 1
    BY <2>1, FS_Interval
  <2>3. QED
    BY <2>1, <2>2, FS_Interval
<1>8. QED
  BY <1>6, <1>7, FS_Bijection

\* A shorter prefix of a dense view is dense.
LEMMA DensePrefix ==
    ASSUME NEW view, NEW n \in Nat, Dense(view, n), NEW m \in Nat, m <= n
    PROVE  Dense({r \in view : r.index < m}, m)
BY DEF Dense, Row

\* So the position of a row in a dense view is its index.
LEMMA DenseLeaf ==
    ASSUME NEW view, NEW n \in Nat, Dense(view, n), NEW i \in Nat
    PROVE  LeafAt(view, i) = {r \in view : r.index = i}
<1>1. ASSUME NEW r \in view PROVE Position(view, r) = r.index
  <2>1. r.index \in Nat /\ r.index <= n
    BY DEF Dense, Row
  <2>2. Dense({q \in view : q.index < r.index}, r.index)
    BY <2>1, DensePrefix
  <2>3. QED
    BY <2>1, <2>2, DenseCardinality DEF Position
<1>2. QED
  BY <1>1 DEF LeafAt

\* The new row goes on top, and the prefixes below stay what they were.
LEMMA DenseAppend ==
    ASSUME NEW view, NEW n \in Nat, Dense(view, n), NEW row \in Row, row.index = n
    PROVE  /\ Dense(view \cup {row}, n + 1)
           /\ \A m \in Nat : m <= n =>
                {r \in view \cup {row} : r.index < m} = {r \in view : r.index < m}
BY DEF Dense, Row

LEMMA MemoryInit == Init => MemoryInv
BY DEF Init, MemoryInv, Dense, FirstIndex, Remembers, Idle

\* A handler that remembers the truth, in a step that leaves the store alone.
LEMMA MemoryKept ==
    ASSUME TypeInv, MemoryInv, NEW c \in Task, NEW s,
           backend = "memory" => Remembers(s),
           s.at = "extend" => \A d \in Task : task[d].at # "extend",
           task' = [task EXCEPT ![c] = s],
           UNCHANGED <<backend, rows, next, tree, heads>>
    PROVE  MemoryInv'
<1> SUFFICES ASSUME backend' = "memory" PROVE MemoryInv'
  BY DEF MemoryInv
<1>0. backend = "memory"
  OBVIOUS
<1>1. task \in [Task -> Local]
  BY DEF TypeInv, TypeOK
<1>2. task'[c] = s /\ \A d \in Task \ {c} : task'[d] = task[d]
  BY <1>1
<1>3. \A m : UpTo(m)' = UpTo(m)
  BY DEF UpTo
<1>5. \A d \in Task : Remembers(task'[d])
  BY <1>0, <1>2 DEF MemoryInv
<1>6. \A d \in Task : Remembers(task[d])'
  <2> SUFFICES ASSUME NEW d \in Task PROVE Remembers(task[d])'
    OBVIOUS
  <2>1. Remembers(task'[d])
    BY <1>5
  <2>2. QED
    BY <1>3, <2>1 DEF Remembers
<1>7. \A d, e \in Task : task'[d].at = "extend" /\ task'[e].at = "extend" => d = e
  BY <1>0, <1>2 DEF MemoryInv
<1>8. (Dense(rows, next))'
  BY <1>0 DEF MemoryInv, Dense
<1>9. (\A h \in heads : \E m \in Nat : m <= next /\ h.view = UpTo(m))'
  BY <1>0, <1>3 DEF MemoryInv
<1>10. (\A i \in 1..Len(tree) : tree[i] \in rows /\ tree[i].index = i - 1)'
  BY <1>0 DEF MemoryInv
<1>11. QED
  BY <1>6, <1>7, <1>8, <1>9, <1>10 DEF MemoryInv

\* Each step keeps it.
LEMMA MemoryStep ==
    ASSUME TypeInv, KeyInv, MemoryInv, [Next]_vars
    PROVE  MemoryInv'
<1>0. /\ task \in [Task -> Local] /\ rows \subseteq Row /\ next \in Nat /\ tree \in Seq(Row)
      /\ Len(tree) \in Nat /\ Idle.at = "idle" /\ \A c \in Task : task[c] \in Local
  BY DEF TypeInv, TypeOK, Idle
<1>a. ASSUME NEW s, s.at \notin {"leaf", "proof", "verified", "sized", "extend", "proven"}
      PROVE  Remembers(s)
  BY <1>a DEF Remembers
<1>b. backend = "memory" => \A c \in Task : Remembers(task[c])
  BY DEF MemoryInv
<1>1. ASSUME NEW c \in Task, NEW k \in Key, NEW p \in Payload, MemoryAppend(c, k, p)
      PROVE  MemoryInv'
  <2> DEFINE row == [index |-> next, key |-> k, payload |-> p]
             s == [at |-> "appended", row |-> row, created |-> TRUE]
  <2>1. row \in Row /\ row.index = next /\ s.at = "appended"
    BY <1>0 DEF Row
  <2> HIDE DEF row, s
  <2>2. /\ task'[c] = s /\ (\A d \in Task \ {c} : task'[d] = task[d])
        /\ rows' = rows \cup {row} /\ next' = next + 1
        /\ backend = "memory" /\ UNCHANGED <<heads, tree>>
    BY <1>0, <1>1 DEF MemoryAppend, Goto, historyVars, row, s
  <2>3. Dense(rows, next)
    BY <2>2 DEF MemoryInv
  <2>4. (Dense(rows, next))'
    <3>1. Dense(rows \cup {row}, next + 1)
      BY <1>0, <2>1, <2>3, DenseAppend
    <3>2. QED
      BY <2>2, <3>1 DEF Dense
  <2>5. \A m \in Nat : m <= next => UpTo(m)' = UpTo(m)
    BY <1>0, <2>1, <2>2, <2>3, DenseAppend DEF UpTo
  <2>6. (\A h \in heads : \E m \in Nat : m <= next /\ h.view = UpTo(m))'
    <3> SUFFICES ASSUME NEW h \in heads
                 PROVE  \E m \in Nat : m <= next' /\ h.view = UpTo(m)'
      BY <2>2
    <3>1. PICK m \in Nat : m <= next /\ h.view = UpTo(m)
      BY <2>2 DEF MemoryInv
    <3>2. m <= next' /\ h.view = UpTo(m)'
      BY <1>0, <2>2, <2>5, <3>1
    <3>3. QED
      BY <3>2
  <2>7. (\A i \in 1..Len(tree) : tree[i] \in rows /\ tree[i].index = i - 1)'
    BY <2>2 DEF MemoryInv
  <2>8. ASSUME NEW d \in Task PROVE Remembers(task[d])'
    <3>1. CASE d = c
      BY <2>1, <2>2, <3>1 DEF Remembers
    <3>2. CASE d # c
      <4>1. task'[d] = task[d] /\ Remembers(task[d])
        BY <1>b, <2>2, <3>2
      <4>2. \A m \in Nat : m <= next => m <= next'
        BY <1>0, <2>2
      <4>3. QED
        BY <2>2, <2>5, <4>1, <4>2 DEF Remembers
    <3>3. QED
      BY <3>1, <3>2
  <2>9. \A d, e \in Task : task'[d].at = "extend" /\ task'[e].at = "extend" => d = e
    BY <2>1, <2>2 DEF MemoryInv
  <2>10. QED
    BY <2>4, <2>6, <2>7, <2>8, <2>9 DEF MemoryInv
<1>2. ASSUME NEW c \in Task, NEW k \in Key, NEW p \in Payload, MemoryReplay(c, k, p)
      PROVE  MemoryInv'
  <2> PICK r \in rows : Goto(c, [at |-> "appended", row |-> r, created |-> FALSE])
    BY <1>2 DEF MemoryReplay
  <2> DEFINE s == [at |-> "appended", row |-> r, created |-> FALSE]
  <2>1. s.at = "appended"
    OBVIOUS
  <2>2. Remembers(s)
    BY <1>a, <2>1
  <2> HIDE DEF s
  <2>3. task' = [task EXCEPT ![c] = s] /\ UNCHANGED <<backend, rows, next, tree, heads>>
    BY <1>2 DEF MemoryReplay, Goto, storeVars, historyVars, s
  <2>4. QED
    BY <2>1, <2>2, <2>3, MemoryKept
<1>3. ASSUME NEW c \in Task,
             \/ PgInserted(c) \/ PgConflict(c) \/ PgAbort(c) \/ PgCommit(c)
             \/ \E k \in Key, p \in Payload : PgInsert(c, k, p)
      PROVE  MemoryInv'
  <2>1. backend' = backend
    BY <1>3 DEF PgInserted, PgConflict, PgAbort, PgCommit, PgInsert, storeVars
  <2>2. backend # "memory"
    BY <1>3 DEF PgInserted, PgConflict, PgAbort, PgCommit, PgInsert, KeyInv
  <2>3. QED
    BY <2>1, <2>2 DEF MemoryInv
<1>4. ASSUME NEW c \in Task, AppendReply(c) \/ ConsistencyGap(c) \/ Finish(c)
      PROVE  MemoryInv'
  <2>1. Remembers(Idle)
    BY <1>0, <1>a
  <2>2. task' = [task EXCEPT ![c] = Idle] /\ UNCHANGED <<backend, rows, next, tree, heads>>
    BY <1>4 DEF AppendReply, ConsistencyGap, Finish, Goto, storeVars, historyVars
  <2>3. QED
    BY <1>0, <2>1, <2>2, MemoryKept
<1>5. ASSUME NEW c \in Task, SthSize(c) PROVE MemoryInv'
  <2> DEFINE s == [at |-> "sth", size |-> CurrentSize]
  <2>1. s.at = "sth"
    OBVIOUS
  <2>2. Remembers(s)
    BY <1>a, <2>1
  <2>3. task' = [task EXCEPT ![c] = s] /\ UNCHANGED <<backend, rows, next, tree, heads>>
    BY <1>5 DEF SthSize, Goto, storeVars, historyVars
  <2> HIDE DEF s
  <2>4. QED
    BY <2>1, <2>2, <2>3, MemoryKept
<1>6. ASSUME NEW c \in Task, SthRoot(c), backend = "memory" PROVE MemoryInv'
  <2>1. /\ task'[c] = Idle /\ (\A d \in Task \ {c} : task'[d] = task[d])
        /\ UNCHANGED <<backend, rows, next, tree>>
        /\ heads' = heads \cup {[size |-> task[c].size, view |-> rows]}
    BY <1>0, <1>6 DEF SthRoot, Goto, CurrentRoot, storeVars
  <2>2. UpTo(next) = rows
    BY <1>0, <1>6 DEF MemoryInv, Dense, UpTo
  <2>3. \A m : UpTo(m)' = UpTo(m)
    BY <2>1 DEF UpTo
  <2>4. ASSUME NEW h \in heads' PROVE \E m \in Nat : m <= next /\ h.view = UpTo(m)
    <3>1. CASE h \in heads
      BY <1>6, <3>1 DEF MemoryInv
    <3>2. CASE h = [size |-> task[c].size, view |-> rows]
      BY <1>0, <2>2, <3>2
    <3>3. QED
      BY <2>1, <3>1, <3>2
  <2>5. (\A h \in heads : \E m \in Nat : m <= next /\ h.view = UpTo(m))'
    BY <2>1, <2>3, <2>4
  <2>6. ASSUME NEW d \in Task PROVE Remembers(task[d])'
    <3>1. CASE d = c
      BY <1>0, <2>1, <3>1 DEF Remembers
    <3>2. CASE d # c
      BY <1>6, <1>b, <2>1, <2>3, <3>2 DEF Remembers
    <3>3. QED
      BY <3>1, <3>2
  <2>7. \A d, e \in Task : task'[d].at = "extend" /\ task'[e].at = "extend" => d = e
    BY <1>0, <1>6, <2>1 DEF MemoryInv
  <2>8. (Dense(rows, next))'
    BY <1>6, <2>1 DEF MemoryInv, Dense
  <2>9. (\A i \in 1..Len(tree) : tree[i] \in rows /\ tree[i].index = i - 1)'
    BY <1>6, <2>1 DEF MemoryInv
  <2>10. QED
    BY <2>5, <2>6, <2>7, <2>8, <2>9 DEF MemoryInv
<1>7. ASSUME NEW c \in Task, NEW id \in 0..MaxSeq, VerifyLeaf(c, id) PROVE MemoryInv'
  <2> PICK r \in rows : r.index = id /\ Goto(c, [at |-> "leaf", id |-> id, entry |-> r])
    BY <1>7 DEF VerifyLeaf
  <2> DEFINE s == [at |-> "leaf", id |-> id, entry |-> r]
  <2>1. s.at = "leaf" /\ s.id = id /\ s.entry = r
    OBVIOUS
  <2>2. task' = [task EXCEPT ![c] = s] /\ UNCHANGED <<backend, rows, next, tree, heads>>
    BY <1>7 DEF VerifyLeaf, Goto, storeVars, historyVars
  <2> HIDE DEF s
  <2>3. Remembers(s)
    BY <2>1 DEF Remembers
  <2>4. QED
    BY <2>1, <2>2, <2>3, MemoryKept
<1>8. ASSUME NEW c \in Task, VerifyProof(c) PROVE MemoryInv'
  <2> DEFINE s == IF task[c].id < CurrentSize
                  THEN [at |-> "proof", id |-> task[c].id, entry |-> task[c].entry, view |-> rows]
                  ELSE Idle
  <2>1. task' = [task EXCEPT ![c] = s] /\ UNCHANGED <<backend, rows, next, tree, heads>>
    BY <1>8 DEF VerifyProof, Goto, storeVars, historyVars
  <2>2. CASE ~(task[c].id < CurrentSize)
    BY <1>0, <1>a, <2>1, <2>2, MemoryKept
  <2>3. CASE task[c].id < CurrentSize
    <3>1. s.at = "proof" /\ s.id = task[c].id /\ s.entry = task[c].entry /\ s.view = rows
      BY <2>3
    <3> HIDE DEF s
    <3>2. ASSUME backend = "memory" PROVE Remembers(s)
      <4>1. Remembers(task[c]) /\ task[c].at = "leaf" /\ Dense(rows, next)
        BY <1>8, <1>b, <3>2 DEF VerifyProof, MemoryInv
      <4>2. CurrentSize = next
        BY <1>0, <4>1, DenseCardinality DEF CurrentSize
      <4>3. UpTo(next) = rows
        BY <1>0, <4>1 DEF Dense, UpTo
      <4>4. s.id < next /\ next <= next /\ s.view = UpTo(next)
        BY <1>0, <2>3, <3>1, <4>2, <4>3
      <4>5. QED
        BY <1>0, <3>1, <4>1, <4>4 DEF Remembers
    <3>3. QED
      BY <2>1, <3>1, <3>2, MemoryKept
  <2>4. QED
    BY <2>2, <2>3
<1>9. ASSUME NEW c \in Task, VerifyRoot(c) PROVE MemoryInv'
  <2>1. UNCHANGED <<backend, rows, next, tree, heads>>
    BY <1>9 DEF VerifyRoot, storeVars, historyVars
  <2>2. task[c] \in [at : {"proof", "verified"}, id : Nat, entry : Row, view : SUBSET Row]
    BY <1>0, <1>9, LocalFields DEF VerifyRoot
  <2> DEFINE s == [task[c] EXCEPT !.at = "verified"]
  <2>3. s.at = "verified" /\ s.id = task[c].id /\ s.entry = task[c].entry /\ s.view = task[c].view
    BY <2>2
  <2>4. task' = [task EXCEPT ![c] = s] \/ task' = [task EXCEPT ![c] = Idle]
    BY <1>9 DEF VerifyRoot, Goto
  <2> HIDE DEF s
  <2>5. backend = "memory" => Remembers(s)
    BY <1>9, <1>b, <2>3 DEF Remembers, VerifyRoot
  <2>6. Remembers(Idle)
    BY <1>0, <1>a
  <2>7. QED
    BY <1>0, <2>1, <2>3, <2>4, <2>5, <2>6, MemoryKept
<1>10. ASSUME NEW c \in Task, NEW first \in 1..MaxSeq, NEW second \in 1..MaxSeq,
              ConsistencySize(c, first, second)
       PROVE  MemoryInv'
  <2> DEFINE s == [at |-> "sized", first |-> first, second |-> second, idx |-> 0]
  <2>1. s.at = "sized" /\ s.first = first /\ s.second = second
    OBVIOUS
  <2>2. task' = [task EXCEPT ![c] = s] /\ UNCHANGED <<backend, rows, next, tree, heads>>
    BY <1>10 DEF ConsistencySize, Goto, storeVars, historyVars
  <2> HIDE DEF s
  <2>3. Remembers(s)
    BY <1>10, <2>1 DEF Remembers, ConsistencySize
  <2>4. QED
    BY <2>1, <2>2, <2>3, MemoryKept
<1>11. ASSUME NEW c \in Task, ConsistencyLock(c) PROVE MemoryInv'
  <2>1. task[c] \in [at : {"sized", "extend", "proven"}, first : Nat, second : Nat, idx : Nat]
    BY <1>0, <1>11, LocalFields DEF ConsistencyLock
  <2> DEFINE s == [task[c] EXCEPT !.at = "extend", !.idx = Len(tree)]
  <2>2. /\ s.at = "extend" /\ s.first = task[c].first /\ s.second = task[c].second
        /\ s.idx = Len(tree)
    BY <2>1
  <2>3. task' = [task EXCEPT ![c] = s] /\ UNCHANGED <<backend, rows, next, tree, heads>>
    BY <1>11 DEF ConsistencyLock, Goto, storeVars, historyVars
  <2> HIDE DEF s
  <2>4. backend = "memory" => Remembers(s)
    BY <1>11, <1>b, <2>2 DEF Remembers, ConsistencyLock
  <2>5. \A d \in Task : task[d].at # "extend"
    BY <1>11 DEF ConsistencyLock
  <2>6. QED
    BY <2>3, <2>4, <2>5, MemoryKept
<1>12. ASSUME NEW c \in Task, ConsistencyProof(c) PROVE MemoryInv'
  <2>1. task[c] \in [at : {"sized", "extend", "proven"}, first : Nat, second : Nat, idx : Nat]
    BY <1>0, <1>12, LocalFields DEF ConsistencyProof
  <2> DEFINE s == [task[c] EXCEPT !.at = "proven"]
  <2>2. s.at = "proven" /\ s.first = task[c].first /\ s.second = task[c].second
    BY <2>1
  <2>3. task' = [task EXCEPT ![c] = s] /\ UNCHANGED <<backend, rows, next, tree, heads>>
    BY <1>12 DEF ConsistencyProof, Goto, storeVars, historyVars
  <2> HIDE DEF s
  <2>4. backend = "memory" => Remembers(s)
    BY <1>0, <1>12, <1>b, <2>2 DEF Remembers, ConsistencyProof
  <2>5. QED
    BY <2>2, <2>3, <2>4, MemoryKept
<1>13. ASSUME NEW c \in Task, ConsistencyExtend(c), backend = "memory" PROVE MemoryInv'
  <2> PICK r \in rows : r.index = task[c].idx /\ tree' = Append(tree, r)
    BY <1>13 DEF ConsistencyExtend
  <2>1. task[c] \in [at : {"sized", "extend", "proven"}, first : Nat, second : Nat, idx : Nat]
    BY <1>0, <1>13, LocalFields DEF ConsistencyExtend, Extending
  <2> DEFINE s == [task[c] EXCEPT !.idx = @ + 1]
  <2>2. /\ s.at = "extend" /\ s.first = task[c].first /\ s.second = task[c].second
        /\ s.idx = task[c].idx + 1
    BY <1>13, <2>1 DEF ConsistencyExtend, Extending
  <2>3. task' = [task EXCEPT ![c] = s] /\ UNCHANGED <<backend, rows, next, heads>>
    BY <1>13 DEF ConsistencyExtend, Goto, storeVars, historyVars
  <2> HIDE DEF s
  <2>4. task[c].at = "extend" /\ task[c].idx = Len(tree) /\ Remembers(task[c])
    BY <1>13, <1>b DEF ConsistencyExtend, Extending, Remembers
  <2>5. /\ Len(tree') = Len(tree) + 1 /\ tree'[Len(tree) + 1] = r
        /\ \A i \in 1..Len(tree) : tree'[i] = tree[i]
    BY <1>0
  <2>6. task'[c] = s /\ \A d \in Task \ {c} : task'[d] = task[d]
    BY <1>0, <2>3
  <2>7. \A d \in Task \ {c} : task[d].at # "extend"
    BY <1>13, <2>4 DEF MemoryInv
  <2>8. \A m : UpTo(m)' = UpTo(m)
    BY <2>3 DEF UpTo
  <2>9. ASSUME NEW i \in 1..Len(tree') PROVE tree'[i] \in rows' /\ tree'[i].index = i - 1
    <3>1. CASE i = Len(tree) + 1
      BY <1>0, <2>3, <2>4, <2>5, <3>1
    <3>2. CASE i # Len(tree) + 1
      <4>1. i \in 1..Len(tree)
        BY <1>0, <2>5, <3>2
      <4>2. QED
        BY <1>13, <2>3, <2>5, <4>1 DEF MemoryInv
    <3>3. QED
      BY <3>1, <3>2
  <2>10. ASSUME NEW d \in Task PROVE Remembers(task[d])'
    <3>1. CASE d = c
      BY <2>2, <2>4, <2>5, <2>6, <3>1 DEF Remembers
    <3>2. CASE d # c
      <4>1. task'[d] = task[d] /\ Remembers(task[d]) /\ task[d].at # "extend"
        BY <1>13, <1>b, <2>6, <2>7, <3>2
      <4>2. task[d].at = "proven" => task[d].second <= Len(tree')
        BY <1>0, <2>5, <4>1, LocalFields DEF Remembers
      <4>3. QED
        BY <2>3, <2>8, <4>1, <4>2 DEF Remembers
    <3>3. QED
      BY <3>1, <3>2
  <2>11. \A d, e \in Task : task'[d].at = "extend" /\ task'[e].at = "extend" => d = e
    BY <2>6, <2>7
  <2>12. (Dense(rows, next))'
    BY <1>13, <2>3 DEF MemoryInv, Dense
  <2>13. (\A h \in heads : \E m \in Nat : m <= next /\ h.view = UpTo(m))'
    BY <1>13, <2>3, <2>8 DEF MemoryInv
  <2>14. QED
    BY <2>9, <2>10, <2>11, <2>12, <2>13 DEF MemoryInv
<1>14. ASSUME NEW c \in Task, SthRoot(c) \/ ConsistencyExtend(c) PROVE MemoryInv'
  <2>1. backend' = backend
    BY <1>14 DEF SthRoot, ConsistencyExtend, storeVars
  <2>2. QED
    BY <1>6, <1>13, <1>14, <2>1 DEF MemoryInv
<1>15. CASE Restart
  BY <1>15 DEF Restart, MemoryInv, storeVars
<1>16. CASE UNCHANGED vars
  BY <1>16 DEF vars, MemoryInv, Dense, UpTo, Remembers
<1>17. QED
  BY <1>1, <1>2, <1>3, <1>4, <1>5, <1>7, <1>8, <1>9, <1>10, <1>11, <1>12, <1>14, <1>15, <1>16
     DEF Next, AppendStep, ReadStep

\* What every reachable state satisfies.
LogInv == TypeInv /\ KeyInv /\ MemoryInv

LEMMA LogInvariant == Spec => []LogInv
<1>1. Init => LogInv
  BY TypeInit, KeyInit, MemoryInit DEF LogInv
<1>2. LogInv /\ [Next]_vars => LogInv'
  BY TypeStep, KeyStep, MemoryStep DEF LogInv
<1>3. QED
  BY <1>1, <1>2, PTL DEF Spec

\* A prefix of the ledger is dense.
LEMMA PrefixDense ==
    ASSUME LogInv, backend = "memory", NEW m \in Nat, m <= next
    PROVE  Dense(UpTo(m), m)
<1>1. Dense(rows, next) /\ next \in Nat
  BY DEF LogInv, MemoryInv, TypeInv, TypeOK
<1>2. QED
  BY <1>1, DensePrefix DEF UpTo

\* With the memory store every /v1/verify answer proves the entry it returns:
\* the handler's four reads see prefixes of one ledger without gaps, in which
\* looking up an index and counting to it lead to the same row.
THEOREM MemoryEntriesMatch == Spec => []MemoryEntryMatchesProof
<1>1. LogInv => MemoryEntryMatchesProof
  <2> SUFFICES ASSUME LogInv, backend = "memory", NEW c \in Task, task[c].at = "verified"
               PROVE  LeafAt(task[c].view, task[c].id) = {task[c].entry}
    BY DEF MemoryEntryMatchesProof, EntryMatchesProof
  <2>1. Remembers(task[c]) /\ Dense(rows, next)
    BY DEF LogInv, MemoryInv
  <2>2. task[c] \in Local
    BY DEF LogInv, TypeInv, TypeOK
  <2>3. task[c].id \in Nat /\ task[c].entry \in rows /\ task[c].entry.index = task[c].id
    BY <2>1, <2>2, LocalFields DEF Remembers
  <2>4. PICK m \in Nat : m <= next /\ task[c].id < m /\ task[c].view = UpTo(m)
    BY <2>1 DEF Remembers
  <2>5. LeafAt(UpTo(m), task[c].id) = {r \in UpTo(m) : r.index = task[c].id}
    BY <2>3, <2>4, PrefixDense, DenseLeaf
  <2>6. {r \in UpTo(m) : r.index = task[c].id} = {task[c].entry}
    BY <2>1, <2>3, <2>4 DEF UpTo, Dense
  <2>7. QED
    BY <2>4, <2>5, <2>6
<1>2. QED
  BY <1>1, LogInvariant, PTL

\* With the memory store an auditor accepts the consistency proof between two
\* heads whose size and root agree, whoever filled the cached tree.
THEOREM ConsistencyProofsAccepted == Spec => []ConsistencyAccepted
<1>1. LogInv => ConsistencyAccepted
  <2> SUFFICES ASSUME LogInv, backend = "memory", NEW c \in Task, NEW h \in heads,
                      task[c].at = "proven", h.size = Cardinality(h.view),
                      h.size \in {task[c].first, task[c].second}
               PROVE  SameLeaves(h.size, h.view)
    BY DEF ConsistencyAccepted
  <2>1. Remembers(task[c]) /\ task[c] \in Local
    BY DEF LogInv, MemoryInv, TypeInv, TypeOK
  <2>2. /\ task[c].first \in Nat /\ task[c].second \in Nat /\ Len(tree) \in Nat
        /\ task[c].first <= task[c].second /\ task[c].second <= Len(tree)
    BY <2>1, LocalFields DEF Remembers, LogInv, TypeInv, TypeOK
  <2>3. PICK m \in Nat : m <= next /\ h.view = UpTo(m)
    BY DEF LogInv, MemoryInv
  <2>4. Dense(UpTo(m), m)
    BY <2>3, PrefixDense
  <2>5. h.size = m
    BY <2>3, <2>4, DenseCardinality
  <2>6. ASSUME NEW i \in 1..m PROVE LeafAt(UpTo(m), i - 1) = {tree[i]}
    <3>1. i - 1 \in Nat /\ i - 1 < m /\ i \in 1..Len(tree)
      BY <2>2, <2>5
    <3>2. LeafAt(UpTo(m), i - 1) = {r \in UpTo(m) : r.index = i - 1}
      BY <2>4, <3>1, DenseLeaf
    <3>3. tree[i] \in UpTo(m) /\ tree[i].index = i - 1
      BY <3>1 DEF LogInv, MemoryInv, UpTo
    <3>4. QED
      BY <2>4, <3>2, <3>3 DEF Dense
  <2>7. QED
    BY <2>3, <2>5, <2>6 DEF SameLeaves
<1>2. QED
  BY <1>1, LogInvariant, PTL

-----------------------------------------------------------------------------
(***************************************************************************)
(* The memory store implements the append-only log.                        *)
(***************************************************************************)

EntryOf(r) == [key |-> r.key, payload |-> r.payload]

\* In a dense view the entry at i is the one of the row with index i - 1.
LEMMA OrderedDense ==
    ASSUME NEW view, NEW n \in Nat, Dense(view, n)
    PROVE  /\ Ordered(view) \in Seq(Abstract!Entry) /\ Len(Ordered(view)) = n
           /\ \A r \in view : Ordered(view)[r.index + 1] = EntryOf(r)
           /\ \A i \in 1..n : \E r \in view : r.index = i - 1 /\ Ordered(view)[i] = EntryOf(r)
<1> DEFINE pick(i) == CHOOSE q \in LeafAt(view, i - 1) : TRUE
<1>1. Cardinality(view) = n
  BY DenseCardinality
<1>2. ASSUME NEW r \in view PROVE r.index + 1 \in 1..n /\ pick(r.index + 1) = r
  <2>1. r.index \in Nat /\ r.index < n /\ (r.index + 1) - 1 = r.index
    BY DEF Dense, Row
  <2>2. LeafAt(view, r.index) = {q \in view : q.index = r.index}
    BY <2>1, DenseLeaf
  <2>3. LeafAt(view, r.index) = {r}
    BY <2>2 DEF Dense
  <2>4. (CHOOSE q \in {r} : TRUE) = r
    OBVIOUS
  <2>5. QED
    BY <2>1, <2>3, <2>4
<1>3. \A i \in 1..n : Ordered(view)[i] = EntryOf(pick(i))
  BY <1>1 DEF Ordered, EntryOf
<1>4. ASSUME NEW i \in 1..n
      PROVE  \E r \in view : r.index = i - 1 /\ Ordered(view)[i] = EntryOf(r)
  <2>1. PICK r \in view : r.index = i - 1
    BY DEF Dense
  <2>2. r.index + 1 = i
    BY <2>1
  <2>3. QED
    BY <1>2, <1>3, <2>1, <2>2
<1>5. \A r \in view : EntryOf(r) \in Abstract!Entry
  BY DEF EntryOf, Abstract!Entry, Dense, Row
<1>6. Ordered(view) = [i \in 1..n |-> Ordered(view)[i]]
  BY <1>1 DEF Ordered
<1>7. Ordered(view) \in [1..n -> Abstract!Entry]
  BY <1>4, <1>5, <1>6
<1>8. Ordered(view) \in Seq(Abstract!Entry) /\ Len(Ordered(view)) = n
  BY <1>7
<1>9. \A r \in view : Ordered(view)[r.index + 1] = EntryOf(r)
  BY <1>2, <1>3
<1>10. QED
  BY <1>4, <1>8, <1>9

\* One row more is one entry more, at the end.
LEMMA OrderedAppend ==
    ASSUME NEW view, NEW n \in Nat, Dense(view, n), NEW row \in Row, row.index = n
    PROVE  Ordered(view \cup {row}) = Append(Ordered(view), EntryOf(row))
<1> DEFINE s == Ordered(view)
           all == view \cup {row}
           t == Ordered(all)
           E == Abstract!Entry
<1>1. Dense(all, n + 1) /\ n + 1 \in Nat /\ view \subseteq all /\ row \in all
  BY DenseAppend
<1>2. /\ s \in Seq(E) /\ Len(s) = n
      /\ \A i \in 1..n : \E r \in view : r.index = i - 1 /\ s[i] = EntryOf(r)
  BY OrderedDense
<1>3. /\ t \in Seq(E) /\ Len(t) = n + 1
      /\ \A r \in all : t[r.index + 1] = EntryOf(r)
  <2> HIDE DEF all
  <2>1. QED
    BY <1>1, OrderedDense
<1>4. EntryOf(row) \in E
  BY DEF EntryOf, Abstract!Entry, Row
<1> HIDE DEF s, all, t, E
<1>5. ASSUME NEW i \in 1..n PROVE t[i] = s[i]
  <2>1. PICK r \in view : r.index = i - 1 /\ s[i] = EntryOf(r)
    BY <1>2
  <2>2. r.index + 1 = i
    BY <2>1
  <2>3. QED
    BY <1>1, <1>3, <2>1, <2>2
<1>6. t[n + 1] = EntryOf(row)
  BY <1>1, <1>3
<1>7. Append(s, EntryOf(row)) \in Seq(E) /\ Len(Append(s, EntryOf(row))) = n + 1
  BY <1>2, <1>4
<1>8. \A i \in 1..(n + 1) : Append(s, EntryOf(row))[i] = t[i]
  BY <1>2, <1>4, <1>5, <1>6
<1>9. t = Append(s, EntryOf(row))
  BY <1>3, <1>7, <1>8
<1>10. QED
  BY <1>9 DEF s, t, all

LEMMA RefinementInit == Init => Abstract!LogInit
<1> SUFFICES ASSUME Init PROVE Abstract!LogInit
  OBVIOUS
<1>1. rows = {} /\ heads = {}
  BY DEF Init
<1>2. Cardinality({}) = 0
  BY FS_EmptySet
<1>3. Ordered({}) = <<>>
  BY <1>2 DEF Ordered
<1>4. QED
  BY <1>1, <1>3 DEF Abstract!LogInit, Promised

\* Each step is a step of the abstract log or leaves it alone.
LEMMA RefinementStep ==
    ASSUME LogInv, [Next]_vars
    PROVE  [Abstract!LogNext]_Abstract!logVars
<1>1. TypeInv /\ KeyInv /\ next \in Nat /\ rows \subseteq Row
  BY DEF LogInv, TypeInv, TypeOK
<1>2. ASSUME UNCHANGED <<backend, rows, heads>> PROVE UNCHANGED Abstract!logVars
  BY <1>2 DEF Abstract!logVars, Promised
<1>3. ASSUME NEW c \in Task, NEW k \in Key, NEW p \in Payload, MemoryAppend(c, k, p)
      PROVE  \E e \in Abstract!Entry : Abstract!AddEntry(e)
  <2> DEFINE row == [index |-> next, key |-> k, payload |-> p]
  <2>1. row \in Row /\ row.index = next /\ row.key = k
    BY <1>1 DEF Row
  <2> HIDE DEF row
  <2>2. /\ rows' = rows \cup {row} /\ k \notin KeysOf(rows)
        /\ backend = "memory" /\ UNCHANGED <<backend, heads>>
    BY <1>3 DEF MemoryAppend, historyVars, row
  <2>3. Dense(rows, next)
    BY <2>2 DEF LogInv, MemoryInv
  <2>4. Promised(rows)' = Append(Promised(rows), EntryOf(row))
    BY <1>1, <2>1, <2>2, <2>3, OrderedAppend DEF Promised
  <2>5. {Promised(h.view) : h \in heads}' = {Promised(h.view) : h \in heads}
    BY <2>2 DEF Promised
  <2>6. EntryOf(row) \in Abstract!Entry /\ EntryOf(row).key = k
    BY <2>1 DEF EntryOf, Abstract!Entry, Row
  <2>7. k \notin Abstract!Keys
    <3> SUFFICES ASSUME k \in Abstract!Keys PROVE FALSE
      OBVIOUS
    <3>1. PICK i \in 1..Len(Promised(rows)) : Promised(rows)[i].key = k
      BY DEF Abstract!Keys
    <3>2. Promised(rows) = Ordered(rows) /\ Len(Ordered(rows)) = next
      BY <1>1, <2>2, <2>3, OrderedDense DEF Promised
    <3>3. PICK r \in rows : Ordered(rows)[i] = EntryOf(r)
      BY <1>1, <2>3, <3>1, <3>2, OrderedDense
    <3>4. r.key = k
      BY <3>1, <3>2, <3>3 DEF EntryOf
    <3>5. QED
      BY <2>2, <3>4 DEF KeysOf
  <2>8. Abstract!AddEntry(EntryOf(row))
    BY <2>4, <2>5, <2>6, <2>7 DEF Abstract!AddEntry
  <2>9. QED
    BY <2>6, <2>8
<1>4. ASSUME NEW c \in Task, PgCommit(c) PROVE UNCHANGED Abstract!logVars
  <2>1. backend # "memory" /\ UNCHANGED <<backend, heads>>
    BY <1>1, <1>4 DEF PgCommit, KeyInv, historyVars
  <2>2. QED
    BY <2>1 DEF Abstract!logVars, Promised
<1>5. ASSUME NEW c \in Task, SthRoot(c) PROVE Abstract!PublishRoot
  <2>1. UNCHANGED <<backend, rows>> /\ heads' = heads \cup {[size |-> task[c].size, view |-> rows]}
    BY <1>5 DEF SthRoot, CurrentRoot, storeVars
  <2>2. Promised(rows)' = Promised(rows)
    BY <2>1 DEF Promised
  <2>3. {Promised(h.view) : h \in heads}' = {Promised(h.view) : h \in heads'}
    BY <2>1 DEF Promised
  <2>4. {Promised(h.view) : h \in heads'} = {Promised(h.view) : h \in heads} \cup {Promised(rows)}
    <3> DEFINE new == [size |-> task[c].size, view |-> rows]
    <3>1. new.view = rows
      OBVIOUS
    <3> HIDE DEF new
    <3>2. heads' = heads \cup {new}
      BY <2>1 DEF new
    <3>3. {Promised(h.view) : h \in heads \cup {new}}
            = {Promised(h.view) : h \in heads} \cup {Promised(new.view)}
      BY Zenon
    <3>4. QED
      BY <3>1, <3>2, <3>3
  <2>5. QED
    BY <2>2, <2>3, <2>4 DEF Abstract!PublishRoot
<1>6. ASSUME NEW c \in Task, Quiet(c) \/ AppendReply(c) \/ ConsistencyExtend(c)
      PROVE  UNCHANGED Abstract!logVars
  BY <1>2, <1>6 DEF Quiet, AppendReply, ConsistencyExtend, storeVars, historyVars
<1>7. ASSUME NEW c \in Task, NEW k \in Key, NEW p \in Payload, PgInsert(c, k, p)
      PROVE  UNCHANGED Abstract!logVars
  BY <1>2, <1>7 DEF PgInsert, historyVars
<1>8. CASE Restart \/ UNCHANGED vars
  BY <1>2, <1>8 DEF Restart, vars, storeVars, historyVars
<1>9. QED
  BY <1>1, <1>3, <1>4, <1>5, <1>6, <1>7, <1>8, StepCases DEF Abstract!LogNext

\* The memory store implements the append-only log, for any number of handlers,
\* keys and leaves: each append adds one entry at the end, and each root
\* published is the root of the whole log.
THEOREM MemoryImplementsLog == Spec => ImplementsLog
<1>1. LogInv /\ [Next]_vars => [Abstract!LogNext]_Abstract!logVars
  BY RefinementStep
<1>2. QED
  BY <1>1, RefinementInit, LogInvariant, PTL DEF Spec, ImplementsLog, Abstract!LogSpec

-----------------------------------------------------------------------------
(***************************************************************************)
(* What implementing the append-only log is worth to an auditor.           *)
(***************************************************************************)

\* Published roots stay prefixes, for logs of any length: the inductive
\* invariant adds only the types.
PrefixInv ==
    /\ Promised(rows) \in Seq(Abstract!Entry)
    /\ {Promised(h.view) : h \in heads} \subseteq Seq(Abstract!Entry)
    /\ Abstract!PublishedArePrefixes

\* Whatever a log that follows the abstract specification has published, with
\* whatever root, it still starts with.
LEMMA PrefixesCorrect == Abstract!LogSpec => []Abstract!PublishedArePrefixes
<1> DEFINE log == Promised(rows)
           published == {Promised(h.view) : h \in heads}
           E == Abstract!Entry
<1>1. Abstract!LogInit => PrefixInv
  BY DEF Abstract!LogInit, PrefixInv, Abstract!PublishedArePrefixes
<1>2. PrefixInv /\ [Abstract!LogNext]_Abstract!logVars => PrefixInv'
  <2> SUFFICES ASSUME PrefixInv, [Abstract!LogNext]_Abstract!logVars PROVE PrefixInv'
    OBVIOUS
  <2>0. /\ log \in Seq(E) /\ published \subseteq Seq(E) /\ E' = E
        /\ \A p \in published : Len(p) <= Len(log) /\ \A i \in 1..Len(p) : p[i] = log[i]
    BY DEF PrefixInv, Abstract!PublishedArePrefixes, Abstract!Entry
  <2>s. ASSUME log' \in Seq(E), published' \subseteq Seq(E),
               \A p \in published' : Len(p) <= Len(log') /\ \A i \in 1..Len(p) : p[i] = log'[i]
        PROVE  PrefixInv'
    BY <2>0, <2>s DEF PrefixInv, Abstract!PublishedArePrefixes
  <2>1. CASE Abstract!PublishRoot
    <3>1. log' = log /\ published' = published \cup {log}
      BY <2>1 DEF Abstract!PublishRoot
    <3> HIDE DEF log, published, E
    <3>2. QED
      BY <2>0, <2>s, <3>1
  <2>2. ASSUME NEW e \in E, Abstract!AddEntry(e) PROVE PrefixInv'
    <3>1. log' = Append(log, e) /\ published' = published
      BY <2>2 DEF Abstract!AddEntry
    <3> HIDE DEF log, published, E
    <3>2. Len(log') = Len(log) + 1 /\ (\A i \in 1..Len(log) : log'[i] = log[i]) /\ log' \in Seq(E)
      BY <2>0, <3>1
    <3>3. ASSUME NEW p \in published
          PROVE  Len(p) <= Len(log') /\ \A i \in 1..Len(p) : p[i] = log'[i]
      <4>1. /\ Len(p) \in Nat /\ Len(log) \in Nat
            /\ Len(p) <= Len(log) /\ \A i \in 1..Len(p) : p[i] = log[i]
        BY <2>0, <3>3
      <4>2. \A i \in 1..Len(p) : i \in 1..Len(log)
        BY <4>1
      <4>3. QED
        BY <3>2, <4>1, <4>2
    <3>4. QED
      BY <2>0, <2>s, <3>1, <3>2, <3>3
  <2>3. CASE UNCHANGED Abstract!logVars
    <3>1. log' = log /\ published' = published
      BY <2>3 DEF Abstract!logVars
    <3> HIDE DEF log, published, E
    <3>2. QED
      BY <2>0, <2>s, <3>1
  <2>4. QED
    BY <2>1, <2>2, <2>3 DEF Abstract!LogNext
<1>3. PrefixInv => Abstract!PublishedArePrefixes
  BY DEF PrefixInv
<1>4. QED
  BY <1>1, <1>2, <1>3, PTL DEF Abstract!LogSpec

\* With the memory store every tree head handed out commits to a prefix of the
\* ledger as it is now, so any two of them are consistent.
THEOREM HeadsArePrefixes == Spec => []Abstract!PublishedArePrefixes
BY MemoryImplementsLog, PrefixesCorrect, PTL DEF ImplementsLog
=============================================================================
