------------------------------- MODULE Merkle -------------------------------
(***************************************************************************)
(* The RFC 6962 tree of crates/domain/src/transparency/merkle.rs: roots,   *)
(* inclusion and consistency proofs, their verification, and the           *)
(* incremental HashTree behind the consistency route.                      *)
(*                                                                         *)
(* A hash is the term it is computed from, which is what collision         *)
(* resistance and the 0x00 / 0x01 prefixes give.  The state is a ledger    *)
(* and the HashTree that grew with it; sequences count from 1, and leaf    *)
(* indices from 0 as in the code.                                          *)
(*                                                                         *)
(* The code's recursions over slices are recursive functions of the length *)
(* of a slice and its first leaf.                                          *)
(***************************************************************************)
EXTENDS Naturals, Sequences

CONSTANTS
    Payload,    \* payloads
    MaxLeaves   \* bound on the size of the ledger

ASSUME MerkleAssumption == MaxLeaves \in Nat \ {0}

VARIABLES
    ledger,     \* the leaf hashes, oldest first
    levels      \* HashTree::levels

vars == <<ledger, levels>>

LeafHash(p) == <<0, p>>

NodeHash(left, right) == <<1, left, right>>

-----------------------------------------------------------------------------
(***************************************************************************)
(* Roots.                                                                  *)
(***************************************************************************)

Pow2[j \in Nat] == IF j = 0 THEN 1 ELSE 2 * Pow2[j - 1]

IsPowerOfTwo(n) == \E j \in 0..n : n = Pow2[j]

\* Mutant: splits in the middle.
LargestPowerOfTwoHalf(n) == n \div 2

\* largest_power_of_two_strictly_less_than, for n >= 2.
LargestPowerOfTwo(n) ==
    CHOOSE k \in 1..(n - 1) : IsPowerOfTwo(k) /\ 2 * k >= n

\* root_of_hashes of every slice: len leaves from leaf start on.
SliceRoots(hashes) ==
    LET root[len \in 1..Len(hashes)] ==
            [start \in 0..(Len(hashes) - len) |->
                IF len = 1
                THEN hashes[start + 1]
                ELSE LET k == LargestPowerOfTwo(len)
                     IN  NodeHash(root[k][start], root[len - k][start + k])]
    IN  root

RootOfHashes(hashes) == SliceRoots(hashes)[Len(hashes)][0]

-----------------------------------------------------------------------------
(***************************************************************************)
(* HashTree: levels[l + 1][j + 1] is the root of the aligned subtree of    *)
(* 2^l leaves that starts at leaf j * 2^l.                                 *)
(***************************************************************************)

\* What push has for the row above row l once the rows up to l are done.
Carries(lv, hash) ==
    LET carry[l \in 0..Len(lv)] ==
            IF l = 0 THEN hash ELSE NodeHash(lv[l][Len(lv[l])], carry[l - 1])
    IN  carry

\* The loop goes on as long as the row it has made longer is then even.
Reached(lv, l) == \A m \in 1..(l - 1) : Len(lv[m]) % 2 = 1

\* push.
Pushed(lv, hash) ==
    LET rows == IF Reached(lv, Len(lv) + 1) THEN Len(lv) + 1 ELSE Len(lv)
    IN  [l \in 1..rows |->
            IF l > Len(lv) THEN <<Carries(lv, hash)[l - 1]>>
            ELSE IF Reached(lv, l) THEN Append(lv[l], Carries(lv, hash)[l - 1])
            ELSE lv[l]]

\* HashTree::len.
TreeSize(lv) == IF lv = <<>> THEN 0 ELSE Len(lv[1])

\* Mutant: forgets that the range must start at a multiple of its length.
AlignedAnywhere(start, len) == IsPowerOfTwo(len)

Aligned(start, len) == IsPowerOfTwo(len) /\ start % len = 0

TrailingZeros(len) == CHOOSE j \in 0..len : Pow2[j] = len

\* subtree_root of every range within the tree.
SubtreeRoots(lv) ==
    LET root[len \in 1..TreeSize(lv)] ==
            [start \in 0..(TreeSize(lv) - len) |->
                IF Aligned(start, len)
                THEN lv[TrailingZeros(len) + 1][start \div len + 1]
                ELSE LET k == LargestPowerOfTwo(len)
                     IN  NodeHash(root[k][start], root[len - k][start + k])]
    IN  root

-----------------------------------------------------------------------------
(***************************************************************************)
(* The provers.                                                            *)
(***************************************************************************)

\* inclusion_path: siblings from the leaf upwards; index counts from the
\* first leaf of the tree, not of the slice.
InclusionPath(hashes, index) ==
    LET root == SliceRoots(hashes)
        path[len \in 1..Len(hashes)] ==
            [start \in 0..(Len(hashes) - len) |->
                IF len = 1
                THEN <<>>
                ELSE LET k == LargestPowerOfTwo(len)
                     IN  IF index < start + k
                         THEN Append(path[k][start], root[len - k][start + k])
                         ELSE Append(path[len - k][start + k], root[k][start])]
    IN  path[Len(hashes)][0]

\* build_consistency_proof_with: subproof_with over any source of roots, for
\* the ranges that hold the last leaf of the earlier tree; start_on_path says
\* that the recursion never went right, which is that the range starts at
\* leaf 0.
ConsistencyProof(root, from, to) ==
    LET proof[len \in 1..to] ==
            [start \in {s \in 0..(to - len) : s < from /\ from <= s + len} |->
                IF from = start + len
                THEN IF start = 0 THEN <<>> ELSE <<root[len][start]>>
                ELSE LET k == LargestPowerOfTwo(len)
                     IN  IF from <= start + k
                         THEN Append(proof[k][start], root[len - k][start + k])
                         ELSE Append(proof[len - k][start + k], root[k][start])]
    IN  proof[to][0]

\* HashTree::consistency_proof, and build_consistency_proof over a slice.
TreeProof(lv, from, to) == ConsistencyProof(SubtreeRoots(lv), from, to)

SliceProof(hashes, from, to) == ConsistencyProof(SliceRoots(hashes), from, to)

-----------------------------------------------------------------------------
(***************************************************************************)
(* The verifiers.  Both climb from a node of some row to the root; `last`  *)
(* is the last node of the row.  The loops end with last = 0, where a      *)
(* further round would change nothing.                                     *)
(***************************************************************************)

Exhausted == <<"no sibling left">>

\* One round: a right child has its sibling on the left, a left child its
\* sibling on the right, if there is one.  Of the two sides of a consistency
\* proof, `fr` knows the siblings on the left only.
Round(s, path) ==
    LET sibling == IF s.used < Len(path) THEN path[s.used + 1] ELSE Exhausted
        isRight == s.node % 2 = 1
        isLeft  == ~isRight /\ s.node < s.last
    IN  [node |-> s.node \div 2,
         last |-> s.last \div 2,
         fr   |-> IF isRight THEN NodeHash(sibling, s.fr) ELSE s.fr,
         tr   |-> IF isRight THEN NodeHash(sibling, s.tr)
                  ELSE IF isLeft THEN NodeHash(s.tr, sibling)
                  ELSE s.tr,
         used |-> IF isRight \/ isLeft THEN s.used + 1 ELSE s.used]

Climb(from, path, rounds) ==
    LET state[t \in 0..rounds] == IF t = 0 THEN from ELSE Round(state[t - 1], path)
    IN  state

VerifyInclusion(hash, index, size, path, root) ==
    /\ 0 < size /\ index < size
    /\ LET start == [node |-> index, last |-> size - 1, fr |-> hash, tr |-> hash, used |-> 0]
           end   == Climb(start, path, size)[size]
       IN  end.used = Len(path) /\ end.tr = root

\* The complete subtrees the earlier tree ends with are skipped.
SkipComplete(from, to) ==
    LET pair[t \in 0..from] ==
            IF t = 0
            THEN [node |-> from - 1, last |-> to - 1]
            ELSE LET p == pair[t - 1]
                 IN  IF p.node % 2 = 1
                     THEN [node |-> p.node \div 2, last |-> p.last \div 2]
                     ELSE p
    IN  pair

\* Mutant: compares the later root only.
RootsAgreeLater(end, fromRoot, toRoot) == end.tr = toRoot

RootsAgree(end, fromRoot, toRoot) == end.fr = fromRoot /\ end.tr = toRoot

VerifyConsistency(from, to, proof, fromRoot, toRoot) ==
    /\ 0 < from /\ from <= to
    /\ IF from = to
       THEN proof = <<>> /\ fromRoot = toRoot
       ELSE LET skipped == SkipComplete(from, to)[from]
                seeded  == skipped.node > 0
                seed    == IF seeded THEN proof[1] ELSE fromRoot
                start   == [node |-> skipped.node, last |-> skipped.last,
                            fr |-> seed, tr |-> seed, used |-> IF seeded THEN 1 ELSE 0]
                end     == Climb(start, proof, to)[to]
            IN  /\ seeded => proof # <<>>
                /\ end.used = Len(proof)
                /\ RootsAgree(end, fromRoot, toRoot)

-----------------------------------------------------------------------------
Init == ledger = <<>> /\ levels = <<>>

Push(p) ==
    /\ Len(ledger) < MaxLeaves
    /\ ledger' = Append(ledger, LeafHash(p))
    /\ levels' = Pushed(levels, LeafHash(p))

Next == \E p \in Payload : Push(p)

Spec == Init /\ [][Next]_vars

-----------------------------------------------------------------------------
(***************************************************************************)
(* Properties.                                                             *)
(***************************************************************************)

Size == Len(ledger)

Hashes == {LeafHash(p) : p \in Payload}

\* Every ledger of n leaves.
Ledgers(n) == [1..n -> Hashes]

\* The incremental tree answers every range with the root that hashing the
\* slice from scratch gives ("results are identical to hashing the slice").
HashTreeMatchesSlices ==
    \A start \in 0..(Size - 1) : \A len \in 1..(Size - start) :
        SubtreeRoots(levels)[len][start] = RootOfHashes(SubSeq(ledger, start + 1, start + len))

\* The verifier accepts the proof of a leaf, and no proof that was built
\* for any leaf of any ledger of the size makes it accept a payload that is
\* not at the position claimed.
InclusionIsExact ==
    Size > 0 =>
        LET root == RootOfHashes(ledger)
        IN  /\ \A i \in 0..(Size - 1) :
                  VerifyInclusion(ledger[i + 1], i, Size, InclusionPath(ledger, i), root)
            /\ \A d \in Ledgers(Size), i \in 0..(Size - 1) :
                  LET path == InclusionPath(d, i)
                  IN  \A h \in Hashes, j \in 0..(Size - 1) :
                        VerifyInclusion(h, j, Size, path, root) => ledger[j + 1] = h

\* The verifier accepts the proof from every earlier size, and no proof
\* that was built for any ledger of the size makes it accept an earlier
\* root of leaves the ledger does not start with.
ConsistencyIsExact ==
    \A m \in 1..Size :
        LET root   == RootOfHashes(ledger)
            old    == SubSeq(ledger, 1, m)
            proofs == {SliceProof(d, m, Size) : d \in Ledgers(Size)}
        IN  /\ VerifyConsistency(m, Size, TreeProof(levels, m, Size), RootOfHashes(old), root)
            /\ \A b \in Ledgers(m) \ {old} : \A proof \in proofs :
                  ~VerifyConsistency(m, Size, proof, RootOfHashes(b), root)

-----------------------------------------------------------------------------
(***************************************************************************)
(* The inductive invariant: every row of the HashTree holds the roots of   *)
(* the complete nodes of its width, and every width up to the size has a   *)
(* row.                                                                    *)
(***************************************************************************)

\* Node i of the row of width P: the root of the leaves i * P to
\* (i + 1) * P - 1, or of what there is of them.
NodeAt(h, P, i) ==
    SliceRoots(h)[IF (i + 1) * P <= Len(h) THEN P ELSE Len(h) - i * P][i * P]

\* `last` is the last node of the row of width P over n leaves.
LastOf(last, P, n) == last \in Nat /\ last * P < n /\ n <= (last + 1) * P

RowsOf(lv, h) ==
    /\ Len(h) < Pow2[Len(lv)]
    /\ \A l \in 1..Len(lv) :
          /\ LastOf(Len(lv[l]), Pow2[l - 1], Len(h) + 1)
          /\ \A j \in 1..Len(lv[l]) : lv[l][j] = NodeAt(h, Pow2[l - 1], j - 1)

TreeInv == ledger \in Seq(Hashes) /\ RowsOf(levels, ledger)
=============================================================================
