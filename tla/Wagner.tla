------------------------------- MODULE Wagner -------------------------------
(***************************************************************************)
(* The search for an Equihash solution under one nonce: the CPU's fast and *)
(* generic paths (crates/equihash-core/src/solver.rs) and the GPU kernel   *)
(* (crates/equihash-gpu/src/kernel.cu).                                    *)
(*                                                                         *)
(* A row is a partial solution: the hashes of its leaves XORed and trimmed *)
(* from the front, and its leaves' indices in tree order.  Each of K       *)
(* rounds pairs the rows that agree on the next cbits bits; the last rows  *)
(* are scanned for one whose remaining hash is zero.  BLAKE2b is any table *)
(* of leaf hashes.  The parameters n and k are fields of the solver's base *)
(* state; an instance adds how many bits a byte has, so that small ones    *)
(* have digits that are, or are not, whole bytes, and the hashes to try.   *)
(***************************************************************************)
EXTENDS Integers, FiniteSets, Sequences, SequencesExt

CONSTANTS
    Instances,  \* [n, k, byte_bits, leaf_hashes]: parameters to search under
    Paths       \* implementations: "fast", "generic", "kernel"

\* What BaseState::new accepts.
ParamsAccepted(base) ==
    /\ base.n > 0 /\ base.k > 0 /\ base.k < base.n
    /\ base.n % base.byte_bits = 0
    /\ base.n % (base.k + 1) = 0

ASSUME WagnerAssumption ==
    /\ \A base \in Instances :
           /\ base.n \in Nat /\ base.k \in Nat
           /\ base.byte_bits \in Nat \ {0}
           /\ base.leaf_hashes \subseteq [1..base.n -> 0..1]
           /\ ParamsAccepted(base)
    /\ Paths \subseteq {"fast", "generic", "kernel"}

VARIABLES
    path,       \* which implementation searches
    base,       \* the instance: BaseState
    leaf,       \* the hash of each leaf under this nonce
    rows,       \* the current generation of rows
    round,      \* rounds done
    capped,     \* pairs were dropped for want of room
    status,     \* "searching", "none", "found" or "panicked"
    solution    \* the indices returned

vars == <<path, base, leaf, rows, round, capped, status, solution>>

pow2[i \in Nat] == IF i = 0 THEN 1 ELSE 2 * pow2[i - 1]

N == base.n
K == base.k
byte_bits == base.byte_bits
cbits == N \div (K + 1)
n_init == pow2[cbits + 1]
Leaves == 0..(n_init - 1)
cbytes == (cbits + byte_bits - 1) \div byte_bits
WholeBytes == cbits % byte_bits = 0

-----------------------------------------------------------------------------
(* What an Equihash solution is: the external verifier.                    *)

Parity(indices, from, to, bit) ==
    Cardinality({p \in from..to : leaf[indices[p]][bit] = 1}) % 2

\* A binary tree of leaves, all different, each node's subtree cancelling as
\* many digits as it is high, with the smaller first index to the left.
IsSubtree(indices, height) ==
    /\ Len(indices) = pow2[height]
    /\ \A p, q \in 1..Len(indices) : p # q => indices[p] # indices[q]
    /\ \A h \in 1..height :
           LET size == pow2[h]
               half == pow2[h - 1]
           IN  \A node \in 0..(pow2[height - h] - 1) :
                   LET left == node * size
                   IN  /\ indices[left + 1] < indices[left + half + 1]
                       /\ \A bit \in 1..(h * cbits) :
                              Parity(indices, left + 1, left + size, bit) = 0

is_valid_solution(indices) ==
    /\ \A bit \in 1..N : Parity(indices, 1, Len(indices), bit) = 0
    /\ IsSubtree(indices, K)

-----------------------------------------------------------------------------
(* Rows.                                                                   *)

\* Mutation: leaves are told apart by position only, no check at all.
distinct_indices_skipped(a, b) == a # b

distinct_indices(a, b) == \A p \in DOMAIN a, q \in DOMAIN b : a[p] # b[q]

globally_distinct(indices) ==
    \A p \in 1..(Len(indices) - 1), q \in 2..Len(indices) :
        p < q => indices[p] # indices[q]

\* Mutation: the subtrees are joined in the order they were found.
concat_as_found(a, b) == a \o b

concat_canonical(a, b) == IF a[1] < b[1] THEN a \o b ELSE b \o a

\* The front of the XOR that a round drops: the digit it cancelled, which the
\* generic path rounds up to whole bytes.
TrimmedBits == IF path = "generic" THEN cbytes * byte_bits ELSE cbits

\* Mutation: a bit of the cancelled digit is kept.
xor_trim_short(a, b) ==
    [bit \in 1..(Len(a) - TrimmedBits + 1) |->
        (a[bit + TrimmedBits - 1] + b[bit + TrimmedBits - 1]) % 2]

xor_trim(a, b) ==
    [bit \in 1..(Len(a) - TrimmedBits) |->
        (a[bit + TrimmedBits] + b[bit + TrimmedBits]) % 2]

merge(a, b) ==
    [hash |-> xor_trim(a.hash, b.hash),
     indices |-> concat_canonical(a.indices, b.indices)]

-----------------------------------------------------------------------------
(* A round.                                                                *)

\* The bit strings of a length, in ascending order.
BitString(x, length) == [bit \in 1..length |-> (x \div pow2[length - bit]) % 2]

\* The rows grouped by their first `bits` bits, groups ascending, each group in
\* the order of the rows: a histogram, prefix sums and a placing pass.
Buckets(some_rows, bits) ==
    [x \in 1..pow2[bits] |->
        LET digit == BitString(x - 1, bits)
        IN  FlattenSeq([i \in 1..Len(some_rows) |->
                IF SubSeq(some_rows[i].hash, 1, bits) = digit
                THEN <<some_rows[i]>> ELSE <<>>])]

\* Mutation: a row is paired with its neighbour only.
Pairs_adjacent(bucket) ==
    FlattenSeq([i \in 1..Len(bucket) |->
        IF i < Len(bucket)
           /\ distinct_indices(bucket[i].indices, bucket[i + 1].indices)
        THEN <<merge(bucket[i], bucket[i + 1])>> ELSE <<>>])

\* Every two rows of a bucket that share no leaf, in order.
Pairs(bucket) ==
    FlattenSeq([i \in 1..Len(bucket) |->
        FlattenSeq([j \in 1..Len(bucket) |->
            IF i < j /\ distinct_indices(bucket[i].indices, bucket[j].indices)
            THEN <<merge(bucket[i], bucket[j])>> ELSE <<>>])])

\* The kernel's buffers hold n_init rows; it returns when they are full.
InRoom(new_rows) ==
    IF path = "kernel" /\ Len(new_rows) > n_init
    THEN SubSeq(new_rows, 1, n_init) ELSE new_rows

\* The generic path sorts by the whole hash before it groups by the digit.
SortedRows ==
    IF path = "generic" /\ rows # <<>>
    THEN FlattenSeq(Buckets(rows, Len(rows[1].hash))) ELSE rows

AllPairs ==
    LET buckets == Buckets(SortedRows, cbits)
    IN  FlattenSeq([x \in DOMAIN buckets |-> Pairs(buckets[x])])

\* Whether first_cbits_eq indexes past the end of a row's hash: its whole bytes
\* are missing, or the byte after them is and two rows get that far.
ComparisonPanics ==
    /\ path = "generic"
    /\ Len(rows) >= 2
    /\ LET bytes == Len(rows[1].hash) \div byte_bits
           full_bytes == cbits \div byte_bits
       IN  \/ bytes < full_bytes
           \/ /\ bytes = full_bytes /\ ~WholeBytes
              /\ \E i, j \in 1..Len(rows) :
                     i < j /\ rows[i].hash = rows[j].hash

WagnerRound ==
    /\ status = "searching"
    /\ round < K
    /\ ~ComparisonPanics
    /\ LET pairs == AllPairs
       IN  /\ rows' = InRoom(pairs)
           /\ capped' = (capped \/ Len(pairs) > Len(rows'))
    /\ round' = round + 1
    /\ status' = IF rows' = <<>> THEN "none" ELSE "searching"
    /\ UNCHANGED <<path, base, leaf, solution>>

Panic ==
    /\ status = "searching"
    /\ round < K
    /\ ComparisonPanics
    /\ status' = "panicked"
    /\ UNCHANGED <<path, base, leaf, rows, round, capped, solution>>

-----------------------------------------------------------------------------
(* The scan of the last generation.                                        *)

\* Packing keeps cbits + 1 bits of every index.
compress_indices(indices) ==
    [p \in DOMAIN indices |-> indices[p] % pow2[cbits + 1]]

ZeroHash(row) == \A bit \in DOMAIN row.hash : row.hash[bit] = 0

\* The generic path leaves distinctness to the verifier; the kernel leaves the
\* verifier to its host.
Accepts(row) ==
    /\ ZeroHash(row)
    /\ path # "generic" => globally_distinct(row.indices)
    /\ path # "kernel" => is_valid_solution(compress_indices(row.indices))

Scan ==
    /\ status = "searching"
    /\ round = K
    /\ LET accepted == {i \in DOMAIN rows : Accepts(rows[i])}
       IN  IF accepted = {}
           THEN status' = "none" /\ UNCHANGED solution
           ELSE /\ status' = "found"
                /\ solution' = compress_indices(rows[Min(accepted)].indices)
    /\ UNCHANGED <<path, base, leaf, rows, round, capped>>

-----------------------------------------------------------------------------

\* One row per leaf, in order.
generate_leaves(table) ==
    [i \in 1..n_init |-> [hash |-> table[i - 1], indices |-> <<i - 1>>]]

\* The paths for fixed parameters are those of a digit of whole bytes.
Init ==
    /\ path \in Paths
    /\ base \in Instances
    /\ path # "generic" => WholeBytes
    /\ leaf \in [Leaves -> base.leaf_hashes]
    /\ rows = generate_leaves(leaf)
    /\ round = 0
    /\ capped = FALSE
    /\ status = "searching"
    /\ solution = <<>>

Next == WagnerRound \/ Panic \/ Scan

Spec == Init /\ [][Next]_vars

-----------------------------------------------------------------------------
(* Properties.                                                             *)

\* Rows have as many hash bits as are left and as many leaves as merged.
TypeOK ==
    /\ path \in Paths
    /\ base \in Instances
    /\ leaf \in [Leaves -> base.leaf_hashes]
    /\ \A i \in DOMAIN rows :
           /\ rows[i].hash \in [1..(N - round * TrimmedBits) -> 0..1]
           /\ rows[i].indices \in [1..pow2[round] -> Leaves]
    /\ round \in 0..K
    /\ capped \in BOOLEAN
    /\ status \in {"searching", "none", "found", "panicked"}
    /\ solution \in {<<>>} \cup [1..pow2[K] -> Leaves]

\* With digits of whole bytes, after every round each row is a correct subtree,
\* and its hash is what is left of its leaves' XOR: collisions, order,
\* distinctness of all its leaves (the check at each merge is enough for it) and
\* the trimmed hashes agree.
RowsAreSubtrees ==
    WholeBytes => \A i \in DOMAIN rows :
        LET indices == rows[i].indices
        IN  /\ IsSubtree(indices, round)
            /\ rows[i].hash =
                   [bit \in 1..(N - round * cbits) |->
                       Parity(indices, 1, Len(indices), bit + round * cbits)]

\* What a search returns is a solution, also where nobody verified it yet (the
\* kernel): the first row it picks never hides a valid one behind it.
FoundIsSolution == status = "found" => is_valid_solution(solution)

\* A search over digits of whole bytes that gives up has missed nothing, unless
\* the kernel ran out of room: whatever the leaves, a solution that exists is
\* found.  (With other digits the generic path trims more than it compared, and
\* the rounds that follow compare the wrong bits.)
MissesOnlyWhenCapped ==
    (WholeBytes /\ status = "none" /\ ~capped) =>
        \A chosen \in kSubset(pow2[K], Leaves) :
            \A indices \in [1..pow2[K] -> chosen] : ~is_valid_solution(indices)

\* Searching ends in a result, never in a panic.
NeverPanics == status # "panicked"
=============================================================================
