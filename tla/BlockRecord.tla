---------------------------- MODULE BlockRecord ----------------------------
(***************************************************************************)
(* How a Monero block becomes an input of a proof: an RPC endpoint serves  *)
(* records of blocks, the audit tools turn them into fixtures              *)
(* (audit/src/monero.rs, bin/network_fixture_builder.rs and                *)
(* bin/monero_block_input.rs), the fixtures are validated again            *)
(* (network_fixtures.rs), and the proof requester validates the block it   *)
(* was given (network-prover/src/main.rs).                                 *)
(*                                                                         *)
(* A hash is the term of what was hashed; terms are tagged, so that a byte *)
(* of a varint and a hash never look alike.  The endpoint may serve any    *)
(* records; the seed height is an argument of the operator.  Every tool    *)
(* has checks of its own, the requester also copies of two helpers.        *)
(***************************************************************************)
EXTENDS SeedHeight, SequencesExt

CONSTANTS VarintBase,       \* 2^7
          LimbBase, Limbs,  \* 2^64, 4
          FixtureBlocks,    \* 20
          SelectedLength,   \* 77: the blob length the requester accepts
          Timestamps,       \* bound: timestamps of the chain are below this
          Served            \* the records the endpoint may serve for a height

ASSUME RecordAssumption ==
    /\ VarintBase \in Nat \ {0, 1} /\ LimbBase \in Nat \ {0, 1} /\ Limbs \in Nat \ {0}
    /\ FixtureBlocks \in Nat \ {0} /\ Timestamps \in Nat \ {0}

\* RpcBlockRecord: the miner transaction and tx_hashes are one list; a
\* difficulty that does not fit its type is an error of parse_wide_difficulty.
RecordFields == {"height", "major", "minor", "timestamp", "prev_hash", "nonce", "txs", "block_id",
                 "wide_difficulty"}
NonEmpty(s) == Len(s) \in Nat \ {0} /\ s = [i \in 1 .. Len(s) |-> s[i]]
Proper(f, e) ==
    /\ f \in {"height", "major", "minor", "timestamp"} => e \in Nat
    /\ f = "txs" => NonEmpty(e)
    /\ f = "wide_difficulty" => e \in 0 .. LimbBase - 1
IsRecord(r) == r = [f \in RecordFields |-> r[f]] /\ \A f \in RecordFields : Proper(f, r[f])

ASSUME ServedAssumption ==
    \A h \in 0 .. MaxHeight : \A r \in Served[h] : IsRecord(r)

VARIABLES status,       \* of the tool that runs
          seed_height,  \* its argument
          records,      \* the records that passed, of the builder's input
          blocks,       \* and the fixtures made of them
          input         \* the block recorded for the requester

NoInput == [height |-> -1]
toolVars == <<status, seed_height, records, blocks, input>>
recordVars == <<height, prover, audit, status, seed_height, records, blocks, input>>

-----------------------------------------------------------------------------
(* audit/src/monero.rs                                                     *)

hash_pair(left, right) == <<"pair", left, right>>

\* while level_len * 2 < count { level_len *= 2 }
LevelLen(count) ==
    LET grown[n \in 1 .. count] == IF n * 2 < count THEN grown[n * 2] ELSE n
    IN  grown[1]

\* Mutant: the destinations are filled from the last one.
halved_backwards(level, half) ==
    LET step[d \in 0 .. half] ==
            IF d = 0 THEN level
            ELSE LET done == step[d - 1]
                     i == half - d + 1
                 IN  [done EXCEPT ![i] = hash_pair(done[2 * i - 1], done[2 * i])]
    IN  step[half]

\* One level of the tree, in place: half destinations, the first one first.
halved(level, half) ==
    LET step[d \in 0 .. half] ==
            IF d = 0 THEN level
            ELSE LET done == step[d - 1]
                 IN  [done EXCEPT ![d] = hash_pair(done[2 * d - 1], done[2 * d])]
    IN  step[half]

\* The lowest level: the first hashes as they are, the others in pairs.
FirstLevel(hashes) ==
    LET level  == LevelLen(Len(hashes))
        direct == 2 * level - Len(hashes)
    IN  [i \in 1 .. level |->
            IF i <= direct THEN hashes[i]
            ELSE hash_pair(hashes[2 * i - direct - 1], hashes[2 * i - direct])]

tree_hash(hashes) ==
    LET count == Len(hashes)
        level == LevelLen(count)
        upper[n \in 1 .. level] ==      \* the array when level_len is n
            IF 2 * n > level THEN FirstLevel(hashes) ELSE halved(upper[2 * n], n)
    IN  CASE count = 1 -> hashes[1]
          [] count = 2 -> hash_pair(hashes[1], hashes[2])
          [] OTHER -> hash_pair(upper[2][1], upper[2][2])

\* append_varint
append_varint(value) ==
    LET byte(n) == <<"byte", n>>
        rest[v \in 0 .. value] ==
            IF v >= VarintBase
            THEN <<byte((v % VarintBase) + VarintBase)>> \o rest[v \div VarintBase]
            ELSE <<byte(v)>>
    IN  rest[value]

\* Mutant: the number of transactions is left out.
hashing_blob_uncounted(r) ==
    append_varint(r.major) \o append_varint(r.minor) \o append_varint(r.timestamp)
        \o <<r.prev_hash, <<"nonce", r.nonce>>, tree_hash(r.txs)>>

\* hashing_blob; the miner transaction is the first of txs.
hashing_blob(r) ==
    append_varint(r.major) \o append_varint(r.minor) \o append_varint(r.timestamp)
        \o <<r.prev_hash, <<"nonce", r.nonce>>, tree_hash(r.txs)>>
        \o append_varint(Len(r.txs))

blob_object_hash(blob) == <<"id", append_varint(Len(blob)) \o blob>>

\* Mutant: the carry into the next limb is lost.
meets_difficulty_no_carry(hash, difficulty) ==
    (hash[Limbs] * difficulty) \div LimbBase = 0

\* The carry of meets_difficulty after each limb, least significant limb first.
carries(hash, difficulty) ==
    LET carry[i \in 0 .. Limbs] ==
            IF i = 0 THEN 0 ELSE (hash[i] * difficulty + carry[i - 1]) \div LimbBase
    IN  carry

\* meets_difficulty
meets_difficulty(hash, difficulty) == carries(hash, difficulty)[Limbs] = 0

-----------------------------------------------------------------------------
(* The chain.                                                              *)

Hashes == [1 .. Limbs -> 0 .. LimbBase - 1]

\* The RandomX hash of a blob: some hash.
pow_hash(blob) ==
    [i \in 1 .. Limbs |-> IF i = Limbs THEN Len(blob) % 2 ELSE (Len(blob) + i) % LimbBase]

Genesis == <<"id", <<>>>>

\* The record with the ID of its own blob.
Identified(r) == [r EXCEPT !.block_id = blob_object_hash(hashing_blob(r))]

\* The record of the block at height h on top of the block with ID prev.
BlockAt(h, prev) ==
    Identified(
        [height |-> h, major |-> 1 + (h % 2), minor |-> h % 2, timestamp |-> h % Timestamps,
         prev_hash |-> prev, nonce |-> h % 2,
         txs |-> [i \in 1 .. h + 1 |-> <<"tx", h, i>>], block_id |-> Genesis, wide_difficulty |-> 0])
ChainId[h \in 0 .. MaxHeight] ==
    BlockAt(h, IF h = 0 THEN Genesis ELSE ChainId[h - 1]).block_id
ChainBlock == [h \in 0 .. MaxHeight |-> BlockAt(h, IF h = 0 THEN Genesis ELSE ChainId[h - 1])]

-----------------------------------------------------------------------------
(* The tools; a failed assertion ends the tool without output.             *)

Fixture(r) ==
    LET blob == hashing_blob(r)
    IN  [height |-> r.height, block_id |-> r.block_id, prev_hash |-> r.prev_hash,
         timestamp |-> r.timestamp, wide_difficulty |-> r.wide_difficulty,
         hashing_blob |-> blob, pow_hash |-> pow_hash(blob)]

\* Mutant: the link to the block before is not looked at.
builder_accepts_unlinked(r) ==
    LET blob == hashing_blob(r)
    IN  /\ records # <<>> => r.height = records[1].height + Len(records)
        /\ AuditSeedHeight(r.height) = seed_height
        /\ blob_object_hash(blob) = r.block_id
        /\ meets_difficulty(pow_hash(blob), r.wide_difficulty)

\* What network_fixture_builder checks of its next record.
builder_accepts(r) ==
    LET blob == hashing_blob(r)
    IN  /\ records # <<>> => /\ r.height = records[1].height + Len(records)
                             /\ r.prev_hash = Last(records).block_id
        /\ AuditSeedHeight(r.height) = seed_height
        /\ blob_object_hash(blob) = r.block_id
        /\ meets_difficulty(pow_hash(blob), r.wide_difficulty)

\* What validate_recent_mainnet_blocks checks of a fixture: the blob and the
\* hash are those that were written.
validator_accepts(i) ==
    LET b == blocks[i]
    IN  /\ b.height = blocks[1].height + (i - 1)
        /\ AuditSeedHeight(b.height) = seed_height
        /\ i > 1 => b.prev_hash = blocks[i - 1].block_id
        /\ blob_object_hash(b.hashing_blob) = b.block_id
        /\ meets_difficulty(b.pow_hash, b.wide_difficulty)
        /\ pow_hash(b.hashing_blob) = b.pow_hash

\* What monero_block_input checks of its record, under the given seed height.
recorder_accepts(r, seed) ==
    LET blob == hashing_blob(r)
    IN  /\ AuditSeedHeight(r.height) = seed
        /\ blob_object_hash(blob) = r.block_id
        /\ meets_difficulty(pow_hash(blob), r.wide_difficulty)

\* The requester's own append_varint and meets_difficulty.
requester_append_varint(value) ==
    LET byte(n) == <<"byte", n>>
        rest[v \in 0 .. value] ==
            IF v >= VarintBase
            THEN <<byte((v % VarintBase) + VarintBase)>> \o rest[v \div VarintBase]
            ELSE <<byte(v)>>
    IN  rest[value]

requester_meets_difficulty(hash, difficulty) ==
    LET carry[i \in 0 .. Limbs] ==
            IF i = 0 THEN 0 ELSE (hash[i] * difficulty + carry[i - 1]) \div LimbBase
    IN  carry[Limbs] = 0

\* What its validate_input checks of the block recorded for it; it does not
\* compute the RandomX hash.
requester_accepts(b) ==
    /\ Len(b.hashing_blob) = SelectedLength
    /\ <<"id", requester_append_varint(Len(b.hashing_blob)) \o b.hashing_blob>> = b.block_id
    /\ seed_height = ProverSeedHeight(b.height)
    /\ requester_meets_difficulty(b.pow_hash, b.wide_difficulty)

RecordInit ==
    /\ Init
    /\ status = "idle" /\ seed_height = 0
    /\ records = <<>> /\ blocks = <<>> /\ input = NoInput

Grow == NewBlock /\ UNCHANGED toolVars

\* The seed heights an operator may give: one of the blocks so far.
SeedHeights == {AuditSeedHeight(h) : h \in 0 .. height}

\* network_fixture_builder starts.
Start(seed) ==
    /\ status = "idle"
    /\ status' = "building"
    /\ seed_height' = seed
    /\ UNCHANGED <<height, prover, audit, records, blocks, input>>

\* One iteration of its loop.
build_fixture(r) ==
    /\ status = "building"
    /\ IF builder_accepts(r)
       THEN /\ records' = Append(records, r)
            /\ blocks' = Append(blocks, Fixture(r))
            /\ status' = IF Len(blocks') = FixtureBlocks THEN "built" ELSE "building"
       ELSE status' = "failed" /\ UNCHANGED <<records, blocks>>
    /\ UNCHANGED <<height, prover, audit, seed_height, input>>

\* validate_recent_mainnet_blocks, later, from the fixtures alone.
validate_recent_mainnet_blocks ==
    /\ status = "built"
    /\ status' = IF Len(blocks) = FixtureBlocks /\ \A i \in DOMAIN blocks : validator_accepts(i)
                 THEN "valid" ELSE "invalid"
    /\ UNCHANGED <<height, prover, audit, seed_height, records, blocks, input>>

\* monero_block_input records one block.
monero_block_input(r, seed) ==
    /\ status = "idle"
    /\ seed_height' = seed
    /\ IF recorder_accepts(r, seed)
       THEN input' = Fixture(r) /\ status' = "recorded"
       ELSE input' = input /\ status' = "failed"
    /\ UNCHANGED <<height, prover, audit, records, blocks>>

\* The requester's validate_input, of the block recorded for it.
validate_input ==
    /\ status = "recorded"
    /\ status' = IF requester_accepts(input) THEN "accepted" ELSE "refused"
    /\ UNCHANGED <<height, prover, audit, seed_height, records, blocks, input>>

\* The tool ends; the next one starts from nothing.
End ==
    /\ status \in {"failed", "valid", "invalid", "accepted", "refused"}
    /\ status' = "idle"
    /\ seed_height' = 0 /\ records' = <<>> /\ blocks' = <<>> /\ input' = NoInput
    /\ UNCHANGED <<height, prover, audit>>

RecordNext ==
    \/ Grow
    \/ \E seed \in SeedHeights : Start(seed)
    \/ \E h \in 0 .. height : \E r \in Served[h] : build_fixture(r)
    \/ validate_recent_mainnet_blocks
    \/ \E h \in 0 .. height : \E r \in Served[h], seed \in SeedHeights : monero_block_input(r, seed)
    \/ validate_input
    \/ End

RecordSpec == RecordInit /\ [][RecordNext]_recordVars

-----------------------------------------------------------------------------
(* Properties *)

\* The weight of each limb, and the number the limbs up to each one are.
Place[i \in 0 .. Limbs] == IF i = 0 THEN 1 ELSE LimbBase * Place[i - 1]
Value(hash) ==
    LET low[i \in 0 .. Limbs] == IF i = 0 THEN 0 ELSE low[i - 1] + hash[i] * Place[i - 1]
    IN  low

\* A fixture, and the block recorded for the requester, really has the work it
\* declares: its hash times its difficulty fits the width of a hash.  And
\* meets_difficulty, which carries limb by limb, would have told every other
\* hash right at that difficulty, without a product that leaves its u128.
DifficultyExact ==
    LET enough(p, d) == Value(p)[Limbs] * d < Place[Limbs]
        held == ToSet(blocks) \cup ({input} \ {NoInput})
    IN  \A b \in held :
           /\ enough(b.pow_hash, b.wide_difficulty)
           /\ \A p \in Hashes :
                 /\ meets_difficulty(p, b.wide_difficulty) <=> enough(p, b.wide_difficulty)
                 /\ \A i \in 1 .. Limbs :
                       p[i] * b.wide_difficulty + carries(p, b.wide_difficulty)[i - 1]
                           < LimbBase * LimbBase

\* What the builder has accepted is bound by the ID of the last block: when that
\* is a block of the chain, all of them are, one after the other, in every field
\* of the record that the hashing blob holds, whatever the endpoint served.
TipBindsRecords ==
    \A h \in 0 .. height :
        records # <<>> /\ Last(records).block_id = ChainBlock[h].block_id =>
            \A i \in DOMAIN records :
                LET n == h - Len(records) + i
                IN  /\ n >= 0
                    /\ \A f \in DOMAIN ChainBlock[n] \ {"height", "wide_difficulty"} :
                          records[i][f] = ChainBlock[n][f]

\* The four programs have checks of their own, and none refuses what another
\* has let pass: validate_recent_mainnet_blocks, which has the fixtures alone,
\* accepts what network_fixture_builder wrote, and the requester refuses a block
\* that monero_block_input recorded only for its length or for a seed height
\* that it computes differently.
RecordedValidates ==
    /\ status # "invalid"
    /\ status = "refused" =>
          \/ Len(input.hashing_blob) # SelectedLength
          \/ ProverSeedHeight(input.height) # AuditSeedHeight(input.height)

\* The node that the digits of place lead to in a binary tree with room for
\* width leaves, a power of two.
NodeAt(tree, width, place) ==
    LET at[w \in 1 .. width] ==         \* the one with room for w leaves
            IF 2 * w > width THEN tree ELSE at[2 * w][2 + ((place \div w) % 2)]
    IN  at[1]

PowerOf2(n) == \A d \in 2 .. n : n % d = 0 => d % 2 = 0

\* tree_hash, which overwrites each level with the next, hashes every
\* transaction once and in order, in the shape CryptoNote fixes: the least tree
\* with room for all of them, the last ones at its lowest level and the first
\* ones, as many as there are places left, one level above it.
TreeCanonical ==
    LET txs   == ChainBlock[height].txs
        count == Len(txs)
        tree  == tree_hash(txs)
    IN  \E width \in count .. 2 * count - 1 :
           /\ PowerOf2(width)
           /\ \A i \in 1 .. count :
                 txs[i] = IF i <= width - count
                          THEN NodeAt(tree, width \div 2, i - 1)
                          ELSE NodeAt(tree, width, width - count + i - 1)
=============================================================================
