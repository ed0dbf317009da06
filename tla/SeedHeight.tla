---------------------------- MODULE SeedHeight ----------------------------
(***************************************************************************)
(* The height of the block whose ID is the RandomX key of a Monero block,  *)
(* computed twice in this repository: by the audit crate, which selects    *)
(* and records blocks (audit/src/network_fixtures.rs), and by the proof    *)
(* requester, which validates the recorded block before it submits it      *)
(* (network-prover/src/main.rs).  The chain grows block by block.          *)
(***************************************************************************)
EXTENDS Integers

CONSTANTS Epoch,        \* EPOCH_BLOCKS: 2048, a power of two
          Lag,          \* SEED_LAG: 64
          MaxHeight     \* bound on the chain

ASSUME SeedAssumption ==
    /\ Epoch \in Nat /\ Lag \in Nat /\ Lag < Epoch
    /\ MaxHeight \in Nat

VARIABLES height, prover, audit     \* and the seed height each part computes

vars == <<height, prover, audit>>

Quotient(n) == n \div Epoch

\* Mutant: the lag is not subtracted.
ProverSeedHeightNoLag(h) == Quotient(h) * Epoch

\* randomx_seed_height of the requester: a saturating subtraction.
ProverSeedHeight(h) == Quotient(IF h < Lag THEN 0 ELSE h - Lag) * Epoch

\* randomx_seed_height of the audit crate; & !(2048 - 1) clears the remainder.
AuditSeedHeight(h) ==
    IF h <= Epoch + Lag THEN 0 ELSE Quotient(h - Lag - 1) * Epoch

Init ==
    /\ height = 0
    /\ prover = ProverSeedHeight(0)
    /\ audit = AuditSeedHeight(0)

NewBlock ==
    /\ height < MaxHeight
    /\ height' = height + 1
    /\ prover' = ProverSeedHeight(height')
    /\ audit' = AuditSeedHeight(height')

Spec == Init /\ [][NewBlock]_vars

\* The two agree on every block but the one at which the requester has already
\* switched to a new key: Lag blocks into an epoch.
AgreeOffBoundary == prover = audit \/ (height >= Epoch /\ height % Epoch = Lag)

\* The audit crate switches to a key only when the requester has, and never to
\* another one.
AuditFollows == [][audit' # audit => audit' = prover]_vars

\* A block that the audit crate records with the seed height it asserts passes
\* the requester's check of the seed height.
RecordedBlockAccepted == prover = audit
=============================================================================
