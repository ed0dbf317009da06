--------------------------- MODULE MCBlockRecord ---------------------------
(* An endpoint that serves the blocks of the chain, or alters some fields of *)
(* them, with the ID of the block or with the ID of what it serves.          *)
EXTENDS BlockRecord

Difficulties == {2, 3}

\* Other lists of transactions, the tree's own lowest level among them.
AlteredTransactions(txs) ==
    {Reverse(txs), Append(txs, Last(txs)), FirstLevel(txs)}
        \cup (IF Len(txs) = 1 THEN {} ELSE {Front(txs)})

\* Another varint, or two of them exchanged; another nonce or height; the block
\* before replaced by none or by another one; other transactions, alone and
\* with another varint.
Altered(r) ==
    {[r EXCEPT !.major = 3 - @], [r EXCEPT !.minor = 2], [r EXCEPT !.timestamp = 2]}
      \cup {[r EXCEPT !.major = r.minor, !.minor = r.major],
            [r EXCEPT !.minor = 2, !.timestamp = r.major]}
      \cup {[r EXCEPT !.nonce = 1 - @], [r EXCEPT !.height = @ + 1], [r EXCEPT !.prev_hash = Genesis]}
      \cup {[r EXCEPT !.prev_hash = Identified([ChainBlock[h] EXCEPT !.nonce = 1 - @]).block_id] :
              h \in {r.height - 1} \cap Nat}
      \cup UNION {{[r EXCEPT !.txs = txs], [r EXCEPT !.txs = txs, !.major = 3 - @]} :
                     txs \in AlteredTransactions(r.txs)}

MCServed ==
    [h \in 0 .. MaxHeight |->
        LET r == ChainBlock[h]
        IN  {[a EXCEPT !.wide_difficulty = d] :
                d \in Difficulties, a \in {r} \cup Altered(r) \cup {Identified(a) : a \in Altered(r)}}]
=============================================================================
