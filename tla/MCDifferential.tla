--------------------------- MODULE MCDifferential ---------------------------
EXTENDS Differential

Raw(op, dst, src, modifier, imm) ==
    [op |-> op, dst |-> dst, src |-> src,
     mem |-> modifier[1], shft |-> modifier[2], cond |-> modifier[3], imm |-> imm]

\* The first and the last byte of every opcode.
Bounds == {CompactOpcodes[n][2] : n \in DOMAIN CompactOpcodes}
MCBytes == {0} \cup (Bounds \ {256}) \cup {b - 1 : b \in Bounds}

Modifiers == {<<0, 3, 3>>, <<1, 1, 0>>, <<3, 0, 2>>, <<0, 2, 1>>}

\* One instruction of every kind, with equal and different registers, the
\* displaced register 5, registers to reduce, and immediates of both signs,
\* a power of two and zero.
EveryInstr ==
    {Raw(op, regs[1], regs[2], modifier, imm) :
        op \in MCBytes, regs \in {<<1, 6>>, <<6, 1>>, <<5, 5>>, <<13, 2>>},
        modifier \in Modifiers, imm \in {0, 5, 37, 127, 128, 250}}

\* Instructions that act on each other: a store and loads of what it wrote,
\* rounding modes and the operations they govern, branches over them.
MixedInstrs ==
    {Raw(255, 1, 0, <<1, 0, 0>>, 8), Raw(16, 0, 1, <<1, 0, 0>>, 248),
     Raw(239, 0, 0, <<0, 0, 0>>, 1), Raw(124, 2, 3, <<0, 0, 0>>, 0),
     Raw(204, 1, 1, <<1, 0, 0>>, 16), Raw(214, 0, 0, <<0, 0, 1>>, 250),
     Raw(116, 0, 1, <<0, 0, 0>>, 0), Raw(76, 0, 0, <<0, 0, 0>>, 200)}

\* Every immediate of IMUL_RCP.
ReciprocalInstrs == {Raw(76, 1, 0, <<0, 0, 0>>, imm) : imm \in 0 .. HalfRange - 1}

\* A store, a load of what it wrote, an addition: what follows the instruction
\* under test.
Followers == <<{Raw(255, 1, 0, <<1, 0, 0>>, 8)}, {Raw(16, 0, 1, <<1, 0, 0>>, 248)},
               {Raw(124, 2, 3, <<0, 0, 0>>, 0)}>>

Pad(seed) == [k \in 0 .. ScratchWords - 1 |-> ((k + 1) * seed) % WordRange]
\* Sixteen words, of which the registers to read and the offset are chosen.
Words(seed) == [i \in 0 .. 15 |-> (seed * (7919 * i + 5)) % WordRange]
Entropy1 == [Words(201) EXCEPT ![12] = 10, ![13] = 2]
Entropy2 == [Words(19) EXCEPT ![12] = 5, ![13] = 5]

MCFeeds ==
    [every |-> [instrs |-> <<EveryInstr>> \o Followers,
                scratchpads |-> {Pad(0), Pad(40503)}, entropies |-> {Entropy1, Entropy2}],
     mixed |-> [instrs |-> [k \in 1 .. 4 |-> MixedInstrs],
                scratchpads |-> {Pad(40503)}, entropies |-> {Entropy1}],
     reciprocals |-> [instrs |-> <<ReciprocalInstrs>> \o Followers,
                      scratchpads |-> {Pad(40503)}, entropies |-> {Entropy2}]]
=============================================================================
