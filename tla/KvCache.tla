------------------------------ MODULE KvCache ------------------------------
(***************************************************************************)
(* whisper_kv_cache: the keys and values of tokens that were decoded, in   *)
(* cells that several hypotheses share.  A cell holds the position of its  *)
(* token and the sequences it belongs to; data stands for the keys and     *)
(* values, which are those of a token after the tokens before it.          *)
(***************************************************************************)
EXTENDS Integers, Sequences, FiniteSetsExt

CONSTANT Padding        \* what the number of visible cells is padded to
ASSUME PaddingAssumption == Padding \in Nat \ {0}

Pad(x, n) == ((x + n - 1) \div n) * n

FreeCell == [pos |-> -1, seq_id |-> {}, data |-> <<>>]

\* whisper_kv_cache_init and whisper_kv_cache_clear.
KvInit(size) ==
    [head |-> 0, size |-> size, n |-> 0, cells |-> [i \in 0 .. size - 1 |-> FreeCell]]

KvClear(kv) ==
    [kv EXCEPT !.head = 0, !.cells = [i \in DOMAIN kv.cells |-> FreeCell]]
-----------------------------------------------------------------------------
\* The starts of n free cells in a row: the search takes the first from head on
\* and goes round once.
Slots(kv, n) ==
    {s \in 0 .. kv.size - n : \A i \in s .. s + n - 1 : kv.cells[i].pos < 0}

Slot(kv, n) ==
    LET ahead == {s \in Slots(kv, n) : s >= kv.head} IN
    Min(IF ahead = {} THEN Slots(kv, n) ELSE ahead)

\* Mutant: the index of the last cell, not the number of cells.
CellMax_Index(kv) ==
    Max({1} \cup {i \in DOMAIN kv.cells : kv.cells[i].pos >= 0 /\ kv.cells[i].seq_id # {}})

\* One more than the last cell in use, at least 1.
CellMax(kv) ==
    Max({1} \cup {i + 1 : i \in {c \in DOMAIN kv.cells :
                                    kv.cells[c].pos >= 0 /\ kv.cells[c].seq_id # {}}})

\* What whisper_decode_internal does to the cache for a batch: find_slot, then the
\* number of cells that attention looks at.
KvStore(kv, batch) ==
    LET head  == Slot(kv, Len(batch))
        cells == [i \in DOMAIN kv.cells |->
                     IF i \in head .. head + Len(batch) - 1
                     THEN [pos    |-> batch[i - head + 1].pos,
                           seq_id |-> kv.cells[i].seq_id \cup {batch[i - head + 1].seq},
                           data   |-> batch[i - head + 1].data]
                     ELSE kv.cells[i]]
        used  == Pad(CellMax([kv EXCEPT !.cells = cells]), Padding)
    IN [kv EXCEPT !.head = head, !.cells = cells,
                  !.n = Min({kv.size, Max({Padding, used})})]

\* whisper_kv_cache_seq_rm, of the whole sequence: a cell that loses its last
\* sequence is free, and the next search starts at the first one.
KvSeqRm(kv, seq) ==
    LET cells == [i \in DOMAIN kv.cells |->
                     IF kv.cells[i].seq_id = {seq} THEN FreeCell
                     ELSE [kv.cells[i] EXCEPT !.seq_id = @ \ {seq}]]
        freed == {i \in DOMAIN kv.cells : kv.cells[i].seq_id = {seq}}
    IN [kv EXCEPT !.cells = cells, !.head = IF freed = {} THEN @ ELSE Min(freed)]

\* whisper_kv_cache_seq_cp, of the whole sequence.
KvSeqCp(kv, src, dst) ==
    [kv EXCEPT !.head = 0,
               !.cells = [i \in DOMAIN kv.cells |->
                             IF src \in kv.cells[i].seq_id
                             THEN [kv.cells[i] EXCEPT !.seq_id = @ \cup {dst}]
                             ELSE kv.cells[i]]]

\* The cells that the attention mask leaves to a token of seq at pos.
Visible(kv, seq, pos) ==
    {i \in 0 .. kv.n - 1 : seq \in kv.cells[i].seq_id /\ kv.cells[i].pos <= pos}
=============================================================================
