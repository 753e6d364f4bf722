------------------------------ MODULE Decoding ------------------------------
(***************************************************************************)
(* whisper_full_with_state: windows of the audio are decoded one after     *)
(* another, each at rising temperatures until a hypothesis is good enough. *)
(* Several decoders extend their hypotheses by one token at a time and     *)
(* share one KV cache.  Probabilities are left out: any token that the     *)
(* filters of whisper_process_logits leave may be sampled, any hypothesis  *)
(* may be the best.                                                        *)
(***************************************************************************)
EXTENDS KvCache, SequencesExt

CONSTANTS
    Words,              \* number of text tokens
    Chunk,              \* frames of a window, 100 * WHISPER_CHUNK_SIZE in the code
    DeltaMin,           \* no less is decoded, 10 in the code
    NearEnd,            \* 500 in the code
    MaxInitial,         \* the highest first timestamp, tid0
    TextCtx,            \* n_text_ctx
    CachePad,           \* 256 in the code
    EntropyWindow,      \* 32 in the code
    MaxDecoders,        \* WHISPER_MAX_DECODERS
    Requests            \* parameters, length of the audio and earlier context

HistoryCutoff == 5      \* WHISPER_HISTORY_CONDITIONING_TEMP_CUTOFF, in tenths

\* Temperatures are in tenths.  n_init counts the tokens of prompt_init; past0 and
\* past1 are the lengths of prompt_past0 and prompt_past1 after the initial prompt.
Request ==
    [strategy : {"greedy", "beam"}, best_of : Int, beam_size : Nat \ {0},
     temperatures : Seq(Nat), no_timestamps : BOOLEAN, single_segment : BOOLEAN,
     max_tokens : Nat, n_max_text_ctx : Nat, carry : BOOLEAN,
     n_init : 1 .. 4, past0 : Nat, past1 : Nat, seek_end : Nat]

ASSUME DecodingAssumption ==
    /\ Words \in Nat \ {0} /\ DeltaMin \in Nat \ {0} /\ NearEnd \in Nat
    /\ Chunk \in Nat \ {0} /\ Chunk % 2 = 0 /\ MaxInitial \in Nat
    /\ TextCtx \in Nat /\ TextCtx > 9 /\ TextCtx % 2 = 0
    /\ CachePad \in Nat \ {0} /\ EntropyWindow \in Nat /\ MaxDecoders \in Nat \ {0}
    /\ Requests \subseteq Request
    /\ \A r \in Requests :
          /\ r.temperatures # <<>> /\ r.best_of <= MaxDecoders
          /\ r.beam_size <= MaxDecoders
          /\ r.past0 # 0 => r.carry /\ r.past0 < Min({r.n_max_text_ctx, TextCtx \div 2})

VARIABLES
    pc,
    params,             \* the request
    seek,               \* the window starts here
    past1,              \* length of the rolling context, prompt_past1
    past0,              \* length of the carried initial prompt, prompt_past0
    it,                 \* index of the temperature
    i,                  \* index of the token
    prompt,             \* length of the prompt, and whether it has a history
    decoders,
    best_decoder_id,
    kv_self,
    kv_self_n_dec

vars == <<pc, params, seek, past1, past0, it, i, prompt, decoders, best_decoder_id,
          kv_self, kv_self_n_dec>>

\* Text tokens are 0 .. Words - 1; the token k after token_beg is the time 2 * k.
token_eot == Words
token_beg == Words + 1
Tokens == 0 .. token_beg + Chunk \div 2

n_max == TextCtx \div 2 - 4
max_prompt_ctx == Min({params.n_max_text_ctx, TextCtx \div 2})

NewDecoder ==
    [tokens |-> <<>>, result_len |-> 0, seek_delta |-> Chunk,
     failed |-> FALSE, completed |-> FALSE, has_ts |-> FALSE]

Live(d) == ~d.failed /\ ~d.completed

n_decoders(k) ==
    LET wanted == IF params.temperatures[k] > 0 THEN params.best_of
                  ELSE IF params.strategy = "beam" THEN params.beam_size ELSE 1
    IN Max({1, wanted})

\* The decoders in use, those of ds that go on, and these in order.
Current == 0 .. n_decoders(it) - 1
LiveOnes(ds) == {j \in Current : Live(ds[j])}
InOrder(S) ==
    CHOOSE f \in [1 .. Cardinality(S) -> S] : \A a, b \in DOMAIN f : a < b => f[a] < f[b]

Init ==
    /\ pc = "window"
    /\ params \in Requests
    /\ seek = 0
    /\ past0 = params.past0 /\ past1 = params.past1
    /\ it = 1 /\ i = 0
    /\ prompt = [len |-> 0, history |-> FALSE]
    /\ decoders = [j \in 0 .. MaxDecoders - 1 |-> NewDecoder]
    /\ best_decoder_id = 0
    /\ kv_self = KvInit(Pad(TextCtx, CachePad))
    /\ kv_self_n_dec = 1
-----------------------------------------------------------------------------
\* The head of the main loop: the window at seek is encoded; close to the end the
\* history is dropped.
Window ==
    /\ pc = "window"
    /\ IF seek + DeltaMin >= params.seek_end
       THEN pc' = "done" /\ UNCHANGED <<past0, past1, best_decoder_id, it>>
       ELSE /\ pc' = "begin"
            /\ LET near == seek > 0 /\ seek + NearEnd >= params.seek_end IN
               /\ past0' = IF near THEN 0 ELSE past0
               /\ past1' = IF near THEN 0 ELSE past1
            /\ best_decoder_id' = 0 /\ it' = 1
    /\ UNCHANGED <<params, seek, i, prompt, decoders, kv_self, kv_self_n_dec>>

\* Mutant: no room is kept for the token that marks the history.
Prompt_NoRoom ==
    LET take0   == IF params.carry THEN past0 ELSE 0
        history == /\ params.temperatures[it] < HistoryCutoff
                   /\ max_prompt_ctx > 0
                   /\ take0 > 0 \/ past1 > 0
        take1   == Min({max_prompt_ctx - take0, past1})
    IN [len |-> params.n_init + IF history THEN 1 + take0 + take1 ELSE 0,
        history |-> history]

\* The prompt: history, if there is any and the temperature is low, then prompt_init.
Prompt ==
    LET take0   == IF params.carry THEN past0 ELSE 0
        history == /\ params.temperatures[it] < HistoryCutoff
                   /\ max_prompt_ctx > 0
                   /\ take0 > 0 \/ past1 > 0
        take1   == Min({max_prompt_ctx - take0 - 1, past1})
    IN [len |-> params.n_init + IF history THEN 1 + take0 + take1 ELSE 0,
        history |-> history]

\* Mutant: one decoder's share, whatever their number.
CacheFor_OneShare(n) ==
    IF kv_self_n_dec < n THEN KvInit(Pad(TextCtx, CachePad)) ELSE kv_self

\* The cache grows when more decoders are used than ever before.
CacheFor(n) ==
    IF kv_self_n_dec < n
    THEN KvInit(Pad(TextCtx, CachePad) * (IF n > 1 THEN n + 2 ELSE 1))
    ELSE kv_self

PromptBatch(len) == [k \in 1 .. len |-> [pos |-> k - 1, seq |-> 0, data |-> <<>>]]

\* The decoders of a temperature start over: the prompt is decoded once, for
\* decoder 0, and shared with the others.
BeginDecoding ==
    /\ pc = "begin"
    /\ prompt' = Prompt
    /\ decoders' = [j \in DOMAIN decoders |-> IF j \in Current THEN NewDecoder
                                              ELSE decoders[j]]
    /\ kv_self_n_dec' = Max({kv_self_n_dec, n_decoders(it)})
    /\ LET cache == KvClear(CacheFor(n_decoders(it)))
           batch == PromptBatch(Prompt.len)
       IN IF Slots(cache, Len(batch)) = {}
          THEN pc' = "no slot" /\ kv_self' = cache
          ELSE /\ pc' = "sample"
               /\ kv_self' = FoldLeft(LAMBDA kv, j : KvSeqCp(kv, 0, j), KvStore(cache, batch),
                                      [j \in 1 .. n_decoders(it) - 1 |-> j])
    /\ i' = 0
    /\ UNCHANGED <<params, seek, past0, past1, it, best_decoder_id>>
-----------------------------------------------------------------------------
\* What the filters of whisper_process_logits leave of the tokens.
Sampleable(d) ==
    LET n        == Len(d.tokens)
        last     == n > 0 /\ d.tokens[n] >= token_beg
        before   == n < 2 \/ d.tokens[n - 1] >= token_beg
        no_stamp == params.no_timestamps \/ (last /\ before)
        no_text  == \/ /\ ~params.no_timestamps /\ ~params.single_segment
                       /\ params.max_tokens > 0 /\ n >= params.max_tokens
                    \/ last /\ ~before
        earliest == token_beg + IF d.has_ts THEN d.seek_delta \div 2 ELSE 0
        latest   == token_beg + IF n = 0 THEN MaxInitial ELSE Chunk \div 2
    IN {token \in Tokens :
           /\ token = token_eot => n > 0
           /\ token < token_eot => ~no_text
           /\ token >= token_beg => ~no_stamp /\ token >= earliest /\ token <= latest}

SampleGreedy ==
    /\ pc = "sample" /\ params.strategy = "greedy"
    /\ \E token \in [LiveOnes(decoders) -> Tokens] :
          /\ \A j \in DOMAIN token : token[j] \in Sampleable(decoders[j])
          /\ decoders' = [j \in DOMAIN decoders |->
                             IF j \in DOMAIN token
                             THEN [decoders[j] EXCEPT !.tokens = Append(@, token[j])]
                             ELSE decoders[j]]
    /\ pc' = "update"
    /\ UNCHANGED <<params, seek, past0, past1, it, i, prompt, best_decoder_id, kv_self,
                   kv_self_n_dec>>

\* Beam search.  A candidate continues the hypothesis of a decoder with a token.
Candidate == [decoder_idx : LiveOnes(decoders), token : Tokens]
Hypothesis(c) == Append(decoders[c.decoder_idx].tokens, c.token)

\* Every live decoder draws beam_size tokens, and may draw one twice; the candidates
\* are sorted by their probability, so that equal ones are together.
Draws(d) ==
    {draw \in [1 .. params.beam_size -> Sampleable(d)] :
        \A a, b \in DOMAIN draw : a < b => draw[a] <= draw[b]}

AllDraws ==
    {f \in [LiveOnes(decoders) -> UNION {Draws(decoders[j]) : j \in LiveOnes(decoders)}] :
        \A j \in DOMAIN f : f[j] \in Draws(decoders[j])}

Candidates(draws) ==
    LET live == InOrder(DOMAIN draws) IN
    FlattenSeq([k \in DOMAIN live |->
                  [a \in 1 .. params.beam_size |->
                     [decoder_idx |-> live[k], token |-> draws[live[k]][a]]]])

Sorted(candidates, order) ==
    FlattenSeq([k \in DOMAIN order |->
                  SelectSeq(candidates, LAMBDA c : Hypothesis(c) = order[k])])

\* Where the search for the next candidate goes on after candidate c: equal hypotheses
\* are passed over, but for the first token.
After(sorted, c) ==
    Min({Len(sorted) + 1} \cup
        {k \in c + 1 .. Len(sorted) : i > 0 => Hypothesis(sorted[k]) # Hypothesis(sorted[c])})

\* The candidates that the live decoders take, in turn.
Taken(sorted) ==
    FoldLeft(LAMBDA taken, j :
                LET c == IF taken = <<>> \/ After(sorted, Last(taken)) > Len(sorted) THEN 1
                         ELSE After(sorted, Last(taken))
                IN Append(taken, c),
             <<>>, InOrder(LiveOnes(decoders)))

Outcome(sorted) ==
    [j \in LiveOnes(decoders) |->
        sorted[Taken(sorted)[Cardinality({k \in LiveOnes(decoders) : k <= j})]]]

Outcomes ==
    UNION {LET candidates == Candidates(draws) IN
           {Outcome(Sorted(candidates, order)) :
               order \in SetToSeqs({Hypothesis(c) : c \in ToSet(candidates)})} :
           draws \in AllDraws}

\* Mutant: every decoder's sequence is replaced at once, nothing is copied aside.
TakeOver_InPlace(kv, chosen) ==
    FoldLeft(LAMBDA c, j : IF chosen[j].decoder_idx = j THEN c
                           ELSE KvSeqCp(KvSeqRm(c, j), chosen[j].decoder_idx, j),
             kv, InOrder(DOMAIN chosen))

\* A decoder takes over the sequence it continues: all are copied aside first, and
\* then moved to where they are needed.
TakeOver(kv, chosen) ==
    LET live  == InOrder(DOMAIN chosen)
        aside == FoldLeft(LAMBDA c, j : KvSeqCp(c, chosen[j].decoder_idx, MaxDecoders + j),
                          kv, live)
    IN FoldLeft(LAMBDA c, j : KvSeqRm(KvSeqCp(KvSeqRm(c, j), MaxDecoders + j, j), MaxDecoders + j),
                aside, live)

SampleBeam ==
    /\ pc = "sample" /\ params.strategy = "beam"
    /\ LET outcomes == Outcomes IN
       \E chosen \in [LiveOnes(decoders) -> Candidate] :
          /\ chosen \in outcomes
          /\ decoders' =
                [j \in DOMAIN decoders |->
                    IF j \in DOMAIN chosen
                    THEN [decoders[chosen[j].decoder_idx] EXCEPT !.tokens = Hypothesis(chosen[j])]
                    ELSE decoders[j]]
          /\ kv_self' = TakeOver(kv_self, chosen)
    /\ pc' = "update"
    /\ UNCHANGED <<params, seek, past0, past1, it, i, prompt, best_decoder_id, kv_self_n_dec>>
-----------------------------------------------------------------------------
\* Mutant: token_beg counts as a timestamp.
Stamped_Beg(d) ==
    IF Last(d.tokens) >= token_beg
    THEN [d EXCEPT !.seek_delta = 2 * (Last(d.tokens) - token_beg), !.result_len = i + 1,
                   !.has_ts = TRUE]
    ELSE d

\* Decoder d after its last token: a timestamp moves the end of the window.
Stamped(d) ==
    LET token == Last(d.tokens) IN
    IF token > token_beg
    THEN [d EXCEPT !.seek_delta = 2 * (token - token_beg), !.result_len = i + 1,
                   !.has_ts = TRUE]
    ELSE d

GoesBack(d) ==
    /\ Last(d.tokens) > token_beg /\ d.has_ts /\ d.result_len < i
    /\ d.seek_delta > 2 * (Last(d.tokens) - token_beg)

AtEndOfAudio(d) == seek + d.seek_delta + DeltaMin >= params.seek_end

EndsSegment(d) ==
    \/ Last(d.tokens) = token_eot
    \/ params.max_tokens > 0 /\ i >= params.max_tokens
    \/ d.has_ts /\ AtEndOfAudio(d)

Completed(d) ==
    LET whole   == params.single_segment \/ params.no_timestamps
        nothing == d.result_len = 0 /\ ~params.no_timestamps
    IN IF nothing /\ ~AtEndOfAudio(d)
       THEN [d EXCEPT !.failed = TRUE]
       ELSE [d EXCEPT !.completed = TRUE,
                      !.result_len = IF whole \/ nothing THEN i + 1 ELSE @,
                      !.seek_delta = IF whole THEN Chunk ELSE @]

\* Mutant: a hypothesis without a result does not fail.
Repeats_NoResult(d) == i = n_max - 1 /\ d.seek_delta < Chunk \div 2

Repeats(d) == i = n_max - 1 /\ (d.result_len = 0 \/ d.seek_delta < Chunk \div 2)

Updated(d) ==
    IF GoesBack(d) THEN [d EXCEPT !.failed = TRUE]
    ELSE LET s == Stamped(d) IN
         IF EndsSegment(s) THEN Completed(s) ELSE [s EXCEPT !.failed = Repeats(s)]

UpdatedDecoders ==
    [j \in DOMAIN decoders |->
        IF j \in LiveOnes(decoders) THEN Updated(decoders[j]) ELSE decoders[j]]

NextBatch(ds) ==
    LET live == InOrder(LiveOnes(ds)) IN
    [k \in DOMAIN live |->
        [pos |-> prompt.len + i, seq |-> live[k], data |-> ds[live[k]].tokens]]

\* The end of an iteration: the decoders that are still live decode their tokens.
Update ==
    /\ pc = "update"
    /\ LET updated == UpdatedDecoders
           batch   == NextBatch(updated)
       IN /\ decoders' = updated
          /\ IF LiveOnes(updated) = {}
             THEN pc' = "rank" /\ UNCHANGED <<kv_self, i>>
             ELSE IF Slots(kv_self, Len(batch)) = {}
             THEN pc' = "no slot" /\ UNCHANGED <<kv_self, i>>
             ELSE /\ kv_self' = KvStore(kv_self, batch)
                  /\ i' = i + 1
                  /\ pc' = IF i + 1 < n_max THEN "sample" ELSE "rank"
    /\ UNCHANGED <<params, seek, past0, past1, it, prompt, best_decoder_id, kv_self_n_dec>>
-----------------------------------------------------------------------------
\* Hypotheses are cut to their result, and a repetitive one fails.
Ranked(repetitive) ==
    [j \in DOMAIN decoders |->
        IF j \in Current /\ ~decoders[j].failed
        THEN [decoders[j] EXCEPT !.tokens = SubSeq(@, 1, decoders[j].result_len),
                                 !.failed = j \in repetitive]
        ELSE decoders[j]]

\* The best of those that have a score is chosen, or the choice of an earlier
\* temperature stays; the temperature rises if it is not good enough.
Rank ==
    /\ pc = "rank"
    /\ \E repetitive \in SUBSET {j \in Current : /\ ~decoders[j].failed
                                                 /\ decoders[j].result_len > EntropyWindow},
          improbable \in BOOLEAN :
          LET ranked == Ranked(repetitive)
              scored == {j \in Current : ~ranked[j].failed /\ ranked[j].result_len > 0}
          IN \E best \in IF scored = {} THEN {best_decoder_id} ELSE scored :
                /\ decoders' = ranked
                /\ best_decoder_id' = best
                /\ IF it < Len(params.temperatures) /\ (ranked[best].failed \/ improbable)
                   THEN pc' = "begin" /\ it' = it + 1
                   ELSE pc' = "output" /\ it' = it
    /\ UNCHANGED <<params, seek, past0, past1, i, prompt, kv_self, kv_self_n_dec>>

\* The last token is a timestamp and the one before is not: the window is done.
EndsOnTimestamp(tokens) ==
    LET n == Len(tokens) IN
    /\ n > 1
    /\ ~(params.max_tokens > 0 /\ ~params.single_segment /\ n > params.max_tokens)
    /\ tokens[n - 1] < token_beg /\ tokens[n] > token_beg

\* The segments of the best hypothesis are written, the history is updated, and the
\* window moves.
Output ==
    /\ pc = "output"
    /\ LET best == decoders[best_decoder_id] IN
       /\ \E no_speech \in BOOLEAN :
             past1' = (IF ~params.carry /\ prompt.history
                       THEN prompt.len - 1 - params.n_init ELSE 0)
                         + IF no_speech THEN 0 ELSE best.result_len
       /\ seek' = seek + IF EndsOnTimestamp(best.tokens)
                         THEN Min({params.seek_end - seek, Chunk})
                         ELSE best.seek_delta
    /\ pc' = "window"
    /\ UNCHANGED <<params, past0, it, i, prompt, decoders, best_decoder_id, kv_self,
                   kv_self_n_dec>>

Next == Window \/ BeginDecoding \/ SampleGreedy \/ SampleBeam \/ Update \/ Rank \/ Output

Spec == Init /\ [][Next]_vars
-----------------------------------------------------------------------------
\* A decoder that goes on sees every token of its own hypothesis, from the prompt on,
\* in exactly one cell, and no token of another: the cells that beam search shared,
\* moved and freed, and those that the last batch filled, are the right ones.
OwnContextOnce ==
    pc = "sample" =>
        \A j \in LiveOnes(decoders) :
            LET len   == prompt.len + i
                cells == Visible(kv_self, j, len - 1)
            IN /\ Cardinality(cells) = len
               /\ \A p \in 0 .. len - 1 : \E c \in cells :
                     /\ kv_self.cells[c].pos = p
                     /\ kv_self.cells[c].data =
                           SubSeq(decoders[j].tokens, 1, p - prompt.len + 1)

\* The cache is large enough for all decoders however its cells are scattered.
SlotsFound == pc # "no slot"

\* Prompt and tokens have a position in the model's text context.
TextFits == pc = "update" => prompt.len + i < TextCtx

\* A failed hypothesis, or one that an earlier temperature left behind, is written
\* only when every decoder of the last temperature failed.
BestUsable ==
    pc = "output" =>
        \/ best_decoder_id \in Current /\ ~decoders[best_decoder_id].failed
        \/ \A j \in Current : decoders[j].failed

\* Every window moves on, whichever hypothesis it ends with: together with the bounds on
\* temperatures and tokens this is why the loop ends.
WindowsMoveOn == [][pc = "output" => seek' > seek]_vars
=============================================================================
