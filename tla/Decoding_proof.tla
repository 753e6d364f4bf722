--------------------------- MODULE Decoding_proof ---------------------------
(***************************************************************************)
(* Proofs about Decoding for every model, request, length of audio and     *)
(* number of decoders: prompt and tokens stay in the text context, what is *)
(* written comes from a decoder that did not fail, if there is one, and    *)
(* windows move on; a batch always finds its cells in the KV cache, and    *)
(* what a decoder attends to is its own context, every position once.      *)
(*                                                                         *)
(* The first part is about windows and decoders, the second about the      *)
(* cache.  FoldLeft has no theorem that the provers can use: the folds     *)
(* over decoders are unfolded to a function on sets of steps, and what     *)
(* holds after k steps is proved by descending to a least counterexample.  *)
(***************************************************************************)
EXTENDS Decoding, FiniteSetTheorems, SequenceTheorems, WellFoundedInduction, TLAPS

Index == 0 .. MaxDecoders - 1

Decoder ==
    [tokens : Seq(Tokens), result_len : Nat, seek_delta : Nat \ {0},
     failed : BOOLEAN, completed : BOOLEAN, has_ts : BOOLEAN]

\* The types of what the windows and decoders depend on.
TypeInv ==
    /\ params \in Requests
    /\ seek \in Nat /\ past0 \in Nat /\ past1 \in Nat /\ i \in Nat
    /\ past0 <= params.past0
    /\ it \in DOMAIN params.temperatures
    /\ best_decoder_id \in Index
    /\ decoders \in [Index -> Decoder]

\* A window is decoded only when there is enough audio left.
WindowInv == pc \in {"begin", "sample", "update", "rank", "output"} =>
                seek + DeltaMin < params.seek_end

\* The prompt takes half the context and four tokens at most, the tokens the rest; and
\* a prompt with a history is longer than one without.
LengthInv ==
    /\ pc \in {"sample", "update"} => prompt.len <= 4 + TextCtx \div 2 /\ i < n_max
    /\ pc \in {"sample", "update", "rank", "output"} =>
          /\ prompt.len \in Int
          /\ ~params.carry /\ prompt.history => prompt.len >= 1 + params.n_init

\* The decoders that go on have the tokens of all iterations.
TokenInv ==
    /\ pc = "sample" => \A j \in LiveOnes(decoders) : Len(decoders[j].tokens) = i
    /\ pc = "update" => \A j \in LiveOnes(decoders) : Len(decoders[j].tokens) = i + 1

\* Results are made of tokens that exist, and a completed decoder has one.
ResultInv ==
    pc \in {"sample", "update", "rank"} =>
        \A j \in Current : /\ decoders[j].result_len <= Len(decoders[j].tokens)
                           /\ decoders[j].completed => decoders[j].result_len > 0

\* After the last iteration so has every decoder that did not fail.
RankInv == pc = "rank" => \A j \in Current : ~decoders[j].failed => decoders[j].result_len > 0

IInv == TypeInv /\ WindowInv /\ LengthInv /\ TokenInv /\ ResultInv /\ RankInv /\ BestUsable
-----------------------------------------------------------------------------
LEMMA MinOfTwo ==
    ASSUME NEW a \in Int, NEW b \in Int
    PROVE  Min({a, b}) \in {a, b} /\ Min({a, b}) <= a /\ Min({a, b}) <= b
<1>1. \E x \in {a, b} : \A y \in {a, b} : x <= y
  <2>1. CASE a <= b
    BY <2>1
  <2>2. CASE ~(a <= b)
    BY <2>2
  <2> QED
    BY <2>1, <2>2
<1>2. Min({a, b}) \in {a, b} /\ \A y \in {a, b} : Min({a, b}) <= y
  BY <1>1 DEF Min
<1> QED
  BY <1>2

LEMMA MaxOfTwo ==
    ASSUME NEW a \in Int, NEW b \in Int
    PROVE  Max({a, b}) \in {a, b} /\ a <= Max({a, b}) /\ b <= Max({a, b})
<1>1. \E x \in {a, b} : \A y \in {a, b} : x >= y
  <2>1. CASE a >= b
    BY <2>1
  <2>2. CASE ~(a >= b)
    BY <2>2
  <2> QED
    BY <2>1, <2>2
<1>2. Max({a, b}) \in {a, b} /\ \A y \in {a, b} : Max({a, b}) >= y
  BY <1>1 DEF Max
<1> QED
  BY <1>2

LEMMA RequestType ==
    ASSUME TypeInv
    PROVE  /\ params \in Request
           /\ params.temperatures \in Seq(Nat) /\ params.temperatures # <<>>
           /\ params.best_of \in Int /\ params.best_of <= MaxDecoders
           /\ params.beam_size \in Nat /\ params.beam_size <= MaxDecoders
           /\ params.n_init \in 1 .. 4 /\ params.n_max_text_ctx \in Nat
           /\ params.past0 \in Nat /\ params.seek_end \in Nat
           /\ params.no_timestamps \in BOOLEAN /\ params.single_segment \in BOOLEAN
BY DecodingAssumption DEF TypeInv, Request

\* No more decoders are used than there are.
LEMMA CurrentExist == ASSUME TypeInv PROVE Current \subseteq Index
<1>1. MaxDecoders \in Nat \ {0}
  BY DecodingAssumption
<1>2. \A w \in Int : w <= MaxDecoders => Max({1, w}) \in Int /\ Max({1, w}) <= MaxDecoders
  <2> SUFFICES ASSUME NEW w \in Int, w <= MaxDecoders
               PROVE  Max({1, w}) \in Int /\ Max({1, w}) <= MaxDecoders
    OBVIOUS
  <2>1. 1 \in Int
    OBVIOUS
  <2>2. Max({1, w}) \in {1, w}
    BY <2>1, MaxOfTwo, Zenon
  <2> QED
    BY <1>1, <2>2
<1> DEFINE w == IF params.temperatures[it] > 0 THEN params.best_of
                ELSE IF params.strategy = "beam" THEN params.beam_size ELSE 1
<1>3. w \in Int /\ w <= MaxDecoders
  BY <1>1, RequestType
<1>4. n_decoders(it) = Max({1, w})
  BY DEF n_decoders
<1> HIDE DEF w
<1> QED
  BY <1>1, <1>2, <1>3, <1>4 DEF Current, Index

\* The length of a prompt, whatever the temperature.
LEMMA PromptFits ==
    ASSUME TypeInv
    PROVE  /\ Prompt.len \in Int /\ Prompt.len <= 4 + TextCtx \div 2
           /\ ~params.carry /\ Prompt.history => Prompt.len >= 1 + params.n_init
<1> DEFINE take0 == IF params.carry THEN past0 ELSE 0
           room  == max_prompt_ctx - take0 - 1
           take1 == Min({room, past1})
<1>1. past0 \in Nat /\ past1 \in Nat
  BY DEF TypeInv
<1>2. params.n_init \in 1 .. 4 /\ params.n_max_text_ctx \in Nat
  BY RequestType
<1>3. TextCtx \div 2 \in Int /\ TextCtx \div 2 >= 0
  BY DecodingAssumption
<1>4. max_prompt_ctx \in Int /\ max_prompt_ctx <= TextCtx \div 2
  <2>1. params.n_max_text_ctx \in Int
    BY <1>2
  <2>2. /\ max_prompt_ctx \in {params.n_max_text_ctx, TextCtx \div 2}
        /\ max_prompt_ctx <= TextCtx \div 2
    BY <1>3, <2>1, MinOfTwo, Zenon DEF max_prompt_ctx
  <2> QED
    BY <1>3, <2>1, <2>2
<1>5. take0 \in Int /\ room \in Int
  BY <1>1, <1>4
<1>6. take1 \in Int /\ take1 <= room /\ take1 \in {room, past1}
  <2> HIDE DEF room
  <2> QED
    BY <1>1, <1>5, MinOfTwo
<1>7. Prompt.len \in {params.n_init + (1 + take0 + take1), params.n_init + 0}
  BY DEF Prompt
<1>8. 1 + take0 + take1 \in Int /\ 1 + take0 + take1 <= TextCtx \div 2
  <2> HIDE DEF take0, take1
  <2> QED
    BY <1>3, <1>4, <1>5, <1>6
<1>9. Prompt.history => max_prompt_ctx > 0 /\ Prompt.len = params.n_init + (1 + take0 + take1)
  BY DEF Prompt
<1>10. ~params.carry /\ max_prompt_ctx > 0 => take0 = 0 /\ take1 >= 0
  <2>1. ~params.carry => take0 = 0
    OBVIOUS
  <2>2. room = max_prompt_ctx - take0 - 1
    OBVIOUS
  <2> HIDE DEF take0, take1, room
  <2> QED
    BY <1>1, <1>4, <1>6, <2>1, <2>2
<1> HIDE DEF take0, take1
<1> QED
  BY <1>2, <1>3, <1>6, <1>7, <1>8, <1>9, <1>10

LEMMA RoomForTokens == n_max \in Nat /\ 0 < n_max
BY DecodingAssumption DEF n_max
-----------------------------------------------------------------------------
LEMMA NewDecoderType == NewDecoder \in Decoder
BY DecodingAssumption DEF NewDecoder, Decoder, Tokens, token_beg, token_eot

\* What one token makes of a decoder.
LEMMA UpdatedDecoder ==
    ASSUME TypeInv, NEW d \in Decoder, Len(d.tokens) = i + 1,
           d.result_len <= Len(d.tokens), Live(d)
    PROVE  /\ Updated(d) \in Decoder
           /\ Updated(d).tokens = d.tokens
           /\ Updated(d).result_len <= Len(d.tokens)
           /\ Updated(d).completed => Updated(d).result_len > 0
           /\ Live(Updated(d)) /\ i = n_max - 1 => Updated(d).result_len > 0
<1>1. i \in Nat /\ Chunk \in Nat \ {0} /\ Words \in Nat
  BY DecodingAssumption DEF TypeInv
<1>2. /\ d.tokens \in Seq(Tokens) /\ d.result_len \in Nat /\ d.seek_delta \in Nat \ {0}
      /\ d.failed = FALSE /\ d.completed = FALSE /\ d.has_ts \in BOOLEAN
  BY DEF Decoder, Live
<1>3. Last(d.tokens) \in Int
  BY <1>1, <1>2 DEF Last, Tokens, token_beg, token_eot
<1> DEFINE s == Stamped(d)
<1>4. /\ s \in Decoder /\ s.tokens = d.tokens /\ s.result_len <= Len(d.tokens)
      /\ s.failed = FALSE /\ s.completed = FALSE
  <2>1. CASE Last(d.tokens) > token_beg
    <3>1. 2 * (Last(d.tokens) - token_beg) \in Nat \ {0}
      BY <1>1, <1>3, <2>1 DEF token_beg, token_eot
    <3>2. s = [d EXCEPT !.seek_delta = 2 * (Last(d.tokens) - token_beg),
                        !.result_len = i + 1, !.has_ts = TRUE]
      BY <2>1 DEF Stamped
    <3> DEFINE delta == 2 * (Last(d.tokens) - token_beg)
    <3>3. s = [d EXCEPT !.seek_delta = delta, !.result_len = i + 1, !.has_ts = TRUE]
      BY <3>2
    <3>4. delta \in Nat \ {0} /\ i + 1 \in Nat
      BY <1>1, <3>1
    <3> HIDE DEF s, delta
    <3>5. s \in Decoder
      BY <3>3, <3>4 DEF Decoder
    <3> QED
      BY <1>2, <3>3, <3>5 DEF Decoder
  <2>2. CASE ~(Last(d.tokens) > token_beg)
    BY <1>2, <2>2 DEF Stamped
  <2> QED
    BY <2>1, <2>2
<1>5. CASE GoesBack(d)
  <2>1. Updated(d) = [d EXCEPT !.failed = TRUE]
    BY <1>5 DEF Updated
  <2> QED
    BY <1>2, <2>1 DEF Decoder, Live
<1>6. CASE ~GoesBack(d) /\ EndsSegment(s)
  <2>1. Updated(d) = Completed(s)
    BY <1>6 DEF Updated
  <2> HIDE DEF s
  <2>2. s.result_len \in Nat /\ s.seek_delta \in Nat \ {0}
    BY <1>4 DEF Decoder
  <2>3. CASE s.result_len = 0 /\ ~params.no_timestamps /\ ~AtEndOfAudio(s)
    <3>1. Completed(s) = [s EXCEPT !.failed = TRUE]
      BY <2>3 DEF Completed
    <3> QED
      BY <1>4, <2>1, <3>1 DEF Decoder, Live
  <2>4. CASE ~(s.result_len = 0 /\ ~params.no_timestamps /\ ~AtEndOfAudio(s))
    <3> DEFINE whole   == params.single_segment \/ params.no_timestamps
               nothing == s.result_len = 0 /\ ~params.no_timestamps
               len     == IF whole \/ nothing THEN i + 1 ELSE s.result_len
               delta   == IF whole THEN Chunk ELSE s.seek_delta
    <3>1. Completed(s) = [s EXCEPT !.completed = TRUE, !.result_len = len, !.seek_delta = delta]
      BY <2>4 DEF Completed
    <3>2. len \in Nat /\ len > 0 /\ len <= Len(d.tokens) /\ delta \in Nat \ {0}
      BY <1>1, <1>4, <2>2
    <3> HIDE DEF len, delta
    <3> QED
      BY <1>4, <2>1, <3>1, <3>2, ZenonT(30) DEF Decoder, Live
  <2> QED
    BY <2>3, <2>4
<1>7. CASE ~GoesBack(d) /\ ~EndsSegment(s)
  <2>1. Updated(d) = [s EXCEPT !.failed = Repeats(s)]
    BY <1>7 DEF Updated
  <2>2. Repeats(s) \in BOOLEAN
    BY DEF Repeats
  <2>3. i = n_max - 1 /\ s.result_len = 0 => Repeats(s)
    BY DEF Repeats
  <2> HIDE DEF s
  <2>4. s.result_len \in Nat
    BY <1>4 DEF Decoder
  <2> QED
    BY <1>4, <2>1, <2>2, <2>3, <2>4 DEF Decoder, Live
<1> QED
  BY <1>5, <1>6, <1>7
-----------------------------------------------------------------------------
LEMMA InitInv == Init => IInv
<1> SUFFICES ASSUME Init PROVE IInv
  OBVIOUS
<1>1. params \in Request /\ params.temperatures \in Seq(Nat) /\ params.temperatures # <<>>
      /\ params.past0 \in Nat /\ params.past1 \in Nat /\ MaxDecoders \in Nat \ {0}
  BY DecodingAssumption DEF Init, Request
<1>2. 1 \in DOMAIN params.temperatures
  BY <1>1
<1>3. TypeInv
  BY <1>1, <1>2, NewDecoderType DEF Init, TypeInv, Index
<1> QED
  BY <1>3 DEF Init, IInv, WindowInv, LengthInv, TokenInv, ResultInv, RankInv, BestUsable

\* Only the temperature and the request decide which decoders are in use.
LEMMA SameCurrent ==
    ASSUME it' = it, params' = params
    PROVE  Current' = Current
BY DEF Current, n_decoders

LEMMA WindowStep == IInv /\ Window => IInv'
<1> SUFFICES ASSUME IInv, Window PROVE IInv'
  OBVIOUS
<1>1. /\ params' = params /\ seek' = seek /\ i' = i /\ decoders' = decoders
      /\ past0' \in {0, past0} /\ past1' \in {0, past1}
      /\ best_decoder_id' \in {0, best_decoder_id} /\ it' \in {1, it}
      /\ pc' \in {"begin", "done"}
      /\ pc' = "begin" => ~(seek + DeltaMin >= params.seek_end)
  BY DEF Window
<1>2. /\ 1 \in DOMAIN params.temperatures /\ 0 \in Index
      /\ params.seek_end \in Nat /\ params.past0 \in Nat
  BY RequestType, DecodingAssumption DEF IInv, Index
<1>3. TypeInv'
  BY <1>1, <1>2 DEF IInv, TypeInv
<1>4. WindowInv'
  BY <1>1, <1>2, DecodingAssumption DEF IInv, TypeInv, WindowInv
<1> QED
  BY <1>1, <1>3, <1>4 DEF IInv, LengthInv, TokenInv, ResultInv, RankInv, BestUsable

LEMMA BeginStep == IInv /\ BeginDecoding => IInv'
<1> SUFFICES ASSUME IInv, BeginDecoding PROVE IInv'
  OBVIOUS
<1>1. /\ params' = params /\ seek' = seek /\ past0' = past0 /\ past1' = past1 /\ it' = it
      /\ best_decoder_id' = best_decoder_id /\ i' = 0 /\ prompt' = Prompt
      /\ pc = "begin" /\ pc' \in {"sample", "no slot"}
      /\ decoders' = [j \in DOMAIN decoders |-> IF j \in Current THEN NewDecoder ELSE decoders[j]]
  BY DEF BeginDecoding
<1>2. Current \subseteq Index /\ Current' = Current
  BY <1>1, CurrentExist, SameCurrent DEF IInv
<1>3. TypeInv'
  BY <1>1, NewDecoderType DEF IInv, TypeInv
<1>4. \A j \in Current : decoders'[j] = NewDecoder
  BY <1>1, <1>2 DEF IInv, TypeInv
<1>5. LengthInv'
  BY <1>1, PromptFits, RoomForTokens DEF IInv, LengthInv, n_max
<1>6. TokenInv' /\ ResultInv'
  <2>1. LiveOnes(decoders)' \subseteq Current
    BY <1>2 DEF LiveOnes
  <2>2. \A j \in Current : /\ decoders'[j].tokens = <<>> /\ decoders'[j].result_len = 0
                           /\ decoders'[j].completed = FALSE
    BY <1>4 DEF NewDecoder
  <2>3. \A j \in Current : Len(decoders'[j].tokens) = 0
    <3>1. Len(<<>>) = 0
      OBVIOUS
    <3> QED
      BY <2>2, <3>1, Zenon
  <2>4. TokenInv'
    BY <1>1, <2>1, <2>3 DEF TokenInv
  <2>5. ResultInv'
    BY <1>2, <2>2, <2>3 DEF ResultInv
  <2> QED
    BY <2>4, <2>5
<1> QED
  BY <1>1, <1>3, <1>5, <1>6 DEF IInv, WindowInv, RankInv, BestUsable

\* A sampling step gives every live decoder one token more than a live decoder had, and
\* whatever else that one had.
LEMMA SampleStep ==
    ASSUME IInv, pc = "sample", pc' = "update",
           params' = params, seek' = seek, past0' = past0, past1' = past1, it' = it,
           i' = i, prompt' = prompt, best_decoder_id' = best_decoder_id,
           decoders' \in [Index -> Decoder],
           \A j \in LiveOnes(decoders) :
              \E k \in LiveOnes(decoders), token \in Tokens :
                 decoders'[j] = [decoders[k] EXCEPT !.tokens = Append(@, token)],
           \A j \in Index \ LiveOnes(decoders) : decoders'[j] = decoders[j]
    PROVE  IInv'
<1>1. Current \subseteq Index /\ Current' = Current
  BY CurrentExist, SameCurrent DEF IInv
<1>2. TypeInv'
  BY DEF IInv, TypeInv
<1>3. \A j \in LiveOnes(decoders) :
         /\ Len(decoders'[j].tokens) = i + 1 /\ decoders'[j].completed = FALSE
         /\ decoders'[j].result_len <= Len(decoders'[j].tokens)
  <2> SUFFICES ASSUME NEW j \in LiveOnes(decoders)
               PROVE  /\ Len(decoders'[j].tokens) = i + 1 /\ decoders'[j].completed = FALSE
                      /\ decoders'[j].result_len <= Len(decoders'[j].tokens)
    OBVIOUS
  <2>1. PICK k \in LiveOnes(decoders), token \in Tokens :
           decoders'[j] = [decoders[k] EXCEPT !.tokens = Append(@, token)]
    OBVIOUS
  <2>2. decoders[k] \in Decoder /\ k \in Current /\ decoders[k].completed = FALSE
    BY <1>1 DEF IInv, TypeInv, LiveOnes, Live, Decoder
  <2>3. Len(decoders[k].tokens) = i /\ decoders[k].result_len <= i /\ i \in Nat
    BY <2>2 DEF IInv, TypeInv, TokenInv, ResultInv
  <2>4. /\ decoders'[j].tokens = Append(decoders[k].tokens, token)
        /\ decoders'[j].result_len = decoders[k].result_len
        /\ decoders'[j].completed = decoders[k].completed
    BY <2>1, <2>2 DEF Decoder
  <2>5. decoders[k].tokens \in Seq(Tokens) /\ decoders[k].result_len \in Nat
    BY <2>2 DEF Decoder
  <2> QED
    BY <2>2, <2>3, <2>4, <2>5
<1>4. \A j \in Current \ LiveOnes(decoders) : ~Live(decoders'[j]) /\ decoders'[j] = decoders[j]
  BY <1>1 DEF LiveOnes
<1>5. LiveOnes(decoders)' \subseteq LiveOnes(decoders)
  BY <1>1, <1>4 DEF LiveOnes
<1>6. TokenInv'
  BY <1>3, <1>5 DEF TokenInv
<1>7. ResultInv'
  BY <1>1, <1>3, <1>4 DEF IInv, ResultInv
<1>8. WindowInv' /\ LengthInv'
  BY DEF IInv, WindowInv, LengthInv, n_max
<1> QED
  BY <1>2, <1>6, <1>7, <1>8 DEF IInv, RankInv, BestUsable

\* The type of a decoder that got one token more.
LEMMA OneTokenMore ==
    ASSUME NEW d \in Decoder, NEW token \in Tokens
    PROVE  [d EXCEPT !.tokens = Append(@, token)] \in Decoder
<1>1. Append(d.tokens, token) \in Seq(Tokens)
  BY DEF Decoder
<1> QED
  BY <1>1 DEF Decoder

LEMMA GreedyStep == IInv /\ SampleGreedy => IInv'
<1> SUFFICES ASSUME IInv, SampleGreedy PROVE IInv'
  OBVIOUS
<1>1. PICK token \in [LiveOnes(decoders) -> Tokens] :
         decoders' = [j \in DOMAIN decoders |->
                         IF j \in DOMAIN token
                         THEN [decoders[j] EXCEPT !.tokens = Append(@, token[j])]
                         ELSE decoders[j]]
  BY DEF SampleGreedy
<1>2. LiveOnes(decoders) \subseteq Index /\ decoders \in [Index -> Decoder]
  BY CurrentExist DEF IInv, TypeInv, LiveOnes
<1>3. \A j \in LiveOnes(decoders) :
         decoders'[j] = [decoders[j] EXCEPT !.tokens = Append(@, token[j])]
  BY <1>1, <1>2
<1>4. \A j \in Index \ LiveOnes(decoders) : decoders'[j] = decoders[j]
  BY <1>1, <1>2
<1>5. decoders' \in [Index -> Decoder]
  <2>1. \A j \in LiveOnes(decoders) : decoders'[j] \in Decoder
    <3> SUFFICES ASSUME NEW j \in LiveOnes(decoders) PROVE decoders'[j] \in Decoder
      OBVIOUS
    <3>1. decoders[j] \in Decoder /\ token[j] \in Tokens
      BY <1>2
    <3>2. [decoders[j] EXCEPT !.tokens = Append(@, token[j])] \in Decoder
      BY <3>1, OneTokenMore, Zenon
    <3> QED
      BY <1>3, <3>2
  <2>2. \A j \in Index : decoders'[j] \in Decoder
    BY <1>2, <1>4, <2>1
  <2> QED
    BY <1>1, <1>2, <2>2
<1>6. \A j \in LiveOnes(decoders) :
         \E k \in LiveOnes(decoders), t \in Tokens :
            decoders'[j] = [decoders[k] EXCEPT !.tokens = Append(@, t)]
  <2> SUFFICES ASSUME NEW j \in LiveOnes(decoders)
               PROVE  \E k \in LiveOnes(decoders), t \in Tokens :
                         decoders'[j] = [decoders[k] EXCEPT !.tokens = Append(@, t)]
    OBVIOUS
  <2>1. token[j] \in Tokens
    OBVIOUS
  <2> WITNESS j \in LiveOnes(decoders), token[j] \in Tokens
  <2> QED
    BY <1>3
<1> QED
  BY <1>4, <1>5, <1>6, SampleStep DEF SampleGreedy

LEMMA BeamStep == IInv /\ SampleBeam => IInv'
<1> SUFFICES ASSUME IInv, SampleBeam PROVE IInv'
  OBVIOUS
<1>1. PICK chosen \in [LiveOnes(decoders) -> Candidate] :
         decoders' = [j \in DOMAIN decoders |->
                         IF j \in DOMAIN chosen
                         THEN [decoders[chosen[j].decoder_idx] EXCEPT
                                  !.tokens = Hypothesis(chosen[j])]
                         ELSE decoders[j]]
  BY DEF SampleBeam
<1>2. LiveOnes(decoders) \subseteq Index /\ decoders \in [Index -> Decoder]
  BY CurrentExist DEF IInv, TypeInv, LiveOnes
<1>3. \A j \in LiveOnes(decoders) :
         \E k \in LiveOnes(decoders), t \in Tokens :
            decoders'[j] = [decoders[k] EXCEPT !.tokens = Append(@, t)]
  <2> SUFFICES ASSUME NEW j \in LiveOnes(decoders)
               PROVE  \E k \in LiveOnes(decoders), t \in Tokens :
                         decoders'[j] = [decoders[k] EXCEPT !.tokens = Append(@, t)]
    OBVIOUS
  <2>1. chosen[j].decoder_idx \in LiveOnes(decoders) /\ chosen[j].token \in Tokens
    BY DEF Candidate
  <2>2. decoders'[j] = [decoders[chosen[j].decoder_idx] EXCEPT
                           !.tokens = Append(@, chosen[j].token)]
    BY <1>1, <1>2 DEF Hypothesis
  <2> DEFINE k == chosen[j].decoder_idx
             t == chosen[j].token
  <2>3. k \in LiveOnes(decoders) /\ t \in Tokens
        /\ decoders'[j] = [decoders[k] EXCEPT !.tokens = Append(@, t)]
    BY <2>1, <2>2
  <2> HIDE DEF k, t
  <2> QED
    BY <2>3, Zenon
<1>4. \A j \in Index \ LiveOnes(decoders) : decoders'[j] = decoders[j]
  BY <1>1, <1>2
<1>5. decoders' \in [Index -> Decoder]
  <2>1. \A j \in LiveOnes(decoders) : decoders'[j] \in Decoder
    <3> SUFFICES ASSUME NEW j \in LiveOnes(decoders) PROVE decoders'[j] \in Decoder
      OBVIOUS
    <3>1. PICK k \in LiveOnes(decoders), t \in Tokens :
             decoders'[j] = [decoders[k] EXCEPT !.tokens = Append(@, t)]
      BY <1>3
    <3>2. decoders[k] \in Decoder
      BY <1>2
    <3>3. [decoders[k] EXCEPT !.tokens = Append(@, t)] \in Decoder
      BY <3>2, OneTokenMore, Zenon
    <3> QED
      BY <3>1, <3>3
  <2>2. \A j \in Index : decoders'[j] \in Decoder
    BY <1>2, <1>4, <2>1
  <2> QED
    BY <1>1, <1>2, <2>2
<1> QED
  BY <1>3, <1>4, <1>5, SampleStep DEF SampleBeam

LEMMA UpdateStep == IInv /\ Update => IInv'
<1> SUFFICES ASSUME IInv, Update PROVE IInv'
  OBVIOUS
<1>1. /\ params' = params /\ seek' = seek /\ past0' = past0 /\ past1' = past1 /\ it' = it
      /\ best_decoder_id' = best_decoder_id /\ prompt' = prompt /\ pc = "update"
      /\ decoders' = UpdatedDecoders
  BY DEF Update
<1>2. \/ pc' = "rank" /\ i' = i /\ LiveOnes(UpdatedDecoders) = {}
      \/ pc' = "no slot" /\ i' = i
      \/ i' = i + 1 /\ pc' = "sample" /\ i + 1 < n_max
      \/ i' = i + 1 /\ pc' = "rank" /\ ~(i + 1 < n_max)
  BY DEF Update
<1>3. /\ Current \subseteq Index /\ Current' = Current /\ decoders \in [Index -> Decoder]
      /\ LiveOnes(decoders) \subseteq Current /\ i \in Nat /\ n_max \in Nat /\ i < n_max
  BY <1>1, CurrentExist, SameCurrent, RoomForTokens DEF IInv, TypeInv, LiveOnes, LengthInv
<1>4. \A j \in LiveOnes(decoders) :
         /\ decoders'[j] \in Decoder
         /\ decoders'[j].tokens = decoders[j].tokens /\ Len(decoders'[j].tokens) = i + 1
         /\ decoders'[j].result_len <= Len(decoders'[j].tokens)
         /\ decoders'[j].completed => decoders'[j].result_len > 0
         /\ Live(decoders'[j]) /\ i = n_max - 1 => decoders'[j].result_len > 0
  <2> SUFFICES ASSUME NEW j \in LiveOnes(decoders)
               PROVE /\ decoders'[j] \in Decoder
                     /\ decoders'[j].tokens = decoders[j].tokens
                     /\ Len(decoders'[j].tokens) = i + 1
                     /\ decoders'[j].result_len <= Len(decoders'[j].tokens)
                     /\ decoders'[j].completed => decoders'[j].result_len > 0
                     /\ Live(decoders'[j]) /\ i = n_max - 1 => decoders'[j].result_len > 0
    OBVIOUS
  <2>1. /\ decoders[j] \in Decoder /\ Len(decoders[j].tokens) = i + 1 /\ Live(decoders[j])
        /\ decoders[j].result_len <= Len(decoders[j].tokens)
    BY <1>1, <1>3 DEF IInv, TokenInv, ResultInv, LiveOnes
  <2>2. decoders'[j] = Updated(decoders[j])
    BY <1>1, <1>3 DEF UpdatedDecoders
  <2> QED
    BY <2>1, <2>2, UpdatedDecoder DEF IInv
<1>5. \A j \in Index \ LiveOnes(decoders) : decoders'[j] = decoders[j]
  BY <1>1, <1>3 DEF UpdatedDecoders
<1>6. TypeInv'
  <2>1. \A j \in Index : decoders'[j] \in Decoder
    BY <1>3, <1>4, <1>5
  <2>2. decoders' \in [Index -> Decoder]
    BY <1>1, <1>3, <2>1 DEF UpdatedDecoders
  <2>3. i \in Nat /\ i' \in {i, i + 1}
    BY <1>2 DEF IInv, TypeInv
  <2> QED
    BY <1>1, <2>2, <2>3 DEF IInv, TypeInv
<1>7. WindowInv' /\ LengthInv'
  BY <1>1, <1>2 DEF IInv, WindowInv, LengthInv, n_max
<1>8. LiveOnes(decoders)' \subseteq LiveOnes(decoders)
  BY <1>3, <1>5 DEF LiveOnes
<1>9. TokenInv'
  BY <1>2, <1>4, <1>8 DEF TokenInv
<1>10. \A j \in Current : /\ decoders'[j].result_len <= Len(decoders'[j].tokens)
                          /\ decoders'[j].completed => decoders'[j].result_len > 0
  BY <1>1, <1>3, <1>4, <1>5 DEF IInv, ResultInv
<1>11. ResultInv'
  BY <1>3, <1>10 DEF ResultInv
<1>12. RankInv'
  <2> SUFFICES ASSUME pc' = "rank", NEW j \in Current, ~decoders'[j].failed
               PROVE  decoders'[j].result_len > 0
    BY <1>3 DEF RankInv
  <2>1. CASE decoders'[j].completed
    BY <1>10, <2>1
  <2>2. CASE ~decoders'[j].completed
    <3>1. Live(decoders'[j])
      BY <2>2 DEF Live
    <3>2. LiveOnes(UpdatedDecoders) # {}
      BY <1>1, <3>1 DEF LiveOnes
    <3>3. i = n_max - 1
      BY <1>2, <1>3, <3>2
    <3>4. j \in LiveOnes(decoders)
      BY <1>3, <1>5, <3>1 DEF LiveOnes
    <3> QED
      BY <1>4, <3>1, <3>3, <3>4
  <2> QED
    BY <2>1, <2>2
<1> QED
  BY <1>2, <1>6, <1>7, <1>9, <1>11, <1>12 DEF IInv, BestUsable

LEMMA RankStep == IInv /\ Rank => IInv'
<1> SUFFICES ASSUME IInv, Rank PROVE IInv'
  OBVIOUS
<1>1. /\ params' = params /\ seek' = seek /\ past0' = past0 /\ past1' = past1
      /\ i' = i /\ pc = "rank"
  BY DEF Rank
<1>2. PICK repetitive \in SUBSET {j \in Current : /\ ~decoders[j].failed
                                                /\ decoders[j].result_len > EntropyWindow} :
         LET ranked == Ranked(repetitive)
             scored == {j \in Current : ~ranked[j].failed /\ ranked[j].result_len > 0}
         IN \E best \in IF scored = {} THEN {best_decoder_id} ELSE scored :
               /\ decoders' = ranked /\ best_decoder_id' = best
               /\ \/ it < Len(params.temperatures) /\ pc' = "begin" /\ it' = it + 1
                  \/ pc' = "output" /\ it' = it
  BY DEF Rank
<1> DEFINE scored == {j \in Current : ~decoders'[j].failed /\ decoders'[j].result_len > 0}
<1>3. /\ decoders' = Ranked(repetitive)
      /\ best_decoder_id' \in IF scored = {} THEN {best_decoder_id} ELSE scored
      /\ \/ it < Len(params.temperatures) /\ pc' = "begin" /\ it' = it + 1
         \/ pc' = "output" /\ it' = it
  BY <1>2
<1>4. Current \subseteq Index /\ decoders \in [Index -> Decoder]
  BY CurrentExist DEF IInv, TypeInv
<1>5. \A j \in Current : /\ decoders'[j] \in Decoder
                         /\ decoders'[j].result_len = decoders[j].result_len
                         /\ ~decoders'[j].failed => ~decoders[j].failed
  <2> SUFFICES ASSUME NEW j \in Current
               PROVE /\ decoders'[j] \in Decoder
                     /\ decoders'[j].result_len = decoders[j].result_len
                     /\ ~decoders'[j].failed => ~decoders[j].failed
    OBVIOUS
  <2>1. /\ decoders[j] \in Decoder /\ decoders[j].tokens \in Seq(Tokens)
        /\ decoders[j].result_len \in Nat
        /\ decoders[j].result_len <= Len(decoders[j].tokens)
    BY <1>1, <1>4 DEF IInv, ResultInv, Decoder
  <2>2. CASE decoders[j].failed
    BY <1>3, <1>4, <2>1, <2>2 DEF Ranked
  <2>3. CASE ~decoders[j].failed
    <3> DEFINE kept == SubSeq(decoders[j].tokens, 1, decoders[j].result_len)
               fails == j \in repetitive
    <3>1. decoders'[j] = [decoders[j] EXCEPT !.tokens = kept, !.failed = fails]
      BY <1>3, <1>4, <2>3 DEF Ranked
    <3>2. kept \in Seq(Tokens) /\ fails \in BOOLEAN
      BY <2>1
    <3> HIDE DEF kept, fails
    <3> QED
      BY <2>1, <2>3, <3>1, <3>2 DEF Decoder
  <2> QED
    BY <2>2, <2>3
<1>6. decoders' \in [Index -> Decoder]
  <2>1. \A j \in Index \ Current : decoders'[j] = decoders[j]
    BY <1>3, <1>4 DEF Ranked
  <2>2. \A j \in Index : decoders'[j] \in Decoder
    BY <1>4, <1>5, <2>1
  <2> QED
    BY <1>3, <1>4, <2>2 DEF Ranked
<1>7. best_decoder_id' \in Index
  BY <1>3, <1>4 DEF IInv, TypeInv
<1>8. it' \in DOMAIN params.temperatures
  <2>1. params.temperatures \in Seq(Nat) /\ it \in DOMAIN params.temperatures
    BY RequestType DEF IInv, TypeInv
  <2>2. it < Len(params.temperatures) => it + 1 \in DOMAIN params.temperatures
    BY <2>1
  <2> QED
    BY <1>3, <2>1, <2>2
<1>9. TypeInv'
  BY <1>1, <1>6, <1>7, <1>8 DEF IInv, TypeInv
<1>10. BestUsable'
  <2> SUFFICES ASSUME pc' = "output"
               PROVE  \/ best_decoder_id' \in Current' /\ ~decoders'[best_decoder_id'].failed
                      \/ \A j \in Current' : decoders'[j].failed
    BY DEF BestUsable
  <2>1. Current' = Current
    BY <1>1, <1>3, SameCurrent
  <2>2. CASE scored = {}
    <3>1. \A j \in Current : ~decoders'[j].failed => decoders'[j].result_len > 0
      BY <1>1, <1>5 DEF IInv, RankInv
    <3> QED
      BY <2>1, <2>2, <3>1
  <2>3. CASE scored # {}
    BY <1>3, <2>1, <2>3
  <2> QED
    BY <2>2, <2>3
<1>11. WindowInv'
  BY <1>1, <1>3 DEF IInv, WindowInv
<1>12. LengthInv' /\ TokenInv' /\ ResultInv' /\ RankInv'
  <2>1. prompt' = prompt
    BY DEF Rank
  <2> QED
    BY <1>1, <1>3, <2>1 DEF IInv, LengthInv, TokenInv, ResultInv, RankInv
<1> QED
  BY <1>9, <1>10, <1>11, <1>12 DEF IInv

\* How far a window moves.
LEMMA OutputMoves ==
    ASSUME IInv, Output
    PROVE  seek' \in Nat /\ seek' > seek
<1>1. /\ decoders[best_decoder_id].seek_delta \in Nat \ {0}
      /\ seek \in Nat /\ seek + DeltaMin < params.seek_end /\ pc = "output"
  BY DEF IInv, TypeInv, WindowInv, Output, Decoder
<1>2. params.seek_end \in Nat /\ DeltaMin \in Nat \ {0} /\ Chunk \in Nat \ {0}
  BY RequestType, DecodingAssumption DEF IInv
<1>3. params.seek_end - seek \in Int /\ params.seek_end - seek > 0
  BY <1>1, <1>2
<1> DEFINE m == Min({params.seek_end - seek, Chunk})
<1>4. m \in {params.seek_end - seek, Chunk}
  <2>1. Chunk \in Int
    BY <1>2
  <2> QED
    BY <1>3, <2>1, MinOfTwo, Zenon
<1>5. \/ seek' = seek + m
      \/ seek' = seek + decoders[best_decoder_id].seek_delta
  BY DEF Output
<1> HIDE DEF m
<1> QED
  BY <1>1, <1>2, <1>3, <1>4, <1>5

LEMMA OutputStep == IInv /\ Output => IInv'
<1> SUFFICES ASSUME IInv, Output PROVE IInv'
  OBVIOUS
<1>1. /\ params' = params /\ past0' = past0 /\ it' = it /\ i' = i /\ decoders' = decoders
      /\ best_decoder_id' = best_decoder_id /\ pc = "output" /\ pc' = "window"
  BY DEF Output
<1>2. /\ decoders[best_decoder_id].result_len \in Nat
      /\ params.n_init \in 1 .. 4 /\ prompt.len \in Int
      /\ ~params.carry /\ prompt.history => prompt.len >= 1 + params.n_init
  BY <1>1, RequestType DEF IInv, TypeInv, LengthInv, Decoder
<1>3. PICK no_speech \in BOOLEAN :
         past1' = (IF ~params.carry /\ prompt.history
                   THEN prompt.len - 1 - params.n_init ELSE 0)
                     + IF no_speech THEN 0 ELSE decoders[best_decoder_id].result_len
  BY DEF Output
<1>4. past1' \in Nat
  BY <1>2, <1>3
<1>5. TypeInv'
  BY <1>1, <1>4, OutputMoves DEF IInv, TypeInv
<1> QED
  BY <1>1, <1>5 DEF IInv, WindowInv, LengthInv, TokenInv, ResultInv, RankInv, BestUsable

LEMMA NextInv == IInv /\ [Next]_vars => IInv'
<1> SUFFICES ASSUME IInv, [Next]_vars PROVE IInv'
  OBVIOUS
<1>1. CASE UNCHANGED vars
  BY <1>1 DEF vars, IInv, TypeInv, WindowInv, LengthInv, TokenInv, ResultInv, RankInv,
              BestUsable, Current, LiveOnes, n_decoders, n_max
<1> QED
  BY <1>1, WindowStep, BeginStep, GreedyStep, BeamStep, UpdateStep, RankStep, OutputStep
     DEF Next

LEMMA Invariance == Spec => []IInv
BY InitInv, NextInv, PTL DEF Spec
-----------------------------------------------------------------------------
\* The prompt and the tokens of a hypothesis always have a position in the text context of
\* the model, so that a batch never reads past its positional embeddings.
THEOREM TextStaysInContext == Spec => []TextFits
<1>1. IInv => TextFits
  <2> SUFFICES ASSUME IInv, pc = "update" PROVE prompt.len + i < TextCtx
    BY DEF TextFits
  <2>1. prompt.len \in Int /\ prompt.len <= 4 + TextCtx \div 2 /\ i < n_max /\ i \in Nat
    BY DEF IInv, LengthInv, TypeInv
  <2> QED
    BY <2>1, DecodingAssumption DEF n_max
<1> QED
  BY <1>1, Invariance, PTL

\* Whatever the decoders do, a failed hypothesis or one of an earlier temperature is written
\* only when there is no better one.
THEOREM WritesTheUsable == Spec => []BestUsable
<1>1. IInv => BestUsable
  BY DEF IInv
<1> QED
  BY <1>1, Invariance, PTL

\* The window moves with every hypothesis that is written, also with a failed one.
THEOREM MovesOn == Spec => WindowsMoveOn
<1>1. IInv /\ [Next]_vars => [pc = "output" => seek' > seek]_vars
  <2> SUFFICES ASSUME IInv, Next, pc = "output" PROVE seek' > seek
    OBVIOUS
  <2>1. Output
    BY DEF Next, Window, BeginDecoding, SampleGreedy, SampleBeam, Update, Rank
  <2> QED
    BY <2>1, OutputMoves
<1> QED
  BY <1>1, Invariance, PTL DEF Spec, WindowsMoveOn
-----------------------------------------------------------------------------
\* Sets of numbers, folds and orders.

\* A set of numbers has a least one.
LEMMA LeastNat ==
    ASSUME NEW T \in SUBSET Nat, T # {}
    PROVE  \E m \in T : \A k \in T : m <= k
<1>1. IsWellFoundedOn(OpToRel(<, Nat), Nat) BY NatLessThanWellFounded
<1>2. \E m \in T : \A k \in T : <<k, m>> \notin OpToRel(<, Nat)
  BY <1>1, WFMin, Zenon
<1>3. PICK m \in T : \A k \in T : <<k, m>> \notin OpToRel(<, Nat) BY <1>2
<1>4. \A k \in T : ~(k < m) BY <1>3 DEF OpToRel
<1>. QED BY <1>4

\* Induction up to n, the predicate given as a set.
LEMMA UpTo ==
    ASSUME NEW n \in Nat, NEW T, 0 \in T, \A k \in 1 .. n : k - 1 \in T => k \in T
    PROVE  n \in T
<1>. DEFINE Bad == {k \in 0 .. n : k \notin T}
<1>. SUFFICES ASSUME Bad # {} PROVE FALSE OBVIOUS
<1>0. Bad \in SUBSET Nat OBVIOUS
<1>1. PICK k \in Bad : \A l \in Bad : k <= l BY <1>0, LeastNat, Zenon
<1>2. k \in 0 .. n /\ k \notin T OBVIOUS
<1>3. k # 0 BY <1>2
<1>4. k - 1 \in 0 .. n /\ k - 1 \notin Bad
  <2>1. k - 1 \in 0 .. n /\ ~(k <= k - 1) BY <1>2, <1>3
  <2>. QED BY <1>1, <2>1
<1>. QED BY <1>2, <1>3, <1>4

LEMMA MinNat ==
    ASSUME NEW S \in SUBSET Nat, S # {}
    PROVE  Min(S) \in S /\ \A x \in S : Min(S) <= x
BY LeastNat DEF Min

LEMMA MaxNat ==
    ASSUME NEW b \in Nat, NEW S \in SUBSET (0 .. b), S # {}
    PROVE  Max(S) \in S /\ \A x \in S : x <= Max(S)
<1>1. \E m \in S : \A x \in S : m >= x
  <2>. DEFINE T == {b - x : x \in S}
  <2>1. T \in SUBSET Nat /\ T # {}
    <3>1. \A x \in S : b - x \in Nat OBVIOUS
    <3>. QED BY <3>1
  <2>2. PICK m \in T : \A k \in T : m <= k BY <2>1, LeastNat, Zenon
  <2>3. \A x \in S : m <= b - x BY <2>2
  <2>4. PICK y \in S : m = b - y BY <2>2
  <2>. QED BY <2>3, <2>4
<1>. QED BY <1>1 DEF Max

LEMMA MaxUpTo ==
    ASSUME NEW n \in Nat, NEW S \in SUBSET (1 .. n), S # {}
    PROVE  Max(S) \in S /\ (n \in S => Max(S) = n)
<1>1. S \in SUBSET (0 .. n) OBVIOUS
<1>2. Max(S) \in S /\ \A x \in S : x <= Max(S) BY <1>1, MaxNat, Zenon
<1>. DEFINE m == Max(S)
<1>3. m \in 1 .. n /\ (n \in S => n <= m) BY <1>2
<1>. HIDE DEF m
<1>4. n \in S => m = n BY <1>3
<1>. QED BY <1>2, <1>4 DEF m

\* f[1 .. k] is base after the first k of n steps, F[k] being what step k does to the values
\* in V; the other sets are there because folds are defined by taking the last element away.
Folds(f, V, base, n, F) ==
    /\ f \in [SUBSET (1 .. n) -> V]
    /\ f[{}] = base
    /\ \A s \in SUBSET (1 .. n) : s # {} => f[s] = F[Max(s)][f[s \ {Max(s)}]]

\* A fold has a value: its equation has a solution if its steps are functions on a set.
LEMMA FoldExists ==
    ASSUME NEW V, NEW base \in V, NEW n \in Nat, NEW F \in [1 .. n -> [V -> V]]
    PROVE  \E f : Folds(f, V, base, n, F)
<1>. DEFINE Solved(f, m) == f = [s \in SUBSET (1 .. m) |->
                                    IF s = {} THEN base ELSE F[Max(s)][f[s \ {Max(s)}]]]
            T == {m \in 0 .. n : \E f \in [SUBSET (1 .. m) -> V] : Solved(f, m)}
<1>1. 0 \in T
  <2>. DEFINE f == [s \in SUBSET (1 .. 0) |-> base]
  <2>1. SUBSET (1 .. 0) = {{}} OBVIOUS
  <2>2. f \in [SUBSET (1 .. 0) -> V] /\ Solved(f, 0) BY <2>1
  <2>. QED BY <2>2
<1>2. ASSUME NEW m \in 1 .. n, m - 1 \in T PROVE m \in T
  <2>1. PICK f \in [SUBSET (1 .. m - 1) -> V] : Solved(f, m - 1) BY <1>2
  <2>. DEFINE g == [s \in SUBSET (1 .. m) |-> IF m \in s THEN F[m][f[s \ {m}]] ELSE f[s]]
  <2>2. \A s \in SUBSET (1 .. m) : s \ {m} \in SUBSET (1 .. m - 1) OBVIOUS
  <2>3. ASSUME NEW s \in SUBSET (1 .. m), m \in s
        PROVE  g[s] \in V /\ g[s] = F[Max(s)][g[s \ {Max(s)}]]
    <3>1. Max(s) = m BY <2>3, MaxUpTo
    <3>2. s \ {m} \in SUBSET (1 .. m) OBVIOUS
    <3>3. g[s \ {m}] = f[s \ {m}] BY <3>2
    <3>4. f[s \ {m}] \in V BY <2>2
    <3>. QED BY <2>3, <3>1, <3>3, <3>4
  <2>4. ASSUME NEW s \in SUBSET (1 .. m), m \notin s
        PROVE  g[s] \in V /\ g[s] = IF s = {} THEN base ELSE F[Max(s)][g[s \ {Max(s)}]]
    <3>1. s \in SUBSET (1 .. m - 1) /\ g[s] = f[s] BY <2>2, <2>4
    <3>2. f[s] = IF s = {} THEN base ELSE F[Max(s)][f[s \ {Max(s)}]] BY <2>1, <3>1
    <3>3. s \ {Max(s)} \in SUBSET (1 .. m) /\ m \notin s \ {Max(s)} BY <2>4
    <3>4. g[s \ {Max(s)}] = f[s \ {Max(s)}] BY <3>3
    <3>. QED BY <3>1, <3>2, <3>4
  <2>5. g \in [SUBSET (1 .. m) -> V] BY <2>3, <2>4
  <2>6. \A s \in SUBSET (1 .. m) :
           g[s] = IF s = {} THEN base ELSE F[Max(s)][g[s \ {Max(s)}]]
    BY <2>3, <2>4
  <2>. HIDE DEF g
  <2>7. Solved(g, m) BY <2>5, <2>6
  <2>. HIDE DEF Solved
  <2>8. \E h \in [SUBSET (1 .. m) -> V] : Solved(h, m) BY <2>5, <2>7
  <2>9. m \in 0 .. n OBVIOUS
  <2>. QED BY <2>8, <2>9, Zenon
<1>. HIDE DEF T
<1>3. n \in T BY <1>1, <1>2, UpTo
<1>4. PICK f \in [SUBSET (1 .. n) -> V] : Solved(f, n) BY <1>3 DEF T
<1>5. f[{}] = base
  <2>1. {} \in SUBSET (1 .. n) OBVIOUS
  <2>. QED BY <1>4, <2>1
<1>6. ASSUME NEW s \in SUBSET (1 .. n), s # {} PROVE f[s] = F[Max(s)][f[s \ {Max(s)}]]
  BY <1>4, <1>6
<1>. QED BY <1>5, <1>6 DEF Folds

\* A set of decoders has an order.
LEMMA InOrderFacts ==
    ASSUME NEW b \in Nat, NEW S \in SUBSET (0 .. b - 1)
    PROVE  /\ IsFiniteSet(S) /\ Cardinality(S) \in Nat /\ Cardinality(S) <= b
           /\ InOrder(S) \in [1 .. Cardinality(S) -> S]
           /\ \A x, y \in 1 .. Cardinality(S) : InOrder(S)[x] = InOrder(S)[y] => x = y
           /\ \A j \in S : \E x \in 1 .. Cardinality(S) : InOrder(S)[x] = j
<1>. DEFINE Order(f, s) == \A x, y \in 1 .. Cardinality(s) : x < y => f[x] < f[y]
            T == {m \in 0 .. b : \A s \in SUBSET (0 .. m - 1) :
                     \E f \in [1 .. Cardinality(s) -> s] : Order(f, s)}
<1>1. \A m \in 0 .. b : \A s \in SUBSET (0 .. m - 1) :
         IsFiniteSet(s) /\ Cardinality(s) \in Nat /\ Cardinality(s) <= m
  <2>. SUFFICES ASSUME NEW m \in 0 .. b, NEW s \in SUBSET (0 .. m - 1)
                PROVE  IsFiniteSet(s) /\ Cardinality(s) \in Nat /\ Cardinality(s) <= m
    OBVIOUS
  <2>1. IsFiniteSet(0 .. m - 1) /\ Cardinality(0 .. m - 1) = m
    <3>1. 0 \in Int /\ m - 1 \in Int OBVIOUS
    <3>2. /\ IsFiniteSet(0 .. m - 1)
          /\ Cardinality(0 .. m - 1) = IF 0 > m - 1 THEN 0 ELSE m - 1 - 0 + 1
      BY <3>1, FS_Interval
    <3>. QED BY <3>2
  <2>. QED BY <2>1, FS_Subset, FS_CardinalityType
<1>2. 0 \in T
  <2>. SUFFICES ASSUME NEW s \in SUBSET (0 .. 0 - 1)
                PROVE  \E f \in [1 .. Cardinality(s) -> s] : Order(f, s)
    OBVIOUS
  <2>1. Cardinality(s) = 0 BY <1>1
  <2>. DEFINE f == [x \in 1 .. Cardinality(s) |-> 0]
  <2>2. f \in [1 .. Cardinality(s) -> s] /\ Order(f, s) BY <2>1
  <2>. QED BY <2>2
<1>3. ASSUME NEW m \in 1 .. b, m - 1 \in T PROVE m \in T
  <2>. SUFFICES ASSUME NEW s \in SUBSET (0 .. m - 1)
                PROVE  \E f \in [1 .. Cardinality(s) -> s] : Order(f, s)
    OBVIOUS
  <2>. DEFINE r == s \ {m - 1}
              c == Cardinality(r)
  <2>1. r \in SUBSET (0 .. (m - 1) - 1) OBVIOUS
  <2>2. PICK f \in [1 .. c -> r] : Order(f, r) BY <1>3, <2>1
  <2>3. CASE m - 1 \notin s
    <3>1. r = s BY <2>3
    <3>. QED BY <2>2, <3>1
  <2>4. CASE m - 1 \in s
    <3>1. c \in Nat /\ IsFiniteSet(r) BY <1>1, <2>1
    <3>2. Cardinality(s) = c + 1
      <4>1. s = r \cup {m - 1} /\ m - 1 \notin r BY <2>4
      <4>. HIDE DEF r
      <4>2. Cardinality(r \cup {m - 1}) = Cardinality(r) + 1 BY <3>1, <4>1, FS_AddElement
      <4>. QED BY <4>1, <4>2
    <3>. DEFINE g == [x \in 1 .. c + 1 |-> IF x = c + 1 THEN m - 1 ELSE f[x]]
    <3>. HIDE DEF c
    <3>3. g \in [1 .. c + 1 -> s]
      <4>1. \A x \in 1 .. c + 1 : x # c + 1 => x \in 1 .. c BY <3>1
      <4>. QED BY <2>4, <4>1
    <3>4. \A x, y \in 1 .. c + 1 : x < y => g[x] < g[y]
      <4>. SUFFICES ASSUME NEW x \in 1 .. c + 1, NEW y \in 1 .. c + 1, x < y
                    PROVE  g[x] < g[y]
        OBVIOUS
      <4>1. x \in 1 .. c /\ g[x] = f[x] /\ f[x] \in r BY <3>1
      <4>2. f[x] < m - 1
        <5>1. f[x] \in 0 .. m - 1 /\ f[x] # m - 1 BY <4>1
        <5>. QED BY <5>1
      <4>3. CASE y = c + 1 BY <4>1, <4>2, <4>3
      <4>4. CASE y # c + 1
        <5>1. y \in 1 .. c /\ g[y] = f[y] BY <3>1, <4>4
        <5>2. \A v, w \in 1 .. c : v < w => f[v] < f[w] BY <2>2 DEF c
        <5>. QED BY <4>1, <5>1, <5>2
      <4>. QED BY <4>3, <4>4
    <3>. HIDE DEF g
    <3>. QED BY <3>2, <3>3, <3>4
  <2>. QED BY <2>3, <2>4
<1>4. b \in T
  <2>. HIDE DEF T
  <2>. QED BY <1>2, <1>3, UpTo
<1>. DEFINE c == Cardinality(S)
            g == InOrder(S)
<1>5. /\ g \in [1 .. c -> S]
      /\ \A x, y \in 1 .. c : x < y => g[x] < g[y]
  <2>1. \E f \in [1 .. c -> S] : \A x, y \in DOMAIN f : x < y => f[x] < f[y]
    <3>1. PICK f \in [1 .. c -> S] : Order(f, S) BY <1>4
    <3>2. \A x, y \in DOMAIN f : x < y => f[x] < f[y] BY <3>1
    <3>. QED BY <3>2
  <2>2. g \in [1 .. c -> S] /\ \A x, y \in DOMAIN g : x < y => g[x] < g[y]
    BY <2>1, Zenon DEF InOrder
  <2>. QED BY <2>2
<1>6. IsFiniteSet(S) /\ c \in Nat /\ c <= b BY <1>1
<1>. HIDE DEF g, c
<1>7. \A x, y \in 1 .. c : g[x] = g[y] => x = y
  <2>. SUFFICES ASSUME NEW x \in 1 .. c, NEW y \in 1 .. c, g[x] = g[y] PROVE x = y OBVIOUS
  <2>1. g[x] \in 0 .. b - 1 BY <1>5
  <2>2. ~(x < y) /\ ~(y < x) BY <1>5, <2>1
  <2>. QED BY <1>6, <2>2
<1>8. \A j \in S : \E x \in 1 .. c : g[x] = j
  <2>1. g \in Injection(1 .. c, S) BY <1>5, <1>7 DEF Injection, IsInjective
  <2>2. IsFiniteSet(1 .. c) /\ Cardinality(1 .. c) = c
    <3>1. 1 \in Int /\ c \in Int BY <1>6
    <3>2. /\ IsFiniteSet(1 .. c)
          /\ Cardinality(1 .. c) = IF 1 > c THEN 0 ELSE c - 1 + 1
      BY <3>1, FS_Interval
    <3>. QED BY <1>6, <3>2
  <2>3. g \in Surjection(1 .. c, S) BY <1>6, <2>1, <2>2, FS_Injection DEF c
  <2>. QED BY <2>3 DEF Surjection
<1>. QED BY <1>5, <1>6, <1>7, <1>8 DEF g, c
-----------------------------------------------------------------------------
\* A cell, and a cache of m cells.
Cell == [pos : Int, seq_id : SUBSET Nat, data : Seq(Tokens)]
Cache(m) == [head : Int, size : {m}, n : Int, cells : [0 .. m - 1 -> Cell]]

LEMMA FreeCellFacts ==
    /\ FreeCell \in Cell
    /\ FreeCell.pos = -1 /\ FreeCell.seq_id = {} /\ FreeCell.data = <<>>
<1>1. <<>> \in Seq(Tokens) BY EmptySeq
<1>2. {} \in SUBSET Nat OBVIOUS
<1>. QED BY <1>1, <1>2 DEF FreeCell, Cell

LEMMA CacheFacts ==
    ASSUME NEW m \in Nat, NEW kv \in Cache(m)
    PROVE  /\ kv.head \in Int /\ kv.size = m /\ kv.n \in Int
           /\ kv.cells \in [0 .. m - 1 -> Cell] /\ DOMAIN kv.cells = 0 .. m - 1
           /\ \A c \in 0 .. m - 1 : /\ kv.cells[c] \in Cell /\ kv.cells[c].pos \in Int
                                    /\ kv.cells[c].seq_id \in SUBSET Nat
                                    /\ kv.cells[c].data \in Seq(Tokens)
<1>1. /\ kv.head \in Int /\ kv.size = m /\ kv.n \in Int
      /\ kv.cells \in [0 .. m - 1 -> Cell]
  BY DEF Cache
<1>2. \A c \in 0 .. m - 1 : kv.cells[c] \in Cell BY <1>1
<1>3. \A d \in Cell : d.pos \in Int /\ d.seq_id \in SUBSET Nat /\ d.data \in Seq(Tokens)
  BY DEF Cell
<1>. QED BY <1>1, <1>2, <1>3

\* A cache with other cells.
LEMMA WithCells ==
    ASSUME NEW m, NEW V, NEW kv \in [head : Int, size : {m}, n : Int, cells : V],
           NEW h \in Int, NEW cs \in V
    PROVE  LET ds == [kv EXCEPT !.head = h, !.cells = cs] IN
           /\ ds \in [head : Int, size : {m}, n : Int, cells : V]
           /\ ds.head = h /\ ds.n = kv.n /\ ds.size = kv.size /\ ds.cells = cs
OBVIOUS

\* What whisper_kv_cache_seq_cp makes of a cache.
CopyOf(ds, kv, m, src, dst) ==
    /\ ds \in Cache(m) /\ ds.head = 0 /\ ds.n = kv.n
    /\ \A c \in 0 .. m - 1 :
          /\ ds.cells[c].pos = kv.cells[c].pos /\ ds.cells[c].data = kv.cells[c].data
          /\ ds.cells[c].seq_id =
                kv.cells[c].seq_id \cup (IF src \in kv.cells[c].seq_id THEN {dst} ELSE {})

LEMMA CopyStep ==
    ASSUME NEW m \in Nat, NEW kv \in Cache(m), NEW src \in Nat, NEW dst \in Nat
    PROVE  CopyOf(KvSeqCp(kv, src, dst), kv, m, src, dst)
<1>. DEFINE cs == [c \in 0 .. m - 1 |->
                     IF src \in kv.cells[c].seq_id
                     THEN [kv.cells[c] EXCEPT !.seq_id = @ \cup {dst}] ELSE kv.cells[c]]
            ds == [kv EXCEPT !.head = 0, !.cells = cs]
<1>1. DOMAIN kv.cells = 0 .. m - 1 BY CacheFacts
<1>2. KvSeqCp(kv, src, dst) = ds BY <1>1 DEF KvSeqCp
<1>3. ASSUME NEW c \in 0 .. m - 1
      PROVE  /\ cs[c] \in Cell
             /\ cs[c].pos = kv.cells[c].pos /\ cs[c].data = kv.cells[c].data
             /\ cs[c].seq_id =
                   kv.cells[c].seq_id \cup (IF src \in kv.cells[c].seq_id THEN {dst} ELSE {})
  <2>1. kv.cells[c] \in Cell /\ kv.cells[c].seq_id \in SUBSET Nat BY CacheFacts
  <2>2. \A d \in Cell : [d EXCEPT !.seq_id = @ \cup {dst}] \in Cell BY DEF Cell
  <2>. QED BY <2>1, <2>2 DEF Cell
<1>4. cs \in [0 .. m - 1 -> Cell] BY <1>3
<1>. HIDE DEF cs
<1>5. ds \in Cache(m) /\ ds.head = 0 /\ ds.n = kv.n /\ ds.cells = cs
  <2>1. 0 \in Int OBVIOUS
  <2>. QED BY <1>4, <2>1, WithCells, Zenon DEF Cache
<1>. HIDE DEF ds
<1>. QED BY <1>2, <1>3, <1>5 DEF CopyOf

\* What whisper_kv_cache_seq_rm makes of a cache.
RemovalOf(ds, kv, m, seq) ==
    /\ ds \in Cache(m) /\ ds.n = kv.n
    /\ \/ ds.head = kv.head
       \/ ds.head \in 0 .. m - 1 /\ kv.cells[ds.head].seq_id = {seq}
    /\ \A c \in 0 .. m - 1 :
          /\ kv.cells[c].seq_id = {seq} => ds.cells[c] = FreeCell
          /\ kv.cells[c].seq_id # {seq} =>
                /\ ds.cells[c].pos = kv.cells[c].pos
                /\ ds.cells[c].data = kv.cells[c].data
                /\ ds.cells[c].seq_id = kv.cells[c].seq_id \ {seq}

LEMMA RemoveStep ==
    ASSUME NEW m \in Nat, NEW kv \in Cache(m), NEW seq \in Nat
    PROVE  RemovalOf(KvSeqRm(kv, seq), kv, m, seq)
<1>. DEFINE cs == [c \in 0 .. m - 1 |->
                     IF kv.cells[c].seq_id = {seq} THEN FreeCell
                     ELSE [kv.cells[c] EXCEPT !.seq_id = @ \ {seq}]]
            freed == {c \in 0 .. m - 1 : kv.cells[c].seq_id = {seq}}
            h == IF freed = {} THEN kv.head ELSE Min(freed)
            ds == [kv EXCEPT !.cells = cs, !.head = h]
            es == [kv EXCEPT !.head = h, !.cells = cs]
<1>1. DOMAIN kv.cells = 0 .. m - 1 /\ kv.head \in Int BY CacheFacts
<1>2. KvSeqRm(kv, seq) = ds BY <1>1, Zenon DEF KvSeqRm
<1>3. ASSUME NEW c \in 0 .. m - 1
      PROVE  /\ cs[c] \in Cell
             /\ kv.cells[c].seq_id = {seq} => cs[c] = FreeCell
             /\ kv.cells[c].seq_id # {seq} =>
                   /\ cs[c].pos = kv.cells[c].pos /\ cs[c].data = kv.cells[c].data
                   /\ cs[c].seq_id = kv.cells[c].seq_id \ {seq}
  <2>1. kv.cells[c] \in Cell /\ kv.cells[c].seq_id \in SUBSET Nat BY CacheFacts
  <2>2. \A d \in Cell : [d EXCEPT !.seq_id = @ \ {seq}] \in Cell BY DEF Cell
  <2>3. CASE kv.cells[c].seq_id = {seq}
    BY <2>3, FreeCellFacts
  <2>4. CASE kv.cells[c].seq_id # {seq}
    <3>1. cs[c] = [kv.cells[c] EXCEPT !.seq_id = @ \ {seq}] BY <2>4
    <3>. HIDE DEF cs
    <3>2. cs[c] \in Cell BY <2>1, <2>2, <3>1
    <3>3. /\ cs[c].pos = kv.cells[c].pos /\ cs[c].data = kv.cells[c].data
          /\ cs[c].seq_id = kv.cells[c].seq_id \ {seq}
      BY <2>1, <3>1 DEF Cell
    <3>. QED BY <2>4, <3>2, <3>3
  <2>. QED BY <2>3, <2>4
<1>4. cs \in [0 .. m - 1 -> Cell] BY <1>3
<1>5. h \in Int /\ (h = kv.head \/ h \in freed)
  <2>1. freed \in SUBSET Nat OBVIOUS
  <2>2. freed # {} => Min(freed) \in freed BY <2>1, MinNat, Zenon
  <2>3. h = kv.head \/ h \in freed BY <2>2
  <2>4. \A x \in freed : x \in Int OBVIOUS
  <2>. HIDE DEF freed, h
  <2>. QED BY <1>1, <2>3, <2>4
<1>. HIDE DEF cs, h
<1>6. ds \in Cache(m) /\ ds.head = h /\ ds.n = kv.n /\ ds.cells = cs
  <2>1. es \in Cache(m) /\ es.head = h /\ es.n = kv.n /\ es.cells = cs
    BY <1>4, <1>5, WithCells, Zenon DEF Cache
  <2>2. ds = es OBVIOUS
  <2>. QED BY <2>1, <2>2
<1>. HIDE DEF ds
<1>. QED BY <1>2, <1>3, <1>5, <1>6 DEF RemovalOf

-----------------------------------------------------------------------------
\* The folds over decoders.  The equation that defines FoldLeft mentions the operator that is
\* folded, so that each of the three has a lemma of its own.

\* The rounds of a fold.
LEMMA Rounds ==
    ASSUME NEW n \in Nat, NEW k \in 1 .. n
    PROVE  /\ 1 .. k \in SUBSET (1 .. n) /\ 1 .. k # {}
           /\ Max(1 .. k) = k /\ (1 .. k) \ {k} = 1 .. k - 1
<1>1. 1 .. k \in SUBSET (1 .. n) /\ 1 .. k # {} /\ k \in Nat /\ k \in 1 .. k
  OBVIOUS
<1>2. (1 .. k) \ {k} = 1 .. k - 1
  OBVIOUS
<1>3. Max(1 .. k) = k
  <2>1. 1 .. k \in SUBSET (1 .. k) OBVIOUS
  <2>. QED BY <1>1, <2>1, MaxUpTo, Zenon
<1>. QED BY <1>1, <1>2, <1>3

LEMMA NoRounds == 1 .. 0 = {}
OBVIOUS

\* Cells are the same if what they hold is.
LEMMA SameCell ==
    ASSUME NEW d \in Cell, NEW e \in Cell, d.pos = e.pos, d.seq_id = e.seq_id, d.data = e.data
    PROVE  d = e
BY DEF Cell

\* The fold of BeginDecoding, and its values g[1 .. k] after k rounds.
AllShared(cache, n) ==
    FoldLeft(LAMBDA kv, j : KvSeqCp(kv, 0, j), cache, [j \in 1 .. n |-> j])

SharedBy(g, base, n) ==
    /\ g[{}] = base
    /\ \A k \in 1 .. n : g[1 .. k] = KvSeqCp(g[1 .. k - 1], 0, k)
    /\ AllShared(base, n) = g[1 .. n]

LEMMA ShareFold ==
    ASSUME NEW m \in Nat, NEW n \in Nat, NEW base \in Cache(m)
    PROVE  \E g : SharedBy(g, base, n)
<1>. DEFINE seq == [j \in 1 .. n |-> j]
            V == Cache(m)
            F == [k \in 1 .. n |-> [v \in V |-> KvSeqCp(v, 0, seq[k])]]
            Eq(f) == f = [s \in SUBSET (1 .. n) |->
                             IF s = {} THEN base
                             ELSE KvSeqCp(f[s \ {Max(s)}], 0, seq[Max(s)])]
            g == CHOOSE f : Eq(f)
<1>1. F \in [1 .. n -> [V -> V]]
  <2>1. \A k \in 1 .. n : \A v \in V : KvSeqCp(v, 0, seq[k]) \in V
    <3>1. ASSUME NEW k \in 1 .. n, NEW v \in V PROVE KvSeqCp(v, 0, seq[k]) \in V
      <4>1. seq[k] \in Nat /\ 0 \in Nat OBVIOUS
      <4>. HIDE DEF seq
      <4>. QED BY <4>1, CopyStep, Zenon DEF CopyOf
    <3>. QED BY <3>1
  <2>. HIDE DEF V, seq
  <2>. QED BY <2>1
<1>2. \E f : Eq(f)
  <2>1. PICK f : Folds(f, V, base, n, F)
    <3>1. base \in V OBVIOUS
    <3>. HIDE DEF F, V
    <3>. QED BY <1>1, <3>1, FoldExists
  <2>2. ASSUME NEW s \in SUBSET (1 .. n), s # {}
        PROVE  F[Max(s)][f[s \ {Max(s)}]] = KvSeqCp(f[s \ {Max(s)}], 0, seq[Max(s)])
    <3>1. Max(s) \in 1 .. n
      <4>1. Max(s) \in s BY <2>2, MaxUpTo, Zenon
      <4>. QED BY <4>1
    <3>2. s \ {Max(s)} \in SUBSET (1 .. n) OBVIOUS
    <3>3. f[s \ {Max(s)}] \in V
      <4>. HIDE DEF V, F
      <4>. QED BY <2>1, <3>2 DEF Folds
    <3>. DEFINE r == Max(s)
                v == f[s \ {Max(s)}]
    <3>4. F[r] = [w \in V |-> KvSeqCp(w, 0, seq[r])] BY <3>1
    <3>. HIDE DEF V, seq, r, v, F
    <3>5. F[r][v] = KvSeqCp(v, 0, seq[r]) BY <3>3, <3>4 DEF v
    <3>. QED BY <3>5 DEF r, v
  <2>. HIDE DEF F, V, seq
  <2>3. Eq(f)
    <3>1. f \in [SUBSET (1 .. n) -> V] /\ f[{}] = base BY <2>1 DEF Folds
    <3>2. ASSUME NEW s \in SUBSET (1 .. n), s # {}
          PROVE  f[s] = KvSeqCp(f[s \ {Max(s)}], 0, seq[Max(s)])
      BY <2>1, <2>2, <3>2 DEF Folds
    <3>. QED BY <3>1, <3>2
  <2>. QED BY <2>3
<1>3. Eq(g)
  <2>. HIDE DEF Eq
  <2>. QED BY <1>2
<1>4. AllShared(base, n) = g[1 .. n]
  <2>1. AllShared(base, n) = FoldLeft(LAMBDA kv, j : KvSeqCp(kv, 0, j), base, seq)
    BY Zenon DEF AllShared
  <2>2. DOMAIN seq = 1 .. n OBVIOUS
  <2>. HIDE DEF seq
  <2>. QED BY <2>1, <2>2, Zenon DEF FoldLeft, MapThenFoldSet
<1>. HIDE DEF g
<1>5. g[{}] = base
  <2>1. {} \in SUBSET (1 .. n) OBVIOUS
  <2>. HIDE DEF seq
  <2>. QED BY <1>3, <2>1, Zenon
<1>6. ASSUME NEW k \in 1 .. n PROVE g[1 .. k] = KvSeqCp(g[1 .. k - 1], 0, k)
  <2>1. /\ 1 .. k \in SUBSET (1 .. n) /\ 1 .. k # {}
        /\ Max(1 .. k) = k /\ (1 .. k) \ {k} = 1 .. k - 1
    BY Rounds, Zenon
  <2>2. seq[k] = k OBVIOUS
  <2>. HIDE DEF seq
  <2>3. g[1 .. k] = KvSeqCp(g[(1 .. k) \ {Max(1 .. k)}], 0, seq[Max(1 .. k)])
    BY <1>3, <2>1, Zenon
  <2>. QED BY <2>1, <2>2, <2>3, Zenon
<1>. QED BY <1>4, <1>5, <1>6, Zenon DEF SharedBy

\* One round of the first fold of TakeOver, and the fold.
Aside(kv, chosen, j) == KvSeqCp(kv, chosen[j].decoder_idx, MaxDecoders + j)

AllAside(kv, chosen, seq) ==
    FoldLeft(LAMBDA c, j : KvSeqCp(c, chosen[j].decoder_idx, MaxDecoders + j), kv, seq)

AsideBy(g, base, chosen, seq, n) ==
    /\ g[{}] = base
    /\ \A k \in 1 .. n : g[1 .. k] = Aside(g[1 .. k - 1], chosen, seq[k])
    /\ AllAside(base, chosen, seq) = g[1 .. n]

LEMMA AsideFold ==
    ASSUME NEW m \in Nat, NEW n \in Nat, NEW base \in Cache(m), NEW seq \in [1 .. n -> Nat],
           NEW chosen, \A k \in 1 .. n : chosen[seq[k]].decoder_idx \in Nat
    PROVE  \E g : AsideBy(g, base, chosen, seq, n)
<1>. DEFINE V == Cache(m)
            F == [k \in 1 .. n |-> [v \in V |-> Aside(v, chosen, seq[k])]]
            Eq(f) == f = [s \in SUBSET (1 .. n) |->
                             IF s = {} THEN base
                             ELSE Aside(f[s \ {Max(s)}], chosen, seq[Max(s)])]
            g == CHOOSE f : Eq(f)
<1>1. F \in [1 .. n -> [V -> V]]
  <2>1. \A k \in 1 .. n : \A v \in V : Aside(v, chosen, seq[k]) \in V
    <3>1. ASSUME NEW k \in 1 .. n, NEW v \in V PROVE Aside(v, chosen, seq[k]) \in V
      <4>1. chosen[seq[k]].decoder_idx \in Nat /\ MaxDecoders + seq[k] \in Nat
        BY DecodingAssumption
      <4>. QED BY <4>1, CopyStep, Zenon DEF Aside, CopyOf
    <3>. QED BY <3>1
  <2>. HIDE DEF V
  <2>. QED BY <2>1
<1>2. \E f : Eq(f)
  <2>1. PICK f : Folds(f, V, base, n, F)
    <3>1. base \in V OBVIOUS
    <3>. HIDE DEF F, V
    <3>. QED BY <1>1, <3>1, FoldExists
  <2>2. ASSUME NEW s \in SUBSET (1 .. n), s # {}
        PROVE  F[Max(s)][f[s \ {Max(s)}]] = Aside(f[s \ {Max(s)}], chosen, seq[Max(s)])
    <3>1. Max(s) \in 1 .. n
      <4>1. Max(s) \in s BY <2>2, MaxUpTo, Zenon
      <4>. QED BY <4>1
    <3>2. s \ {Max(s)} \in SUBSET (1 .. n) OBVIOUS
    <3>3. f[s \ {Max(s)}] \in V
      <4>. HIDE DEF V, F
      <4>. QED BY <2>1, <3>2 DEF Folds
    <3>. DEFINE r == Max(s)
                v == f[s \ {Max(s)}]
    <3>4. F[r] = [w \in V |-> Aside(w, chosen, seq[r])] BY <3>1
    <3>. HIDE DEF V, r, v, F
    <3>5. F[r][v] = Aside(v, chosen, seq[r]) BY <3>3, <3>4 DEF v
    <3>. QED BY <3>5 DEF r, v
  <2>. HIDE DEF F, V
  <2>3. Eq(f)
    <3>1. f \in [SUBSET (1 .. n) -> V] /\ f[{}] = base BY <2>1 DEF Folds
    <3>2. ASSUME NEW s \in SUBSET (1 .. n), s # {}
          PROVE  f[s] = Aside(f[s \ {Max(s)}], chosen, seq[Max(s)])
      BY <2>1, <2>2, <3>2 DEF Folds
    <3>. QED BY <3>1, <3>2
  <2>. QED BY <2>3
<1>3. Eq(g)
  <2>. HIDE DEF Eq
  <2>. QED BY <1>2
<1>4. AllAside(base, chosen, seq) = g[1 .. n]
  <2>1. DOMAIN seq = 1 .. n OBVIOUS
  <2>. QED BY <2>1, Zenon DEF AllAside, FoldLeft, MapThenFoldSet, Aside
<1>. HIDE DEF g
<1>5. g[{}] = base
  <2>1. {} \in SUBSET (1 .. n) OBVIOUS
  <2>. QED BY <1>3, <2>1, Zenon
<1>6. ASSUME NEW k \in 1 .. n PROVE g[1 .. k] = Aside(g[1 .. k - 1], chosen, seq[k])
  <2>1. /\ 1 .. k \in SUBSET (1 .. n) /\ 1 .. k # {}
        /\ Max(1 .. k) = k /\ (1 .. k) \ {k} = 1 .. k - 1
    BY Rounds, Zenon
  <2>3. g[1 .. k] = Aside(g[(1 .. k) \ {Max(1 .. k)}], chosen, seq[Max(1 .. k)])
    BY <1>3, <2>1, Zenon
  <2>. QED BY <2>1, <2>3, Zenon
<1>. QED BY <1>4, <1>5, <1>6, Zenon DEF AsideBy

\* One round of the second fold of TakeOver.
Moved(kv, j) == KvSeqRm(KvSeqCp(KvSeqRm(kv, j), MaxDecoders + j, j), MaxDecoders + j)

AllMoved(kv, seq) ==
    FoldLeft(LAMBDA c, j : KvSeqRm(KvSeqCp(KvSeqRm(c, j), MaxDecoders + j, j), MaxDecoders + j),
             kv, seq)

MovedBy(g, base, seq, n) ==
    /\ g[{}] = base
    /\ \A k \in 1 .. n : g[1 .. k] = Moved(g[1 .. k - 1], seq[k])
    /\ AllMoved(base, seq) = g[1 .. n]

LEMMA MovedType ==
    ASSUME NEW m \in Nat, NEW kv \in Cache(m), NEW j \in Nat
    PROVE  Moved(kv, j) \in Cache(m)
<1>1. MaxDecoders + j \in Nat BY DecodingAssumption
<1>2. KvSeqRm(kv, j) \in Cache(m) BY RemoveStep, Zenon DEF RemovalOf
<1>3. KvSeqCp(KvSeqRm(kv, j), MaxDecoders + j, j) \in Cache(m)
  BY <1>1, <1>2, CopyStep, Zenon DEF CopyOf
<1>. QED BY <1>1, <1>3, RemoveStep, Zenon DEF Moved, RemovalOf

LEMMA MoveFold ==
    ASSUME NEW m \in Nat, NEW n \in Nat, NEW base \in Cache(m), NEW seq \in [1 .. n -> Nat]
    PROVE  \E g : MovedBy(g, base, seq, n)
<1>. DEFINE V == Cache(m)
            F == [k \in 1 .. n |-> [v \in V |-> Moved(v, seq[k])]]
            Eq(f) == f = [s \in SUBSET (1 .. n) |->
                             IF s = {} THEN base
                             ELSE Moved(f[s \ {Max(s)}], seq[Max(s)])]
            g == CHOOSE f : Eq(f)
<1>1. F \in [1 .. n -> [V -> V]]
  <2>1. \A k \in 1 .. n : \A v \in V : Moved(v, seq[k]) \in V
    <3>1. ASSUME NEW k \in 1 .. n, NEW v \in V PROVE Moved(v, seq[k]) \in V
      <4>1. seq[k] \in Nat OBVIOUS
      <4>. QED BY <4>1, MovedType, Zenon
    <3>. QED BY <3>1
  <2>. HIDE DEF V
  <2>. QED BY <2>1
<1>2. \E f : Eq(f)
  <2>1. PICK f : Folds(f, V, base, n, F)
    <3>1. base \in V OBVIOUS
    <3>. HIDE DEF F, V
    <3>. QED BY <1>1, <3>1, FoldExists
  <2>2. ASSUME NEW s \in SUBSET (1 .. n), s # {}
        PROVE  F[Max(s)][f[s \ {Max(s)}]] = Moved(f[s \ {Max(s)}], seq[Max(s)])
    <3>1. Max(s) \in 1 .. n
      <4>1. Max(s) \in s BY <2>2, MaxUpTo, Zenon
      <4>. QED BY <4>1
    <3>2. s \ {Max(s)} \in SUBSET (1 .. n) OBVIOUS
    <3>3. f[s \ {Max(s)}] \in V
      <4>. HIDE DEF V, F
      <4>. QED BY <2>1, <3>2 DEF Folds
    <3>. DEFINE r == Max(s)
                v == f[s \ {Max(s)}]
    <3>4. F[r] = [w \in V |-> Moved(w, seq[r])] BY <3>1
    <3>. HIDE DEF V, r, v, F
    <3>5. F[r][v] = Moved(v, seq[r]) BY <3>3, <3>4 DEF v
    <3>. QED BY <3>5 DEF r, v
  <2>. HIDE DEF F, V
  <2>3. Eq(f)
    <3>1. f \in [SUBSET (1 .. n) -> V] /\ f[{}] = base BY <2>1 DEF Folds
    <3>2. ASSUME NEW s \in SUBSET (1 .. n), s # {}
          PROVE  f[s] = Moved(f[s \ {Max(s)}], seq[Max(s)])
      BY <2>1, <2>2, <3>2 DEF Folds
    <3>. QED BY <3>1, <3>2
  <2>. QED BY <2>3
<1>3. Eq(g)
  <2>. HIDE DEF Eq
  <2>. QED BY <1>2
<1>4. AllMoved(base, seq) = g[1 .. n]
  <2>1. DOMAIN seq = 1 .. n OBVIOUS
  <2>. QED BY <2>1, Zenon DEF AllMoved, FoldLeft, MapThenFoldSet, Moved
<1>. HIDE DEF g
<1>5. g[{}] = base
  <2>1. {} \in SUBSET (1 .. n) OBVIOUS
  <2>. QED BY <1>3, <2>1, Zenon
<1>6. ASSUME NEW k \in 1 .. n PROVE g[1 .. k] = Moved(g[1 .. k - 1], seq[k])
  <2>1. /\ 1 .. k \in SUBSET (1 .. n) /\ 1 .. k # {}
        /\ Max(1 .. k) = k /\ (1 .. k) \ {k} = 1 .. k - 1
    BY Rounds, Zenon
  <2>3. g[1 .. k] = Moved(g[(1 .. k) \ {Max(1 .. k)}], seq[Max(1 .. k)])
    BY <1>3, <2>1, Zenon
  <2>. QED BY <2>1, <2>3, Zenon
<1>. QED BY <1>4, <1>5, <1>6, Zenon DEF MovedBy

\* What k copies make of a cache, none of them of a sequence that was copied to: each is
\* of the cells that its source had to begin with.
CopiesOf(kv, base, m, k, src, dst) ==
    /\ kv \in Cache(m) /\ kv.n = base.n /\ kv.head \in {0, base.head}
    /\ \A c \in 0 .. m - 1 :
          /\ kv.cells[c].pos = base.cells[c].pos
          /\ kv.cells[c].data = base.cells[c].data
          /\ \A q : q \in kv.cells[c].seq_id <=>
                      \/ q \in base.cells[c].seq_id
                      \/ \E x \in 1 .. k : src[x] \in base.cells[c].seq_id /\ q = dst[x]

LEMMA CopyRounds ==
    ASSUME NEW m \in Nat, NEW n \in Nat, NEW base \in Cache(m),
           NEW src \in [1 .. n -> Nat], NEW dst \in [1 .. n -> Nat],
           \A x, y \in 1 .. n : dst[x] # src[y],
           NEW g, g[{}] = base,
           \A k \in 1 .. n : g[1 .. k] = KvSeqCp(g[1 .. k - 1], src[k], dst[k])
    PROVE  CopiesOf(g[1 .. n], base, m, n, src, dst)
<1>. DEFINE T == {k \in 0 .. n : CopiesOf(g[1 .. k], base, m, k, src, dst)}
<1>1. 0 \in T
  <2>1. g[1 .. 0] = base BY NoRounds
  <2>2. CopiesOf(base, base, m, 0, src, dst) BY DEF CopiesOf
  <2>3. 0 \in 0 .. n OBVIOUS
  <2>. QED BY <2>1, <2>2, <2>3
<1>2. ASSUME NEW k \in 1 .. n, k - 1 \in T PROVE k \in T
  <2>. DEFINE kv == g[1 .. k - 1]
              next == g[1 .. k]
  <2>1. CopiesOf(kv, base, m, k - 1, src, dst) BY <1>2
  <2>2. next = KvSeqCp(kv, src[k], dst[k]) OBVIOUS
  <2>3. src[k] \in Nat /\ dst[k] \in Nat OBVIOUS
  <2>. HIDE DEF kv, next
  <2>4. kv \in Cache(m) BY <2>1 DEF CopiesOf
  <2>5. CopyOf(next, kv, m, src[k], dst[k]) BY <2>2, <2>3, <2>4, CopyStep, Zenon
  <2>6. ASSUME NEW c \in 0 .. m - 1
        PROVE  /\ next.cells[c].pos = base.cells[c].pos
               /\ next.cells[c].data = base.cells[c].data
               /\ \A q : q \in next.cells[c].seq_id <=>
                           \/ q \in base.cells[c].seq_id
                           \/ \E x \in 1 .. k : src[x] \in base.cells[c].seq_id /\ q = dst[x]
    <3>. DEFINE old == base.cells[c].seq_id
                cur == kv.cells[c].seq_id
                new == next.cells[c].seq_id
    <3>1. \A q : q \in cur <=> \/ q \in old
                               \/ \E x \in 1 .. k - 1 : src[x] \in old /\ q = dst[x]
      BY <2>1, Zenon DEF CopiesOf
    <3>2. src[k] \in cur <=> src[k] \in old
      <4>1. \A x \in 1 .. k - 1 : x \in 1 .. n OBVIOUS
      <4>. HIDE DEF cur, old
      <4>. QED BY <3>1, <4>1
    <3>3. new = cur \cup (IF src[k] \in cur THEN {dst[k]} ELSE {}) BY <2>5 DEF CopyOf
    <3>4. 1 .. k = (1 .. k - 1) \cup {k} OBVIOUS
    <3>. HIDE DEF old, cur, new
    <3>5. \A q : q \in new <=> q \in cur \/ (src[k] \in cur /\ q = dst[k]) BY <3>3
    <3>6. \A q : q \in new <=> \/ q \in old
                               \/ \E x \in 1 .. k : src[x] \in old /\ q = dst[x]
      BY <3>1, <3>2, <3>4, <3>5
    <3>7. /\ next.cells[c].pos = base.cells[c].pos
          /\ next.cells[c].data = base.cells[c].data
      BY <2>1, <2>5 DEF CopiesOf, CopyOf
    <3>. QED BY <3>6, <3>7, Zenon DEF old, new
  <2>7. next \in Cache(m) /\ next.n = base.n /\ next.head \in {0, base.head}
    BY <2>1, <2>5 DEF CopiesOf, CopyOf
  <2>8. CopiesOf(next, base, m, k, src, dst) BY <2>6, <2>7, Zenon DEF CopiesOf
  <2>. QED BY <2>8 DEF next
<1>. HIDE DEF T
<1>3. n \in T BY <1>1, <1>2, UpTo
<1>. QED BY <1>3 DEF T

\* What BeginDecoding makes of the cache that holds the prompt.
LEMMA Shared ==
    ASSUME NEW m \in Nat, NEW n \in Nat, NEW base \in Cache(m)
    PROVE  \E src, dst \in [1 .. n -> Nat] :
              /\ \A k \in 1 .. n : src[k] = 0 /\ dst[k] = k
              /\ CopiesOf(AllShared(base, n), base, m, n, src, dst)
<1>1. PICK g : SharedBy(g, base, n) BY ShareFold
<1>. DEFINE src == [k \in 1 .. n |-> 0]
            dst == [k \in 1 .. n |-> k]
<1>2. \A k \in 1 .. n : src[k] = 0 /\ dst[k] = k /\ k \in Nat /\ 0 \in Nat OBVIOUS
<1>3. src \in [1 .. n -> Nat] /\ dst \in [1 .. n -> Nat]
  <2>1. 0 \in Nat /\ \A k \in 1 .. n : k \in Nat OBVIOUS
  <2>. QED BY <2>1, Zenon
<1>. HIDE DEF src, dst
<1>4. \A x, y \in 1 .. n : dst[x] # src[y] BY <1>2
<1>5. \A k \in 1 .. n : g[1 .. k] = KvSeqCp(g[1 .. k - 1], src[k], dst[k])
  BY <1>1, <1>2, Zenon DEF SharedBy
<1>6. CopiesOf(g[1 .. n], base, m, n, src, dst)
  <2>1. g[{}] = base BY <1>1 DEF SharedBy
  <2>. QED BY <1>3, <1>4, <1>5, <2>1, CopyRounds, Zenon
<1>7. CopiesOf(AllShared(base, n), base, m, n, src, dst) BY <1>1, <1>6, Zenon DEF SharedBy
<1>. QED BY <1>2, <1>3, <1>7, Zenon

\* A cell without a sequence is free.
Tidy(kv, m) == \A c \in 0 .. m - 1 : kv.cells[c].seq_id = {} => kv.cells[c] = FreeCell

\* What a round of the second fold makes of a tidy cache: the cells of decoder j are those
\* that were set aside for it.
MovedOf(ds, kv, m, j) ==
    /\ ds \in Cache(m) /\ ds.n = kv.n /\ ds.head = 0
    /\ \A c \in 0 .. m - 1 :
          /\ \A q : q \in ds.cells[c].seq_id <=>
                      \/ q \in kv.cells[c].seq_id /\ q # j /\ q # MaxDecoders + j
                      \/ MaxDecoders + j \in kv.cells[c].seq_id /\ q = j
          /\ ds.cells[c].seq_id = {} => ds.cells[c] = FreeCell
          /\ ds.cells[c].seq_id # {} => /\ ds.cells[c].pos = kv.cells[c].pos
                                        /\ ds.cells[c].data = kv.cells[c].data

LEMMA MovedStep ==
    ASSUME NEW m \in Nat, NEW kv \in Cache(m), Tidy(kv, m), NEW j \in Nat
    PROVE  MovedOf(Moved(kv, j), kv, m, j)
<1>. DEFINE M == MaxDecoders + j
            a == KvSeqRm(kv, j)
            b == KvSeqCp(a, M, j)
            d == KvSeqRm(b, M)
<1>1. M \in Nat /\ M # j BY DecodingAssumption
<1>2. Moved(kv, j) = d BY DEF Moved
<1>. HIDE DEF M
<1>3. RemovalOf(a, kv, m, j) BY RemoveStep, Zenon
<1>. HIDE DEF a
<1>4. a \in Cache(m) BY <1>3 DEF RemovalOf
<1>5. CopyOf(b, a, m, M, j) BY <1>1, <1>4, CopyStep, Zenon
<1>. HIDE DEF b
<1>6. b \in Cache(m) BY <1>5 DEF CopyOf
<1>7. RemovalOf(d, b, m, M) BY <1>1, <1>6, RemoveStep, Zenon
<1>. HIDE DEF d
<1>8. d \in Cache(m) BY <1>7 DEF RemovalOf
<1>9. ASSUME NEW c \in 0 .. m - 1
      PROVE  /\ b.cells[c].seq_id # {M}
             /\ \A q : q \in d.cells[c].seq_id <=>
                         \/ q \in kv.cells[c].seq_id /\ q # j /\ q # M
                         \/ M \in kv.cells[c].seq_id /\ q = j
             /\ d.cells[c].seq_id = {} => d.cells[c] = FreeCell
             /\ d.cells[c].seq_id # {} => /\ d.cells[c].pos = kv.cells[c].pos
                                          /\ d.cells[c].data = kv.cells[c].data
  <2>. DEFINE ck == kv.cells[c]
              ca == a.cells[c]
              cb == b.cells[c]
              cd == d.cells[c]
  <2>1. ck \in Cell /\ ca \in Cell /\ cb \in Cell /\ cd \in Cell
    BY <1>4, <1>6, <1>8, CacheFacts
  <2>2. /\ ck.seq_id = {j} => ca = FreeCell
        /\ ck.seq_id # {j} => /\ ca.pos = ck.pos /\ ca.data = ck.data
                              /\ ca.seq_id = ck.seq_id \ {j}
    BY <1>3, Zenon DEF RemovalOf
  <2>3. /\ cb.pos = ca.pos /\ cb.data = ca.data
        /\ cb.seq_id = ca.seq_id \cup (IF M \in ca.seq_id THEN {j} ELSE {})
    BY <1>5, Zenon DEF CopyOf
  <2>4. /\ cb.seq_id = {M} => cd = FreeCell
        /\ cb.seq_id # {M} => /\ cd.pos = cb.pos /\ cd.data = cb.data
                              /\ cd.seq_id = cb.seq_id \ {M}
    BY <1>7, Zenon DEF RemovalOf
  <2>5. ck.seq_id = {} => ck = FreeCell BY DEF Tidy
  <2>6. FreeCell \in Cell /\ FreeCell.seq_id = {} BY FreeCellFacts
  <2>. HIDE DEF ck, ca, cb, cd
  <2>7. \A q : q \in ca.seq_id <=> q \in ck.seq_id /\ q # j BY <2>2, <2>6
  <2>8. \A q : q \in cb.seq_id <=> q \in ca.seq_id \/ (M \in ca.seq_id /\ q = j) BY <2>3
  <2>9. cb.seq_id # {M}
    <3>1. M \in cb.seq_id => j \in cb.seq_id BY <1>1, <2>8
    <3>. QED BY <1>1, <3>1
  <2>10. /\ cd.pos = cb.pos /\ cd.data = cb.data
         /\ \A q : q \in cd.seq_id <=> q \in cb.seq_id /\ q # M
    BY <2>4, <2>9
  <2>11. \A q : q \in cd.seq_id <=> \/ q \in ck.seq_id /\ q # j /\ q # M
                                    \/ M \in ck.seq_id /\ q = j
    BY <1>1, <2>7, <2>8, <2>10
  <2>12. cd.seq_id = {} => ca.seq_id = {}
    BY <1>1, <2>8, <2>10
  <2>13. ca.seq_id = {} => ca = FreeCell
    <3>1. ck.seq_id = {} /\ ck.seq_id # {j} => ca = FreeCell
      BY <2>1, <2>2, <2>5, <2>6, SameCell
    <3>. QED BY <2>2, <2>7, <3>1
  <2>14. cd.seq_id = {} => cd = FreeCell
    <3>. SUFFICES ASSUME cd.seq_id = {} PROVE cd = FreeCell OBVIOUS
    <3>1. ca = FreeCell BY <2>12, <2>13
    <3>2. cd.pos = FreeCell.pos /\ cd.data = FreeCell.data /\ cd.seq_id = FreeCell.seq_id
      BY <2>3, <2>6, <2>10, <3>1
    <3>. QED BY <2>1, <2>6, <3>2, SameCell
  <2>15. cd.seq_id # {} => cd.pos = ck.pos /\ cd.data = ck.data
    <3>. SUFFICES ASSUME cd.seq_id # {} PROVE cd.pos = ck.pos /\ cd.data = ck.data OBVIOUS
    <3>1. ca.seq_id # {} BY <2>8, <2>10
    <3>2. ck.seq_id # {j} BY <2>7, <3>1
    <3>. QED BY <2>2, <2>3, <2>10, <3>2
  <2>. QED BY <2>9, <2>11, <2>14, <2>15, Zenon DEF ck, cb, cd
<1>10. d.n = kv.n BY <1>3, <1>5, <1>7 DEF RemovalOf, CopyOf
<1>11. d.head = 0
  <2>1. b.head = 0 BY <1>5 DEF CopyOf
  <2>2. d.head = b.head \/ (d.head \in 0 .. m - 1 /\ b.cells[d.head].seq_id = {M})
    BY <1>7 DEF RemovalOf
  <2>. QED BY <1>9, <2>1, <2>2
<1>12. MovedOf(d, kv, m, j) BY <1>8, <1>9, <1>10, <1>11, Zenon DEF MovedOf, M
<1>. QED BY <1>2, <1>12

\* What k rounds make of the cache in which all is set aside.
MovesOf(kv, base, m, k, live) ==
    /\ kv \in Cache(m) /\ kv.n = base.n /\ kv.head \in {0, base.head}
    /\ \A c \in 0 .. m - 1 :
          /\ \A q : q \in kv.cells[c].seq_id <=>
                      \/ /\ q \in base.cells[c].seq_id
                         /\ \A x \in 1 .. k : q # live[x] /\ q # MaxDecoders + live[x]
                      \/ \E x \in 1 .. k : /\ MaxDecoders + live[x] \in base.cells[c].seq_id
                                           /\ q = live[x]
          /\ kv.cells[c].seq_id = {} => kv.cells[c] = FreeCell
          /\ kv.cells[c].seq_id # {} => /\ kv.cells[c].pos = base.cells[c].pos
                                        /\ kv.cells[c].data = base.cells[c].data

LEMMA MoveRounds ==
    ASSUME NEW m \in Nat, NEW n \in Nat, NEW base \in Cache(m), Tidy(base, m),
           NEW live \in [1 .. n -> Index], \A x, y \in 1 .. n : live[x] = live[y] => x = y,
           NEW g, g[{}] = base,
           \A k \in 1 .. n : g[1 .. k] = Moved(g[1 .. k - 1], live[k])
    PROVE  MovesOf(g[1 .. n], base, m, n, live)
<1>. DEFINE T == {k \in 0 .. n : MovesOf(g[1 .. k], base, m, k, live)}
<1>1. 0 \in T
  <2>1. g[1 .. 0] = base BY NoRounds
  <2>2. MovesOf(base, base, m, 0, live) BY DEF MovesOf, Tidy
  <2>3. 0 \in 0 .. n OBVIOUS
  <2>. QED BY <2>1, <2>2, <2>3
<1>2. ASSUME NEW k \in 1 .. n, k - 1 \in T PROVE k \in T
  <2>. DEFINE kv == g[1 .. k - 1]
              next == g[1 .. k]
              j == live[k]
              M == MaxDecoders + j
  <2>1. MovesOf(kv, base, m, k - 1, live) BY <1>2
  <2>2. next = Moved(kv, j) OBVIOUS
  <2>3. /\ j \in Nat /\ MaxDecoders \in Nat /\ j < MaxDecoders
        /\ \A x \in 1 .. k - 1 : live[x] # j /\ live[x] \in Nat /\ live[x] < MaxDecoders
    BY DecodingAssumption DEF Index
  <2>. HIDE DEF kv, next, j
  <2>4. kv \in Cache(m) /\ Tidy(kv, m) BY <2>1 DEF MovesOf, Tidy
  <2>5. MovedOf(next, kv, m, j) BY <2>2, <2>3, <2>4, MovedStep, Zenon
  <2>6. /\ M # j
        /\ \A x \in 1 .. k - 1 : /\ M # live[x] /\ M # MaxDecoders + live[x]
                                /\ j # MaxDecoders + live[x]
    BY <2>3
  <2>7. next \in Cache(m) /\ next.n = base.n /\ next.head \in {0, base.head}
    BY <2>1, <2>5 DEF MovesOf, MovedOf
  <2>8. ASSUME NEW c \in 0 .. m - 1
        PROVE  /\ \A q : q \in next.cells[c].seq_id <=>
                           \/ /\ q \in base.cells[c].seq_id
                              /\ \A x \in 1 .. k : q # live[x] /\ q # MaxDecoders + live[x]
                           \/ \E x \in 1 .. k : /\ MaxDecoders + live[x] \in base.cells[c].seq_id
                                                /\ q = live[x]
               /\ next.cells[c].seq_id = {} => next.cells[c] = FreeCell
               /\ next.cells[c].seq_id # {} => /\ next.cells[c].pos = base.cells[c].pos
                                               /\ next.cells[c].data = base.cells[c].data
    <3>. DEFINE old == base.cells[c].seq_id
                cur == kv.cells[c].seq_id
                new == next.cells[c].seq_id
    <3>1. /\ \A q : q \in cur <=>
                \/ /\ q \in old
                   /\ \A x \in 1 .. k - 1 : q # live[x] /\ q # MaxDecoders + live[x]
                \/ \E x \in 1 .. k - 1 : MaxDecoders + live[x] \in old /\ q = live[x]
          /\ cur # {} => /\ kv.cells[c].pos = base.cells[c].pos
                         /\ kv.cells[c].data = base.cells[c].data
      BY <2>1, Zenon DEF MovesOf
    <3>2. /\ \A q : q \in new <=> \/ q \in cur /\ q # j /\ q # M
                                  \/ M \in cur /\ q = j
          /\ new = {} => next.cells[c] = FreeCell
          /\ new # {} => /\ next.cells[c].pos = kv.cells[c].pos
                         /\ next.cells[c].data = kv.cells[c].data
      BY <2>5, Zenon DEF MovedOf
    <3>3. 1 .. k = (1 .. k - 1) \cup {k} OBVIOUS
    <3>4. new # {} => cur # {}
      <4>. HIDE DEF cur, new, M
      <4>. QED BY <3>2
    <3>. HIDE DEF old, cur, new, M
    <3>5. M \in cur <=> M \in old BY <2>6, <3>1, Zenon
    <3>6. \A x \in 1 .. k : x = k \/ x \in 1 .. k - 1 BY <3>3
    <3>7. \A x \in 1 .. k - 1 : x \in 1 .. k BY <3>3
    <3>8. k \in 1 .. k BY <3>3
    <3>9. live[k] = j /\ MaxDecoders + live[k] = M BY DEF j, M
    <3>10. ASSUME NEW q
           PROVE  q \in new <=>
                    \/ /\ q \in old
                       /\ \A x \in 1 .. k : q # live[x] /\ q # MaxDecoders + live[x]
                    \/ \E x \in 1 .. k : MaxDecoders + live[x] \in old /\ q = live[x]
      <4>1. ASSUME q \in new
            PROVE  \/ /\ q \in old
                      /\ \A x \in 1 .. k : q # live[x] /\ q # MaxDecoders + live[x]
                   \/ \E x \in 1 .. k : MaxDecoders + live[x] \in old /\ q = live[x]
        <5>1. CASE M \in cur /\ q = j BY <3>5, <3>8, <3>9, <5>1, Zenon
        <5>2. CASE q \in cur /\ q # j /\ q # M
          <6>1. CASE \E x \in 1 .. k - 1 : MaxDecoders + live[x] \in old /\ q = live[x]
            BY <3>7, <6>1, Zenon
          <6>2. CASE /\ q \in old
                     /\ \A x \in 1 .. k - 1 : q # live[x] /\ q # MaxDecoders + live[x]
            BY <3>6, <3>9, <5>2, <6>2, Zenon
          <6>. QED BY <3>1, <5>2, <6>1, <6>2, Zenon
        <5>. QED BY <3>2, <4>1, <5>1, <5>2, Zenon
      <4>2. ASSUME q \in old, \A x \in 1 .. k : q # live[x] /\ q # MaxDecoders + live[x]
            PROVE  q \in new
        BY <3>1, <3>2, <3>7, <3>8, <3>9, <4>2, Zenon
      <4>3. ASSUME NEW x \in 1 .. k, MaxDecoders + live[x] \in old, q = live[x]
            PROVE  q \in new
        <5>1. CASE x = k BY <3>2, <3>5, <3>9, <4>3, <5>1, Zenon
        <5>2. CASE x \in 1 .. k - 1
          <6>1. q \in cur BY <3>1, <4>3, <5>2, Zenon
          <6>2. q # j /\ q # M BY <2>3, <2>6, <4>3, <5>2
          <6>. QED BY <3>2, <6>1, <6>2, Zenon
        <5>. QED BY <3>6, <5>1, <5>2
      <4>. QED BY <4>1, <4>2, <4>3, Zenon
    <3>11. /\ new = {} => next.cells[c] = FreeCell
           /\ new # {} => /\ next.cells[c].pos = base.cells[c].pos
                          /\ next.cells[c].data = base.cells[c].data
      BY <3>1, <3>2, <3>4
    <3>. QED BY <3>10, <3>11, Zenon DEF old, new
  <2>9. MovesOf(next, base, m, k, live) BY <2>7, <2>8, Zenon DEF MovesOf
  <2>. QED BY <2>9 DEF next
<1>. HIDE DEF T
<1>3. n \in T BY <1>1, <1>2, UpTo
<1>. QED BY <1>3 DEF T

\* What beam search makes of the cache: a live decoder has the cells of the one that it
\* continues, the others keep theirs, and a cell that nobody needs is free.
TakenOf(ds, kv, m, chosen) ==
    /\ ds \in Cache(m) /\ ds.n = kv.n /\ ds.head \in {0, kv.head}
    /\ \A c \in 0 .. m - 1 :
          /\ \A q : q \in ds.cells[c].seq_id <=>
                      \/ q \in kv.cells[c].seq_id /\ q \notin DOMAIN chosen
                      \/ q \in DOMAIN chosen /\ chosen[q].decoder_idx \in kv.cells[c].seq_id
          /\ ds.cells[c].seq_id = {} => ds.cells[c] = FreeCell
          /\ ds.cells[c].seq_id # {} => /\ ds.cells[c].pos = kv.cells[c].pos
                                        /\ ds.cells[c].data = kv.cells[c].data

LEMMA TakenOver ==
    ASSUME NEW m \in Nat, NEW kv \in Cache(m), Tidy(kv, m),
           \A c \in 0 .. m - 1 : kv.cells[c].seq_id \subseteq Index,
           NEW chosen, DOMAIN chosen \in SUBSET Index,
           \A j \in DOMAIN chosen : chosen[j].decoder_idx \in Index
    PROVE  TakenOf(TakeOver(kv, chosen), kv, m, chosen)
<1>. DEFINE S == DOMAIN chosen
            n == Cardinality(S)
            live == InOrder(S)
            M == MaxDecoders
<1>1. M \in Nat /\ \A j \in Index : j \in Nat /\ j < M BY DecodingAssumption DEF Index
<1>2. /\ n \in Nat /\ live \in [1 .. n -> S]
      /\ \A x, y \in 1 .. n : live[x] = live[y] => x = y
      /\ \A j \in S : \E x \in 1 .. n : live[x] = j
  <2>1. S \in SUBSET (0 .. M - 1) BY DEF Index
  <2>. HIDE DEF S, M
  <2>. QED BY <1>1, <2>1, InOrderFacts
<1>. DEFINE aside == AllAside(kv, chosen, live)
            moved == AllMoved(aside, live)
<1>3. TakeOver(kv, chosen) = moved BY Zenon DEF TakeOver, AllAside, AllMoved
<1>4. S \subseteq Index /\ \A j \in S : chosen[j].decoder_idx \in Index OBVIOUS
<1>. HIDE DEF S, n, live
<1>0. n \in Nat /\ kv \in Cache(m) /\ Tidy(kv, m) BY <1>2
<1>5a. live \in [1 .. n -> Nat] BY <1>1, <1>2, <1>4
<1>5. live \in [1 .. n -> Nat] /\ live \in [1 .. n -> Index] BY <1>1, <1>2, <1>4
<1>6. \A k \in 1 .. n : chosen[live[k]].decoder_idx \in Nat BY <1>1, <1>2, <1>4
<1>7. PICK g : AsideBy(g, kv, chosen, live, n) BY <1>0, <1>5a, <1>6, AsideFold
<1>. DEFINE src == [k \in 1 .. n |-> chosen[live[k]].decoder_idx]
            dst == [k \in 1 .. n |-> M + live[k]]
<1>8. \A k \in 1 .. n : /\ src[k] = chosen[live[k]].decoder_idx /\ dst[k] = M + live[k]
                        /\ src[k] \in Nat /\ dst[k] \in Nat
                        /\ src[k] < M /\ dst[k] >= M
  BY <1>1, <1>2, <1>4
<1>9. src \in [1 .. n -> Nat] /\ dst \in [1 .. n -> Nat]
  <2>1. \A k \in 1 .. n : chosen[live[k]].decoder_idx \in Nat /\ M + live[k] \in Nat
    BY <1>8
  <2>. QED BY <2>1, Zenon
<1>. HIDE DEF src, dst
<1>10. \A x, y \in 1 .. n : dst[x] # src[y] BY <1>1, <1>8
<1>11. \A k \in 1 .. n : g[1 .. k] = KvSeqCp(g[1 .. k - 1], src[k], dst[k])
  BY <1>7, <1>8, Zenon DEF AsideBy, Aside
<1>12. CopiesOf(aside, kv, m, n, src, dst)
  <2>1. g[{}] = kv /\ aside = g[1 .. n] BY <1>7 DEF AsideBy
  <2>. HIDE DEF aside
  <2>. QED BY <1>0, <2>1, <1>9, <1>10, <1>11, CopyRounds, Zenon
<1>. HIDE DEF aside
<1>13. aside \in Cache(m) /\ aside.n = kv.n /\ aside.head \in {0, kv.head}
  BY <1>12 DEF CopiesOf
<1>14. \A c \in 0 .. m - 1 :
          /\ aside.cells[c] \in Cell /\ kv.cells[c] \in Cell
          /\ aside.cells[c].pos = kv.cells[c].pos /\ aside.cells[c].data = kv.cells[c].data
          /\ \A q : q \in aside.cells[c].seq_id <=>
                      \/ q \in kv.cells[c].seq_id
                      \/ \E x \in 1 .. n : src[x] \in kv.cells[c].seq_id /\ q = dst[x]
  BY <1>12, <1>13, CacheFacts, Zenon DEF CopiesOf
<1>15. Tidy(aside, m)
  <2>. SUFFICES ASSUME NEW c \in 0 .. m - 1, aside.cells[c].seq_id = {}
                PROVE  aside.cells[c] = FreeCell
    BY DEF Tidy
  <2>1. kv.cells[c].seq_id = {} BY <1>14
  <2>2. kv.cells[c] = FreeCell BY <2>1 DEF Tidy
  <2>. DEFINE ca == aside.cells[c]
              ck == kv.cells[c]
  <2>3. /\ ca \in Cell /\ ck \in Cell /\ ca.pos = ck.pos /\ ca.data = ck.data
        /\ ca.seq_id = ck.seq_id
    BY <1>14, <2>1
  <2>. HIDE DEF ca, ck
  <2>4. ca = ck BY <2>3, SameCell
  <2>. QED BY <2>2, <2>4 DEF ca, ck
<1>16. PICK h : MovedBy(h, aside, live, n) BY <1>0, <1>5a, <1>13, MoveFold
<1>17. MovesOf(moved, aside, m, n, live)
  <2>1. /\ h[{}] = aside /\ moved = h[1 .. n]
        /\ \A k \in 1 .. n : h[1 .. k] = Moved(h[1 .. k - 1], live[k])
    BY <1>16, Zenon DEF MovedBy
  <2>2. live \in [1 .. n -> Index] /\ \A x, y \in 1 .. n : live[x] = live[y] => x = y
    BY <1>2, <1>5
  <2>3. aside \in Cache(m) BY <1>13
  <2>. HIDE DEF moved
  <2>. QED BY <1>0, <1>15, <2>1, <2>2, <2>3, MoveRounds, Zenon
<1>. HIDE DEF moved
<1>18. ASSUME NEW c \in 0 .. m - 1
       PROVE  /\ \A q : q \in moved.cells[c].seq_id <=>
                          \/ q \in kv.cells[c].seq_id /\ q \notin S
                          \/ q \in S /\ chosen[q].decoder_idx \in kv.cells[c].seq_id
              /\ moved.cells[c].seq_id = {} => moved.cells[c] = FreeCell
              /\ moved.cells[c].seq_id # {} => /\ moved.cells[c].pos = kv.cells[c].pos
                                               /\ moved.cells[c].data = kv.cells[c].data
  <2>. DEFINE old == kv.cells[c].seq_id
              cur == aside.cells[c].seq_id
              new == moved.cells[c].seq_id
  <2>1. \A q : q \in cur <=> q \in old \/ \E x \in 1 .. n : src[x] \in old /\ q = dst[x]
    BY <1>14
  <2>2. \A q : q \in new <=>
           \/ q \in cur /\ \A x \in 1 .. n : q # live[x] /\ q # MaxDecoders + live[x]
           \/ \E x \in 1 .. n : MaxDecoders + live[x] \in cur /\ q = live[x]
    BY <1>17, Zenon DEF MovesOf
  <2>3. \A q \in old : q \in Index OBVIOUS
  <2>. HIDE DEF old, cur, new
  <2>4. \A x \in 1 .. n : M + live[x] \in cur <=> src[x] \in old
    <3>. SUFFICES ASSUME NEW x \in 1 .. n PROVE M + live[x] \in cur <=> src[x] \in old OBVIOUS
    <3>1. M + live[x] = dst[x] /\ dst[x] \notin old BY <1>1, <1>8, <2>3
    <3>2. \A y \in 1 .. n : dst[y] = dst[x] => y = x
      <4>. SUFFICES ASSUME NEW y \in 1 .. n, dst[y] = dst[x] PROVE y = x OBVIOUS
      <4>1. live[x] \in Nat /\ live[y] \in Nat BY <1>5
      <4>2. live[x] = live[y] BY <1>1, <1>8, <4>1
      <4>. QED BY <1>2, <4>2
    <3>. QED BY <2>1, <3>1, <3>2
  <2>5. \A q : (\E x \in 1 .. n : M + live[x] \in cur /\ q = live[x])
                  <=> q \in S /\ chosen[q].decoder_idx \in old
    <3>. SUFFICES ASSUME NEW q
                  PROVE  (\E x \in 1 .. n : src[x] \in old /\ q = live[x])
                            <=> q \in S /\ chosen[q].decoder_idx \in old
      BY <2>4
    <3>1. \A x \in 1 .. n : live[x] \in S /\ src[x] = chosen[live[x]].decoder_idx
      BY <1>2, <1>8
    <3>2. q \in S => \E x \in 1 .. n : live[x] = q BY <1>2
    <3>. QED BY <3>1, <3>2, Zenon
  <2>6. \A q : (q \in cur /\ \A x \in 1 .. n : q # live[x] /\ q # M + live[x])
                  <=> q \in old /\ q \notin S
    <3>. SUFFICES ASSUME NEW q
                  PROVE  (q \in cur /\ \A x \in 1 .. n : q # live[x] /\ q # dst[x])
                            <=> q \in old /\ q \notin S
      BY <1>8
    <3>1. (\E x \in 1 .. n : q = live[x]) <=> q \in S BY <1>2
    <3>2. q \in old => \A x \in 1 .. n : q # dst[x] BY <1>1, <1>8, <2>3
    <3>. QED BY <2>1, <3>1, <3>2, Zenon
  <2>7. \A q : q \in new <=> \/ q \in old /\ q \notin S
                             \/ q \in S /\ chosen[q].decoder_idx \in old
    BY <2>2, <2>5, <2>6, Zenon DEF M
  <2>8. /\ new = {} => moved.cells[c] = FreeCell
        /\ new # {} => /\ moved.cells[c].pos = kv.cells[c].pos
                       /\ moved.cells[c].data = kv.cells[c].data
    BY <1>14, <1>17 DEF MovesOf, new
  <2>. QED BY <2>7, <2>8, Zenon DEF old, new
<1>19. moved \in Cache(m) /\ moved.n = kv.n /\ moved.head \in {0, kv.head}
  BY <1>13, <1>17 DEF MovesOf
<1>20. TakenOf(moved, kv, m, chosen) BY <1>18, <1>19, Zenon DEF TakenOf, S
<1>. QED BY <1>3, <1>20

\* Pad rounds up.
LEMMA PadFacts ==
    ASSUME NEW x \in Nat, NEW n \in Nat \ {0}
    PROVE  Pad(x, n) \in Nat /\ Pad(x, n) >= x
<1>. DEFINE q == (x + n - 1) \div n
            r == (x + n - 1) % n
<1>1. q \in Nat /\ r \in 0 .. n - 1 /\ x + n - 1 = n * q + r OBVIOUS
<1>2. Pad(x, n) = q * n BY DEF Pad
<1>. HIDE DEF q, r
<1>3. q * n = n * q /\ q * n \in Nat BY <1>1
<1>. DEFINE p == q * n
<1>4. p = n * q /\ p \in Nat BY <1>3
<1>5. p >= x
  <2>. DEFINE t == n * q
  <2>1. x + n - 1 = t + r /\ p = t BY <1>1, <1>4
  <2>. HIDE DEF p, t
  <2>. QED BY <1>1, <1>4, <2>1
<1>. QED BY <1>2, <1>4, <1>5

-----------------------------------------------------------------------------
\* Batches of n tokens.
Batches(n) == [1 .. n -> [pos : Nat, seq : Nat, data : Seq(Tokens)]]

\* A batch that is stored in the cells from s on.
StoredAt(ds, kv, m, batch, s) ==
    /\ ds \in Cache(m) /\ ds.head = s /\ ds.n <= m
    /\ s \in Nat /\ s + Len(batch) <= m
    /\ \A c \in 0 .. m - 1 :
          /\ c \in s .. s + Len(batch) - 1 =>
                /\ kv.cells[c].pos < 0
                /\ ds.cells[c] = [pos    |-> batch[c - s + 1].pos,
                                  seq_id |-> kv.cells[c].seq_id \cup {batch[c - s + 1].seq},
                                  data   |-> batch[c - s + 1].data]
          /\ c \notin s .. s + Len(batch) - 1 => ds.cells[c] = kv.cells[c]
          /\ ds.cells[c].pos >= 0 /\ ds.cells[c].seq_id # {} => c < ds.n

\* Where the cells are free from used on, a batch that fits there is stored there or before.
LEMMA Store ==
    ASSUME NEW m \in Nat, NEW kv \in Cache(m), NEW n \in Nat \ {0},
           NEW batch \in Batches(n),
           NEW used \in Nat, kv.head \in 0 .. used, used + n <= m,
           \A c \in 0 .. m - 1 : c >= used => kv.cells[c].pos < 0
    PROVE  /\ Len(batch) = n /\ Slots(kv, n) # {}
           /\ Slot(kv, n) \in 0 .. used
           /\ StoredAt(KvStore(kv, batch), kv, m, batch, Slot(kv, n))
<1>0. batch \in [1 .. n -> [pos : Nat, seq : Nat, data : Seq(Tokens)]] BY DEF Batches
<1>1. Len(batch) = n BY <1>0
<1>2. kv.size = m /\ DOMAIN kv.cells = 0 .. m - 1 /\ kv.head \in 0 .. used /\ kv.n \in Int
  BY CacheFacts
<1>. DEFINE free == Slots(kv, n)
            ahead == {s \in free : s >= kv.head}
            s == Slot(kv, n)
<1>3. free = {t \in 0 .. m - n : \A c \in t .. t + n - 1 : kv.cells[c].pos < 0}
  BY <1>2 DEF Slots
<1>4. used \in free
  <2>1. used \in 0 .. m - n OBVIOUS
  <2>2. \A c \in used .. used + n - 1 : c \in 0 .. m - 1 /\ c >= used OBVIOUS
  <2>. QED BY <1>3, <2>1, <2>2
<1>5. free \in SUBSET Nat BY <1>3
<1>6. s \in ahead /\ s <= used
  <2>1. used \in ahead BY <1>2, <1>4
  <2>2. s = Min(ahead) BY <2>1 DEF Slot
  <2>3. ahead \in SUBSET Nat BY <1>5
  <2>. HIDE DEF ahead, s
  <2>. QED BY <2>1, <2>2, <2>3, MinNat
<1>7. s \in Nat /\ s + n <= m /\ \A c \in s .. s + n - 1 : kv.cells[c].pos < 0
  BY <1>3, <1>6
<1>. HIDE DEF s, free, ahead
<1>. DEFINE cs == [c \in 0 .. m - 1 |->
                      IF c \in s .. s + n - 1
                      THEN [pos    |-> batch[c - s + 1].pos,
                            seq_id |-> kv.cells[c].seq_id \cup {batch[c - s + 1].seq},
                            data   |-> batch[c - s + 1].data]
                      ELSE kv.cells[c]]
            top == CellMax([kv EXCEPT !.cells = cs])
            len == Min({kv.size, Max({Padding, Pad(top, Padding)})})
            ds == [kv EXCEPT !.head = s, !.cells = cs, !.n = len]
<1>8. KvStore(kv, batch) = ds BY <1>1, <1>2, Zenon DEF KvStore, s
<1>9. \A c \in 0 .. m - 1 : kv.cells[c] \in Cell /\ kv.cells[c].seq_id \in SUBSET Nat
  BY CacheFacts
<1>10. cs \in [0 .. m - 1 -> Cell]
  <2>1. \A c \in 0 .. m - 1 : c \in s .. s + n - 1 =>
           [pos    |-> batch[c - s + 1].pos,
            seq_id |-> kv.cells[c].seq_id \cup {batch[c - s + 1].seq},
            data   |-> batch[c - s + 1].data] \in Cell
    <3>. SUFFICES ASSUME NEW c \in 0 .. m - 1, c \in s .. s + n - 1
                  PROVE  [pos    |-> batch[c - s + 1].pos,
                          seq_id |-> kv.cells[c].seq_id \cup {batch[c - s + 1].seq},
                          data   |-> batch[c - s + 1].data] \in Cell
      OBVIOUS
    <3>1. c - s + 1 \in 1 .. n BY <1>7
    <3>. DEFINE e == batch[c - s + 1]
    <3>2. e \in [pos : Nat, seq : Nat, data : Seq(Tokens)] BY <1>0, <3>1
    <3>. HIDE DEF e
    <3>3. e.pos \in Int /\ e.seq \in Nat /\ e.data \in Seq(Tokens) BY <3>2
    <3>4. kv.cells[c].seq_id \cup {e.seq} \in SUBSET Nat BY <1>9, <3>3
    <3>5. [pos |-> e.pos, seq_id |-> kv.cells[c].seq_id \cup {e.seq}, data |-> e.data] \in Cell
      BY <3>3, <3>4, Zenon DEF Cell
    <3>. QED BY <3>5 DEF e
  <2>. QED BY <1>9, <2>1
<1>11. \A c \in 0 .. m - 1 :
          /\ c \in s .. s + n - 1 =>
                cs[c] = [pos    |-> batch[c - s + 1].pos,
                         seq_id |-> kv.cells[c].seq_id \cup {batch[c - s + 1].seq},
                         data   |-> batch[c - s + 1].data]
          /\ c \notin s .. s + n - 1 => cs[c] = kv.cells[c]
  OBVIOUS
<1>. HIDE DEF cs
<1>12. /\ top \in Nat
       /\ \A c \in 0 .. m - 1 : cs[c].pos >= 0 /\ cs[c].seq_id # {} => c + 1 <= top
  <2>. DEFINE inUse == {1} \cup {c + 1 : c \in {d \in 0 .. m - 1 :
                                                 cs[d].pos >= 0 /\ cs[d].seq_id # {}}}
  <2>1. top = Max(inUse)
    <3>1. [kv EXCEPT !.cells = cs].cells = cs BY DEF Cache
    <3>2. DOMAIN cs = 0 .. m - 1 BY <1>10
    <3>. QED BY <3>1, <3>2, Zenon DEF CellMax
  <2>2. inUse \in SUBSET (0 .. m + 1) /\ inUse # {} /\ m + 1 \in Nat OBVIOUS
  <2>3. Max(inUse) \in inUse /\ \A x \in inUse : x <= Max(inUse)
    <3>. HIDE DEF inUse
    <3>. QED BY <2>2, MaxNat, Zenon
  <2>4. \A c \in 0 .. m - 1 : cs[c].pos >= 0 /\ cs[c].seq_id # {} => c + 1 \in inUse OBVIOUS
  <2>5. \A x \in inUse : x \in Nat OBVIOUS
  <2>. HIDE DEF inUse, top
  <2>. QED BY <2>1, <2>3, <2>4, <2>5
<1>. HIDE DEF top
<1>13. len \in Int /\ len <= m /\ \A x \in Nat : x <= top /\ x <= m => x <= len
  <2>1. Padding \in Nat \ {0} BY PaddingAssumption
  <2>. DEFINE p == Pad(top, Padding)
              a == Max({Padding, p})
  <2>2. p \in Nat /\ p >= top BY <1>12, <2>1, PadFacts
  <2>. HIDE DEF p
  <2>7. Padding \in Int /\ p \in Int /\ m \in Int BY <2>1, <2>2
  <2>3. a \in {Padding, p} /\ p <= a BY <2>7, MaxOfTwo, Zenon
  <2>4. a \in Int BY <2>1, <2>2, <2>3
  <2>. HIDE DEF a
  <2>5. len = Min({m, a}) BY <1>2 DEF a, p
  <2>6. Min({m, a}) \in {m, a} BY <2>4, <2>7, MinOfTwo, Zenon
  <2>10. Min({m, a}) <= m BY <2>4, <2>7, MinOfTwo, Zenon
  <2>. HIDE DEF len
  <2>8. len <= m /\ (len = m \/ len = a) BY <2>5, <2>6, <2>10, Zenon
  <2>9. top \in Nat BY <1>12
  <2>. QED BY <2>2, <2>3, <2>4, <2>7, <2>8, <2>9
<1>. HIDE DEF len
<1>14. ds \in Cache(m) /\ ds.head = s /\ ds.cells = cs /\ ds.n = len
  <2>1. s \in Int BY <1>7
  <2>. DEFINE V == [0 .. m - 1 -> Cell]
              fs == [kv EXCEPT !.n = len]
  <2>2. kv \in [head : Int, size : {m}, n : Int, cells : V] BY DEF Cache
  <2>3. cs \in V BY <1>10
  <2>. HIDE DEF V
  <2>4. ds \in [head : Int, size : {m}, n : Int, cells : V]
        /\ ds.head = s /\ ds.cells = cs /\ ds.n = len
    BY <1>13, <2>1, <2>2, <2>3
  <2>. HIDE DEF ds
  <2>. QED BY <2>4 DEF Cache, V
<1>. HIDE DEF ds
<1>15. StoredAt(ds, kv, m, batch, s)
  <2>1. ASSUME NEW c \in 0 .. m - 1, cs[c].pos >= 0, cs[c].seq_id # {} PROVE c < len
    <3>1. c + 1 \in Nat /\ c + 1 <= top /\ c + 1 <= m BY <1>12, <2>1
    <3>. QED BY <1>13, <3>1
  <2>. QED BY <1>1, <1>7, <1>11, <1>13, <1>14, <2>1, Zenon DEF StoredAt
<1>16. s \in 0 .. used BY <1>6, <1>7
<1>. QED BY <1>1, <1>4, <1>8, <1>15, <1>16 DEF s, free

\* Sequence j of the cache is the hypothesis with these tokens after a prompt of plen:
\* each position up to len is in exactly one of its cells, with the tokens up to there.
Holds(kv, m, j, plen, len, tokens) ==
    /\ \A c \in 0 .. m - 1 : j \in kv.cells[c].seq_id =>
          /\ kv.cells[c].pos \in 0 .. len - 1
          /\ kv.cells[c].data = SubSeq(tokens, 1, kv.cells[c].pos - plen + 1)
    /\ \A c, d \in 0 .. m - 1 :
          /\ j \in kv.cells[c].seq_id /\ j \in kv.cells[d].seq_id
          /\ kv.cells[c].pos = kv.cells[d].pos
          => c = d
    /\ \A p \in 0 .. len - 1 : \E c \in 0 .. m - 1 :
          j \in kv.cells[c].seq_id /\ kv.cells[c].pos = p

\* A token that is sampled changes nothing of what the cells hold.
LEMMA HoldsOneMore ==
    ASSUME NEW m \in Nat, NEW kv \in Cache(m), NEW j, NEW plen \in Nat, NEW s \in Seq(Tokens),
           NEW t \in Tokens, Holds(kv, m, j, plen, plen + Len(s), s)
    PROVE  Holds(kv, m, j, plen, plen + Len(s), Append(s, t))
<1>1. ASSUME NEW q \in Int, q <= Len(s)
      PROVE  SubSeq(Append(s, t), 1, q) = SubSeq(s, 1, q)
  <2>. DEFINE u == Append(s, t)
  <2>1. u \in Seq(Tokens) /\ Len(u) = Len(s) + 1 /\ \A x \in 1 .. Len(s) : u[x] = s[x]
    OBVIOUS
  <2>. HIDE DEF u
  <2>2. CASE q < 1
    <3>1. 1 \in Int OBVIOUS
    <3>2. SubSeq(u, 1, q) = <<>> /\ SubSeq(s, 1, q) = <<>> BY <2>2, <3>1, SubSeqEmpty, Zenon
    <3>. QED BY <3>2 DEF u
  <2>3. CASE q >= 1
    <3>1. /\ SubSeq(u, 1, q) \in Seq(Tokens) /\ Len(SubSeq(u, 1, q)) = q
          /\ \A x \in 1 .. q : SubSeq(u, 1, q)[x] = u[x]
      BY <1>1, <2>1, <2>3
    <3>2. /\ SubSeq(s, 1, q) \in Seq(Tokens) /\ Len(SubSeq(s, 1, q)) = q
          /\ \A x \in 1 .. q : SubSeq(s, 1, q)[x] = s[x]
      BY <1>1, <2>3
    <3>. DEFINE v == SubSeq(u, 1, q)
                w == SubSeq(s, 1, q)
    <3>3. /\ v \in Seq(Tokens) /\ w \in Seq(Tokens) /\ Len(v) = Len(w)
          /\ \A x \in 1 .. Len(v) : v[x] = w[x]
      BY <1>1, <2>1, <3>1, <3>2
    <3>. HIDE DEF v, w
    <3>4. v = w BY <3>3
    <3>. QED BY <3>4 DEF u, v, w
  <2>. QED BY <1>1, <2>2, <2>3
<1>2. ASSUME NEW c \in 0 .. m - 1, j \in kv.cells[c].seq_id
      PROVE  kv.cells[c].data = SubSeq(Append(s, t), 1, kv.cells[c].pos - plen + 1)
  <2>. DEFINE q == kv.cells[c].pos - plen + 1
  <2>1. kv.cells[c].pos \in 0 .. (plen + Len(s)) - 1 /\ kv.cells[c].data = SubSeq(s, 1, q)
    BY <1>2, Zenon DEF Holds
  <2>2. q \in Int /\ q <= Len(s) BY <2>1
  <2>. HIDE DEF q
  <2>3. SubSeq(Append(s, t), 1, q) = SubSeq(s, 1, q) BY <1>1, <2>2
  <2>. QED BY <2>1, <2>3 DEF q
<1>. QED BY <1>2, Zenon DEF Holds

\* A batch that has the last token of the hypothesis in one place and no other of it adds
\* one position.
LEMMA HoldsStored ==
    ASSUME NEW m \in Nat, NEW kv \in Cache(m), NEW ds, NEW batch, NEW s,
           StoredAt(ds, kv, m, batch, s), NEW n \in Nat, Len(batch) = n,
           \A c \in 0 .. m - 1 : kv.cells[c].seq_id # {} => kv.cells[c].pos >= 0,
           NEW j, NEW plen \in Nat, NEW len \in Nat, NEW tokens \in Seq(Tokens),
           len + 1 = plen + Len(tokens), Holds(kv, m, j, plen, len, tokens),
           NEW b \in 1 .. n, batch[b].seq = j, batch[b].pos = len, batch[b].data = tokens,
           \A a \in 1 .. n : batch[a].seq = j => a = b
    PROVE  Holds(ds, m, j, plen, len + 1, tokens)
<1>1. /\ ds \in Cache(m) /\ s \in Nat /\ s + n <= m
      /\ \A c \in 0 .. m - 1 :
            /\ c \in s .. s + n - 1 =>
                  /\ kv.cells[c].pos < 0
                  /\ ds.cells[c] = [pos    |-> batch[c - s + 1].pos,
                                    seq_id |-> kv.cells[c].seq_id \cup {batch[c - s + 1].seq},
                                    data   |-> batch[c - s + 1].data]
            /\ c \notin s .. s + n - 1 => ds.cells[c] = kv.cells[c]
  BY Zenon DEF StoredAt
<1>. DEFINE e == s + b - 1
<1>2. e \in 0 .. m - 1 /\ e \in s .. s + n - 1 /\ e - s + 1 = b BY <1>1
<1>. HIDE DEF e
<1>3. ASSUME NEW c \in 0 .. m - 1
      PROVE  /\ c = e => /\ j \in ds.cells[c].seq_id
                         /\ ds.cells[c].pos = len /\ ds.cells[c].data = tokens
             /\ c # e => (j \in ds.cells[c].seq_id <=> j \in kv.cells[c].seq_id)
             /\ j \in kv.cells[c].seq_id => c # e /\ ds.cells[c] = kv.cells[c]
  <2>1. CASE c \in s .. s + n - 1
    <3>. DEFINE a == c - s + 1
    <3>1. a \in 1 .. n /\ (c = e <=> a = b)
      BY <1>1, <1>2, <2>1
    <3>2. /\ ds.cells[c].pos = batch[a].pos /\ ds.cells[c].data = batch[a].data
          /\ ds.cells[c].seq_id = kv.cells[c].seq_id \cup {batch[a].seq}
          /\ kv.cells[c].pos < 0
      <4>1. /\ kv.cells[c].pos < 0
            /\ ds.cells[c] = [pos    |-> batch[a].pos,
                              seq_id |-> kv.cells[c].seq_id \cup {batch[a].seq},
                              data   |-> batch[a].data]
        BY <1>1, <2>1, Zenon
      <4>. HIDE DEF a
      <4>. QED BY <4>1
    <3>3. kv.cells[c].seq_id = {}
      <4>1. kv.cells[c].pos \in Int BY CacheFacts
      <4>. QED BY <3>2, <4>1
    <3>. HIDE DEF a
    <3>4. j \in ds.cells[c].seq_id <=> batch[a].seq = j BY <3>2, <3>3
    <3>. QED BY <3>1, <3>2, <3>3, <3>4
  <2>2. CASE c \notin s .. s + n - 1
    BY <1>1, <1>2, <2>2
  <2>. QED BY <2>1, <2>2
<1>4. \A c \in 0 .. m - 1 :
         /\ kv.cells[c].pos \in Int
         /\ j \in kv.cells[c].seq_id =>
               /\ kv.cells[c].pos \in 0 .. len - 1
               /\ kv.cells[c].data = SubSeq(tokens, 1, kv.cells[c].pos - plen + 1)
  BY CacheFacts DEF Holds
<1>5. tokens = SubSeq(tokens, 1, len - plen + 1)
  <2>1. len - plen + 1 = Len(tokens) OBVIOUS
  <2>. QED BY <2>1
<1>6. ASSUME NEW c \in 0 .. m - 1, j \in ds.cells[c].seq_id
      PROVE  /\ ds.cells[c].pos \in 0 .. (len + 1) - 1
             /\ ds.cells[c].data = SubSeq(tokens, 1, ds.cells[c].pos - plen + 1)
  <2>1. CASE c = e
    <3>1. ds.cells[c].pos = len /\ ds.cells[c].data = tokens BY <1>3, <2>1
    <3>2. len \in 0 .. (len + 1) - 1 OBVIOUS
    <3>. QED BY <1>5, <3>1, <3>2
  <2>2. CASE c # e
    <3>1. j \in kv.cells[c].seq_id /\ ds.cells[c] = kv.cells[c] BY <1>3, <1>6, <2>2
    <3>2. \A p \in 0 .. len - 1 : p \in 0 .. (len + 1) - 1 OBVIOUS
    <3>. QED BY <1>4, <3>1, <3>2
  <2>. QED BY <2>1, <2>2
<1>7. ASSUME NEW c \in 0 .. m - 1, NEW d \in 0 .. m - 1,
             j \in ds.cells[c].seq_id, j \in ds.cells[d].seq_id,
             ds.cells[c].pos = ds.cells[d].pos
      PROVE  c = d
  <2>1. \A x \in 0 .. m - 1 : j \in kv.cells[x].seq_id => kv.cells[x].pos # len
    BY <1>4
  <2>2. CASE c = e \/ d = e BY <1>3, <1>7, <2>1, <2>2
  <2>3. CASE c # e /\ d # e
    <3>1. /\ j \in kv.cells[c].seq_id /\ ds.cells[c] = kv.cells[c]
          /\ j \in kv.cells[d].seq_id /\ ds.cells[d] = kv.cells[d]
      BY <1>3, <1>7, <2>3
    <3>. QED BY <1>7, <3>1, Zenon DEF Holds
  <2>. QED BY <2>2, <2>3
<1>8. ASSUME NEW p \in 0 .. (len + 1) - 1
      PROVE  \E c \in 0 .. m - 1 : j \in ds.cells[c].seq_id /\ ds.cells[c].pos = p
  <2>1. CASE p = len BY <1>2, <1>3, <2>1
  <2>2. CASE p # len
    <3>1. p \in 0 .. len - 1 BY <2>2
    <3>2. PICK c \in 0 .. m - 1 : j \in kv.cells[c].seq_id /\ kv.cells[c].pos = p
      BY <3>1, Zenon DEF Holds
    <3>. QED BY <1>3, <3>2
  <2>. QED BY <2>1, <2>2
<1>. QED BY <1>6, <1>7, <1>8, Zenon DEF Holds

\* Attention finds the cell of every position once.
SeesOnce(kv, j, plen, len, tokens) ==
    /\ Cardinality(Visible(kv, j, len - 1)) = len
    /\ \A p \in 0 .. len - 1 : \E c \in Visible(kv, j, len - 1) :
          /\ kv.cells[c].pos = p
          /\ kv.cells[c].data = SubSeq(tokens, 1, p - plen + 1)

\* So a decoder sees what it holds: every position once, with its own tokens.
LEMMA SeenOnce ==
    ASSUME NEW m \in Nat, NEW kv \in Cache(m), NEW j, NEW plen \in Nat, NEW len \in Nat,
           NEW tokens, Holds(kv, m, j, plen, len, tokens),
           kv.n <= m, \A c \in 0 .. m - 1 : kv.cells[c].seq_id # {} => c < kv.n
    PROVE  SeesOnce(kv, j, plen, len, tokens)
<1>. DEFINE V == Visible(kv, j, len - 1)
            own(c) == c \in 0 .. m - 1 /\ j \in kv.cells[c].seq_id
<1>1. kv.n \in Int BY CacheFacts
<1>2. /\ \A c : own(c) => /\ kv.cells[c].pos \in 0 .. len - 1
                          /\ kv.cells[c].data = SubSeq(tokens, 1, kv.cells[c].pos - plen + 1)
      /\ \A c, d : own(c) /\ own(d) /\ kv.cells[c].pos = kv.cells[d].pos => c = d
      /\ \A p \in 0 .. len - 1 : \E c : own(c) /\ kv.cells[c].pos = p
  BY DEF Holds
<1>3. \A c : c \in V <=> own(c)
  <2>1. V = {c \in 0 .. kv.n - 1 : j \in kv.cells[c].seq_id /\ kv.cells[c].pos <= len - 1}
    BY DEF Visible
  <2>2. ASSUME NEW c, own(c) PROVE c \in 0 .. kv.n - 1 /\ kv.cells[c].pos <= len - 1
    <3>1. kv.cells[c].pos \in 0 .. len - 1 BY <1>2, <2>2
    <3>2. c \in 0 .. m - 1 /\ kv.cells[c].seq_id # {} BY <2>2
    <3>3. c < kv.n BY <3>2
    <3>. QED BY <1>1, <3>1, <3>2, <3>3
  <2>3. \A c \in 0 .. kv.n - 1 : c \in 0 .. m - 1 BY <1>1
  <2>. QED BY <2>1, <2>2, <2>3
<1>. HIDE DEF V, own
<1>. DEFINE f == [x \in 1 .. len |-> CHOOSE c : own(c) /\ kv.cells[c].pos = x - 1]
<1>4. ASSUME NEW x \in 1 .. len PROVE own(f[x]) /\ kv.cells[f[x]].pos = x - 1
  <2>1. x - 1 \in 0 .. len - 1 OBVIOUS
  <2>2. \E c : own(c) /\ kv.cells[c].pos = x - 1 BY <1>2, <2>1
  <2>. QED BY <2>2
<1>5. DOMAIN f = 1 .. len OBVIOUS
<1>6. \A x : f = [y \in DOMAIN f |-> f[y]] OBVIOUS
<1>. HIDE DEF f
<1>7. f \in [1 .. len -> V] BY <1>3, <1>4, <1>5, <1>6
<1>8. f \in Injection(1 .. len, V)
  <2>1. \A x, y \in 1 .. len : f[x] = f[y] => x = y
    <3>. SUFFICES ASSUME NEW x \in 1 .. len, NEW y \in 1 .. len, f[x] = f[y] PROVE x = y
      OBVIOUS
    <3>1. x - 1 = y - 1 BY <1>4
    <3>. QED BY <3>1
  <2>. QED BY <1>7, <2>1 DEF Injection, IsInjective
<1>9. f \in Surjection(1 .. len, V)
  <2>1. ASSUME NEW c \in V PROVE \E x \in 1 .. len : f[x] = c
    <3>1. own(c) /\ kv.cells[c].pos \in 0 .. len - 1 BY <1>2, <1>3
    <3>. DEFINE x == kv.cells[c].pos + 1
    <3>2. x \in 1 .. len /\ x - 1 = kv.cells[c].pos BY <3>1
    <3>. HIDE DEF x
    <3>3. own(f[x]) /\ kv.cells[f[x]].pos = x - 1 BY <1>4, <3>2
    <3>4. f[x] = c BY <1>2, <3>1, <3>2, <3>3
    <3>. QED BY <3>2, <3>4
  <2>. QED BY <1>7, <2>1 DEF Surjection
<1>10. Cardinality(V) = len
  <2>1. ExistsBijection(1 .. len, V) BY <1>8, <1>9, Zenon DEF ExistsBijection, Bijection
  <2>. QED BY <2>1, FS_CountingElements, Zenon
<1>11. ASSUME NEW p \in 0 .. len - 1
       PROVE  \E c \in V : /\ kv.cells[c].pos = p
                           /\ kv.cells[c].data = SubSeq(tokens, 1, p - plen + 1)
  <2>1. PICK c : own(c) /\ kv.cells[c].pos = p BY <1>2
  <2>. QED BY <1>2, <1>3, <2>1
<1>. QED BY <1>10, <1>11 DEF SeesOnce, V

\* A cache whose cells from used on are free, and whose cells are either free or hold a
\* position for some of these sequences.
Neat(kv, m, used, seqs) ==
    /\ kv.head \in 0 .. used /\ Tidy(kv, m)
    /\ \A c \in 0 .. m - 1 :
          /\ c >= used => kv.cells[c] = FreeCell
          /\ kv.cells[c].seq_id # {} => kv.cells[c].pos >= 0
          /\ kv.cells[c].seq_id \subseteq seqs

\* Attention looks at all of the cells in use.
AllSeen(kv, m) ==
    kv.n <= m /\ \A c \in 0 .. m - 1 : kv.cells[c].seq_id # {} => c < kv.n

\* Beam search leaves a cache neat.
LEMMA NeatTaken ==
    ASSUME NEW m \in Nat, NEW kv \in Cache(m), NEW used \in Nat, NEW seqs,
           NEW chosen, DOMAIN chosen \subseteq seqs, NEW ds, TakenOf(ds, kv, m, chosen),
           Neat(kv, m, used, seqs)
    PROVE  Neat(ds, m, used, seqs)
<1>1. ds.head \in 0 .. used
  <2>1. ds.head = 0 \/ ds.head = kv.head BY DEF TakenOf
  <2>2. kv.head \in 0 .. used BY DEF Neat
  <2>. QED BY <2>1, <2>2
<1>2. ASSUME NEW c \in 0 .. m - 1
      PROVE  /\ c >= used => ds.cells[c] = FreeCell
             /\ ds.cells[c].seq_id # {} => ds.cells[c].pos >= 0
             /\ ds.cells[c].seq_id \subseteq seqs
             /\ ds.cells[c].seq_id = {} => ds.cells[c] = FreeCell
  <2>. DEFINE old == kv.cells[c].seq_id
              new == ds.cells[c].seq_id
  <2>1. /\ \A q : q \in new <=> \/ q \in old /\ q \notin DOMAIN chosen
                                \/ q \in DOMAIN chosen /\ chosen[q].decoder_idx \in old
        /\ new = {} => ds.cells[c] = FreeCell
        /\ new # {} => ds.cells[c].pos = kv.cells[c].pos
    BY Zenon DEF TakenOf
  <2>2. /\ c >= used => kv.cells[c] = FreeCell
        /\ old # {} => kv.cells[c].pos >= 0
        /\ old \subseteq seqs
    BY Zenon DEF Neat
  <2>3. c >= used => old = {} BY <2>2, FreeCellFacts
  <2>. HIDE DEF old, new
  <2>4. new # {} => old # {} BY <2>1
  <2>5. new \subseteq seqs BY <2>1, <2>2
  <2>. QED BY <2>1, <2>2, <2>3, <2>4, <2>5 DEF new
<1>. QED BY <1>1, <1>2, Zenon DEF Neat, Tidy

\* A decoder that takes over a sequence has the cells of the hypothesis it continues.
LEMMA HoldsTaken ==
    ASSUME NEW m \in Nat, NEW kv, NEW ds, NEW chosen, TakenOf(ds, kv, m, chosen),
           NEW j \in DOMAIN chosen, NEW plen, NEW len, NEW tokens,
           Holds(kv, m, chosen[j].decoder_idx, plen, len, tokens)
    PROVE  Holds(ds, m, j, plen, len, tokens)
<1>. DEFINE k == chosen[j].decoder_idx
<1>1. \A c \in 0 .. m - 1 :
         /\ j \in ds.cells[c].seq_id <=> k \in kv.cells[c].seq_id
         /\ j \in ds.cells[c].seq_id => /\ ds.cells[c].pos = kv.cells[c].pos
                                        /\ ds.cells[c].data = kv.cells[c].data
  <2>. SUFFICES ASSUME NEW c \in 0 .. m - 1
                PROVE  /\ j \in ds.cells[c].seq_id <=> k \in kv.cells[c].seq_id
                       /\ j \in ds.cells[c].seq_id => /\ ds.cells[c].pos = kv.cells[c].pos
                                                      /\ ds.cells[c].data = kv.cells[c].data
    OBVIOUS
  <2>1. /\ \A q : q \in ds.cells[c].seq_id <=>
                     \/ q \in kv.cells[c].seq_id /\ q \notin DOMAIN chosen
                     \/ q \in DOMAIN chosen /\ chosen[q].decoder_idx \in kv.cells[c].seq_id
        /\ ds.cells[c].seq_id # {} => /\ ds.cells[c].pos = kv.cells[c].pos
                                      /\ ds.cells[c].data = kv.cells[c].data
    BY Zenon DEF TakenOf
  <2>. QED BY <2>1
<1>2. Holds(kv, m, k, plen, len, tokens) OBVIOUS
<1>. HIDE DEF k
<1>. QED BY <1>1, <1>2, Zenon DEF Holds

\* So does a batch, with next cells in use.
LEMMA NeatStored ==
    ASSUME NEW m \in Nat, NEW kv \in Cache(m), NEW used \in Nat, NEW seqs,
           Neat(kv, m, used, seqs), NEW ds, NEW batch, NEW s, StoredAt(ds, kv, m, batch, s),
           NEW n \in Nat, Len(batch) = n,
           \A k \in 1 .. n : batch[k].seq \in seqs /\ batch[k].pos \in Nat,
           s \in 0 .. used, NEW next \in Nat, used + n <= next
    PROVE  Neat(ds, m, next, seqs) /\ AllSeen(ds, m)
<1>1. /\ ds \in Cache(m) /\ s \in Nat /\ ds.n <= m /\ ds.head = s
      /\ \A c \in 0 .. m - 1 :
            /\ c \in s .. s + n - 1 =>
                  ds.cells[c] = [pos    |-> batch[c - s + 1].pos,
                                 seq_id |-> kv.cells[c].seq_id \cup {batch[c - s + 1].seq},
                                 data   |-> batch[c - s + 1].data]
            /\ c \notin s .. s + n - 1 => ds.cells[c] = kv.cells[c]
            /\ ds.cells[c].pos >= 0 /\ ds.cells[c].seq_id # {} => c < ds.n
  BY Zenon DEF StoredAt
<1>2. ASSUME NEW c \in 0 .. m - 1
      PROVE  /\ c >= next => ds.cells[c] = FreeCell
             /\ ds.cells[c].seq_id # {} => ds.cells[c].pos >= 0
             /\ ds.cells[c].seq_id \subseteq seqs
             /\ ds.cells[c].seq_id = {} => ds.cells[c] = FreeCell
  <2>1. /\ c >= used => kv.cells[c] = FreeCell
        /\ kv.cells[c].seq_id # {} => kv.cells[c].pos >= 0
        /\ kv.cells[c].seq_id \subseteq seqs
        /\ kv.cells[c].seq_id = {} => kv.cells[c] = FreeCell
    BY Zenon DEF Neat, Tidy
  <2>2. CASE c \in s .. s + n - 1
    <3>. DEFINE a == c - s + 1
    <3>1. a \in 1 .. n /\ ~(c >= next) BY <1>1, <2>2
    <3>2. ds.cells[c] = [pos    |-> batch[a].pos,
                         seq_id |-> kv.cells[c].seq_id \cup {batch[a].seq},
                         data   |-> batch[a].data]
      BY <1>1, <2>2, Zenon
    <3>. HIDE DEF a
    <3>3. batch[a].seq \in seqs /\ batch[a].pos >= 0 BY <3>1
    <3>. QED BY <2>1, <3>1, <3>2, <3>3
  <2>3. CASE c \notin s .. s + n - 1
    <3>1. ds.cells[c] = kv.cells[c] BY <1>1, <2>3
    <3>2. c >= next => c >= used OBVIOUS
    <3>. QED BY <2>1, <3>1, <3>2
  <2>. QED BY <2>2, <2>3
<1>3. s \in 0 .. next OBVIOUS
<1>. QED BY <1>1, <1>2, <1>3, Zenon DEF Neat, Tidy, AllSeen

\* The cells of the prompt, shared by n decoders.
LEMMA Prompted ==
    ASSUME NEW m \in Nat, NEW kv \in Cache(m), kv.head = 0,
           \A c \in 0 .. m - 1 : kv.cells[c] = FreeCell,
           NEW plen \in Nat \ {0}, plen <= m, NEW n \in Nat \ {0},
           NEW ds, ds = AllShared(KvStore(kv, PromptBatch(plen)), n - 1)
    PROVE  /\ Len(PromptBatch(plen)) = plen /\ Slots(kv, plen) # {}
           /\ ds \in Cache(m) /\ Neat(ds, m, plen, 0 .. n - 1) /\ AllSeen(ds, m)
           /\ \A j \in 0 .. n - 1 : Holds(ds, m, j, plen, plen, <<>>)
<1>. DEFINE batch == PromptBatch(plen)
            base == KvStore(kv, batch)
<1>0. FreeCell.pos < 0 /\ FreeCell.seq_id = {} BY FreeCellFacts
<1>1. /\ batch \in Batches(plen)
      /\ \A k \in 1 .. plen : /\ batch[k].pos = k - 1 /\ batch[k].seq = 0
                              /\ batch[k].data = <<>>
  <2>1. <<>> \in Seq(Tokens) BY EmptySeq
  <2>2. ASSUME NEW k \in 1 .. plen
        PROVE  [pos |-> k - 1, seq |-> 0, data |-> <<>>]
                  \in [pos : Nat, seq : Nat, data : Seq(Tokens)]
    <3>1. k - 1 \in Nat /\ 0 \in Nat OBVIOUS
    <3>. QED BY <2>1, <3>1, Zenon
  <2>. QED BY <2>2 DEF PromptBatch, Batches
<1>. HIDE DEF batch
<1>2. /\ Len(batch) = plen /\ Slots(kv, plen) # {} /\ Slot(kv, plen) \in 0 .. 0
      /\ StoredAt(base, kv, m, batch, Slot(kv, plen))
  <2>. DEFINE used == 0
  <2>1. kv.head \in 0 .. used /\ used + plen <= m /\ used \in Nat OBVIOUS
  <2>2. \A c \in 0 .. m - 1 : c >= used => kv.cells[c].pos < 0 BY <1>0
  <2>3. batch \in Batches(plen) BY <1>1
  <2>. HIDE DEF used
  <2>4. /\ Len(batch) = plen /\ Slots(kv, plen) # {} /\ Slot(kv, plen) \in 0 .. used
        /\ StoredAt(KvStore(kv, batch), kv, m, batch, Slot(kv, plen))
    BY <2>1, <2>2, <2>3, Store, Zenon
  <2>. QED BY <2>4 DEF used
<1>3. StoredAt(base, kv, m, batch, 0) /\ base \in Cache(m)
  <2>1. Slot(kv, plen) = 0 BY <1>2
  <2>. QED BY <1>2, <2>1 DEF StoredAt
<1>. HIDE DEF base
<1>4. Neat(kv, m, 0, {0})
  <2>1. kv.head \in 0 .. 0 OBVIOUS
  <2>. QED BY <1>0, <2>1 DEF Neat, Tidy
<1>5. Neat(base, m, plen, {0}) /\ AllSeen(base, m)
  <2>1. \A k \in 1 .. plen : batch[k].seq \in {0} /\ batch[k].pos \in Nat BY <1>1
  <2>2. 0 \in Nat /\ 0 \in 0 .. 0 /\ 0 + plen <= plen /\ plen \in Nat OBVIOUS
  <2>. QED BY <1>2, <1>3, <1>4, <2>1, <2>2, NeatStored
<1>6. n - 1 \in Nat OBVIOUS
<1>7. PICK src, dst \in [1 .. n - 1 -> Nat] :
         /\ \A k \in 1 .. n - 1 : src[k] = 0 /\ dst[k] = k
         /\ CopiesOf(AllShared(base, n - 1), base, m, n - 1, src, dst)
  BY <1>3, <1>6, Shared
<1>7a. CopiesOf(ds, base, m, n - 1, src, dst)
  <2>1. ds = AllShared(base, n - 1) BY DEF base, batch
  <2>. QED BY <1>7, <2>1
<1>7b. \A k \in 1 .. n - 1 : src[k] = 0 /\ dst[k] = k BY <1>7
<1>8. /\ ds \in Cache(m) /\ ds.n = base.n /\ ds.head \in {0, base.head}
      /\ \A c \in 0 .. m - 1 : ds.cells[c] \in Cell /\ base.cells[c] \in Cell
  BY <1>3, <1>7a, CacheFacts DEF CopiesOf
<1>9. ASSUME NEW c \in 0 .. m - 1
      PROVE  /\ c < plen => /\ ds.cells[c].pos = c /\ ds.cells[c].data = <<>>
                            /\ ds.cells[c].seq_id = 0 .. n - 1
             /\ c >= plen => ds.cells[c] = FreeCell
  <2>1. /\ ds.cells[c].pos = base.cells[c].pos /\ ds.cells[c].data = base.cells[c].data
        /\ \A q : q \in ds.cells[c].seq_id <=>
                    \/ q \in base.cells[c].seq_id
                    \/ \E x \in 1 .. n - 1 : src[x] \in base.cells[c].seq_id /\ q = dst[x]
    BY <1>7a, Zenon DEF CopiesOf
  <2>2. CASE c < plen
    <3>1. c \in 0 .. 0 + plen - 1 /\ c - 0 + 1 \in 1 .. plen /\ (c - 0 + 1) - 1 = c BY <2>2
    <3>. DEFINE a == c - 0 + 1
    <3>2. base.cells[c] = [pos    |-> batch[a].pos,
                           seq_id |-> kv.cells[c].seq_id \cup {batch[a].seq},
                           data   |-> batch[a].data]
      BY <1>2, <1>3, <3>1, Zenon DEF StoredAt
    <3>3. a \in 1 .. plen /\ a - 1 = c BY <3>1
    <3>. HIDE DEF a
    <3>4. batch[a].pos = c /\ batch[a].seq = 0 /\ batch[a].data = <<>> BY <1>1, <3>3
    <3>5. base.cells[c].seq_id = {0} BY <1>0, <3>2, <3>4
    <3>6. \A q : q \in ds.cells[c].seq_id <=> q \in 0 .. n - 1
      <4>. SUFFICES ASSUME NEW q PROVE q \in ds.cells[c].seq_id <=> q \in 0 .. n - 1
        OBVIOUS
      <4>. DEFINE dq == q \in ds.cells[c].seq_id
                  bq == q \in base.cells[c].seq_id
                  copied == \E x \in 1 .. n - 1 : /\ src[x] \in base.cells[c].seq_id
                                                  /\ q = dst[x]
      <4>1. dq <=> bq \/ copied BY <2>1, Zenon
      <4>2. bq <=> q = 0 BY <3>5
      <4>3. copied <=> q \in 1 .. n - 1
        <5>1. \A x \in 1 .. n - 1 : src[x] \in base.cells[c].seq_id /\ dst[x] = x
          BY <1>7b, <3>5
        <5>. QED BY <5>1, Zenon
      <4>. HIDE DEF dq, bq, copied
      <4>4. dq <=> q = 0 \/ q \in 1 .. n - 1 BY <4>1, <4>2, <4>3, Zenon
      <4>5. q \in 0 .. n - 1 <=> q = 0 \/ q \in 1 .. n - 1 OBVIOUS
      <4>. QED BY <4>4, <4>5, Zenon DEF dq
    <3>8. ds.cells[c].seq_id = 0 .. n - 1 BY <3>6
    <3>7. base.cells[c].pos = c /\ base.cells[c].data = <<>> BY <3>2, <3>4
    <3>. QED BY <2>1, <2>2, <3>7, <3>8
  <2>3. CASE c >= plen
    <3>1. base.cells[c] = FreeCell BY <1>5, <2>3, Zenon DEF Neat
    <3>2. ds.cells[c].seq_id = base.cells[c].seq_id BY <1>0, <2>1, <3>1
    <3>. DEFINE d == ds.cells[c]
                b == base.cells[c]
    <3>3. d \in Cell /\ b \in Cell /\ d.pos = b.pos /\ d.data = b.data /\ d.seq_id = b.seq_id
      BY <1>8, <2>1, <3>2
    <3>. HIDE DEF d, b
    <3>4. d = b BY <3>3, SameCell
    <3>. QED BY <2>3, <3>1, <3>4 DEF d, b
  <2>. QED BY <2>2, <2>3
<1>10. Neat(ds, m, plen, 0 .. n - 1)
  <2>1. ds.head \in 0 .. plen
    <3>1. base.head \in 0 .. plen BY <1>5 DEF Neat
    <3>. QED BY <1>8, <3>1
  <2>2. 0 \in 0 .. n - 1 OBVIOUS
  <2>3. \A c \in 0 .. m - 1 :
           /\ c >= plen => ds.cells[c] = FreeCell
           /\ ds.cells[c].seq_id # {} => ds.cells[c].pos >= 0
           /\ ds.cells[c].seq_id \subseteq 0 .. n - 1
           /\ ds.cells[c].seq_id = {} => ds.cells[c] = FreeCell
    <3>. SUFFICES ASSUME NEW c \in 0 .. m - 1
                  PROVE  /\ c >= plen => ds.cells[c] = FreeCell
                         /\ ds.cells[c].seq_id # {} => ds.cells[c].pos >= 0
                         /\ ds.cells[c].seq_id \subseteq 0 .. n - 1
                         /\ ds.cells[c].seq_id = {} => ds.cells[c] = FreeCell
      OBVIOUS
    <3>1. CASE c < plen
      <4>1. ds.cells[c].pos = c /\ ds.cells[c].seq_id = 0 .. n - 1 BY <1>9, <3>1
      <4>2. c >= 0 /\ ~(c >= plen) BY <3>1
      <4>. QED BY <2>2, <4>1, <4>2
    <3>2. CASE c >= plen BY <1>0, <1>9, <3>2
    <3>. QED BY <3>1, <3>2
  <2>. QED BY <2>1, <2>3, Zenon DEF Neat, Tidy
<1>11. AllSeen(ds, m)
  <2>1. ASSUME NEW c \in 0 .. m - 1, ds.cells[c].seq_id # {} PROVE c < ds.n
    <3>1. base.cells[c].seq_id # {} BY <1>7a, <2>1 DEF CopiesOf
    <3>. QED BY <1>5, <1>8, <3>1 DEF AllSeen
  <2>. QED BY <1>5, <1>8, <2>1 DEF AllSeen
<1>12. ASSUME NEW j \in 0 .. n - 1 PROVE Holds(ds, m, j, plen, plen, <<>>)
  <2>1. \A c \in 0 .. m - 1 : j \in ds.cells[c].seq_id <=> c < plen
    <3>. SUFFICES ASSUME NEW c \in 0 .. m - 1
                  PROVE  j \in ds.cells[c].seq_id <=> c < plen
      OBVIOUS
    <3>1. CASE c < plen BY <1>9, <3>1
    <3>2. CASE c >= plen BY <1>0, <1>9, <3>2
    <3>. QED BY <3>1, <3>2
  <2>2. ASSUME NEW c \in 0 .. m - 1, c < plen
        PROVE  SubSeq(<<>>, 1, c - plen + 1) = <<>>
    <3>1. 1 \in Int /\ c - plen + 1 \in Int /\ c - plen + 1 < 1 BY <2>2
    <3>. DEFINE q == c - plen + 1
    <3>. HIDE DEF q
    <3>2. 1 \in Int /\ q \in Int /\ q < 1 BY <3>1 DEF q
    <3>3. SubSeq(<<>>, 1, q) = <<>> BY <3>2, SubSeqEmpty, Zenon
    <3>. QED BY <3>3 DEF q
  <2>3. ASSUME NEW c \in 0 .. m - 1, j \in ds.cells[c].seq_id
        PROVE  /\ ds.cells[c].pos = c /\ ds.cells[c].pos \in 0 .. plen - 1
               /\ ds.cells[c].data = SubSeq(<<>>, 1, ds.cells[c].pos - plen + 1)
    <3>1. c < plen BY <2>1, <2>3
    <3>2. ds.cells[c].pos = c /\ ds.cells[c].data = <<>> BY <1>9, <3>1
    <3>3. SubSeq(<<>>, 1, c - plen + 1) = <<>> BY <2>2, <3>1
    <3>4. ds.cells[c].pos \in 0 .. plen - 1 BY <3>1, <3>2
    <3>. QED BY <3>2, <3>3, <3>4
  <2>4. \A p \in 0 .. plen - 1 : /\ p \in 0 .. m - 1 /\ p < plen
    OBVIOUS
  <2>5. ASSUME NEW p \in 0 .. plen - 1
        PROVE  \E c \in 0 .. m - 1 : j \in ds.cells[c].seq_id /\ ds.cells[c].pos = p
    <3>1. p \in 0 .. m - 1 /\ j \in ds.cells[p].seq_id BY <2>1, <2>4
    <3>2. ds.cells[p].pos = p BY <2>3, <3>1
    <3>. QED BY <3>1, <3>2
  <2>7. \A c \in 0 .. m - 1 : j \in ds.cells[c].seq_id =>
           /\ ds.cells[c].pos \in 0 .. plen - 1
           /\ ds.cells[c].data = SubSeq(<<>>, 1, ds.cells[c].pos - plen + 1)
    BY <2>3, Zenon
  <2>8. \A p \in 0 .. plen - 1 :
           \E c \in 0 .. m - 1 : j \in ds.cells[c].seq_id /\ ds.cells[c].pos = p
    BY <2>5, Zenon
  <2>9. \A c, d \in 0 .. m - 1 :
           j \in ds.cells[c].seq_id /\ j \in ds.cells[d].seq_id
             /\ ds.cells[c].pos = ds.cells[d].pos => c = d
    <3>. SUFFICES ASSUME NEW c \in 0 .. m - 1, NEW d \in 0 .. m - 1,
                         j \in ds.cells[c].seq_id, j \in ds.cells[d].seq_id,
                         ds.cells[c].pos = ds.cells[d].pos
                  PROVE  c = d
      OBVIOUS
    <3>1. ds.cells[c].pos = c BY <2>3, Zenon
    <3>2. ds.cells[d].pos = d BY <2>3, Zenon
    <3>. QED BY <3>1, <3>2
  <2>. QED BY <2>7, <2>8, <2>9, Zenon DEF Holds
<1>. QED BY <1>2, <1>8, <1>10, <1>11, <1>12, Zenon DEF batch

-----------------------------------------------------------------------------
\* The invariant of the cache.  Without the free cells above Used no batch would be sure of
\* its place: the search may start anywhere below, and beam search scatters what is left.

\* The size of a cache for d decoders.
SizeFor(d) == Pad(TextCtx, CachePad) * (IF d > 1 THEN d + 2 ELSE 1)

\* The size of the cache, and from which cell on it is free.
CacheSize == SizeFor(kv_self_n_dec)
Used == prompt.len + n_decoders(it) * i

\* The cache is large enough for the decoders in use.
SizeInv ==
    /\ kv_self_n_dec \in Nat \ {0} /\ kv_self \in Cache(CacheSize)
    /\ pc \in {"sample", "update"} => n_decoders(it) <= kv_self_n_dec

\* Cells in use are below Used and belong to decoders in use.
CellInv ==
    /\ pc \in {"sample", "update"} =>
          prompt.len \in Nat \ {0} /\ Neat(kv_self, CacheSize, Used, Current)
    /\ pc = "sample" => AllSeen(kv_self, CacheSize)

\* A live decoder's cells hold its prompt and tokens, every position once.
ContextInv ==
    pc \in {"sample", "update"} =>
        \A j \in LiveOnes(decoders) :
            Holds(kv_self, CacheSize, j, prompt.len, prompt.len + i, decoders[j].tokens)

KvInv == SizeInv /\ CellInv /\ ContextInv /\ SlotsFound
-----------------------------------------------------------------------------
LEMMA TimesGrows ==
    ASSUME NEW a \in Nat, NEW b \in Nat, NEW c \in Nat, a <= b
    PROVE  a * c \in Nat /\ b * c \in Nat /\ a * c <= b * c
<1>. DEFINE e == b - a
<1>1. e \in Nat /\ b = a + e OBVIOUS
<1>. HIDE DEF e
<1>2. e * c \in Nat /\ a * c \in Nat BY <1>1
<1>3. b * c = a * c + e * c BY <1>1
<1>. DEFINE x == e * c
            y == a * c
            z == b * c
<1>4. x \in Nat /\ y \in Nat /\ z = y + x BY <1>2, <1>3
<1>. HIDE DEF x, y, z
<1>5. y \in Nat /\ z \in Nat /\ y <= z BY <1>4
<1>. QED BY <1>5 DEF y, z

\* However many tokens the decoders in use have, the cache has room for the next ones.
LEMMA Room ==
    ASSUME NEW d \in Nat \ {0}, NEW n \in Nat \ {0}, n <= d,
           NEW plen \in Nat, plen <= 4 + TextCtx \div 2, NEW k \in Nat, k < n_max
    PROVE  /\ SizeFor(d) \in Nat /\ plen <= SizeFor(d)
           /\ n * k \in Nat /\ (plen + n * k) + n <= SizeFor(d)
<1>. DEFINE P == Pad(TextCtx, CachePad)
            h == TextCtx \div 2
            nk == n * k
<1>1. P \in Nat /\ TextCtx <= P BY PadFacts, DecodingAssumption
<1>2. h \in Nat /\ TextCtx = h + h /\ h >= 5 /\ n_max = h - 4
  BY DecodingAssumption DEF n_max
<1>3. nk \in Nat /\ n * (k + 1) = nk + n OBVIOUS
<1>. HIDE DEF P, h
<1>4. plen <= 4 + h BY DEF h
<1>5. CASE d = 1
  <2>1. SizeFor(d) = P * 1 BY <1>5 DEF SizeFor, P
  <2>2. P * 1 = P /\ n = 1 /\ nk = k BY <1>1, <1>5
  <2>. HIDE DEF nk
  <2>3. SizeFor(d) = P BY <2>1, <2>2
  <2>4. plen + k + 1 <= P /\ plen <= P BY <1>1, <1>2, <1>4
  <2>5. SizeFor(d) \in Nat /\ plen <= SizeFor(d) /\ nk \in Nat /\ (plen + nk) + n <= SizeFor(d)
    BY <1>1, <1>3, <2>2, <2>3, <2>4
  <2>. QED BY <2>5 DEF nk
<1>6. CASE d > 1
  <2>. DEFINE dk == d * (k + 1)
              kd == (k + 1) * d
              Pd == P * d
              nk1 == n * (k + 1)
  <2>1. SizeFor(d) = P * (d + 2) BY <1>6 DEF SizeFor, P
  <2>2. P * (d + 2) = Pd + P + P BY <1>1
  <2>3. nk1 <= dk /\ nk1 \in Nat /\ dk \in Nat
    <3>1. k + 1 \in Nat OBVIOUS
    <3>. QED BY <3>1, TimesGrows, Zenon
  <2>4. kd <= Pd /\ Pd \in Nat /\ kd \in Nat
    <3>1. k + 1 \in Nat /\ k + 1 <= P /\ d \in Nat BY <1>1, <1>2
    <3>. QED BY <1>1, <3>1, TimesGrows, Zenon
  <2>5. kd = dk /\ nk1 = nk + n BY <1>3
  <2>. HIDE DEF dk, kd, Pd, nk1, nk
  <2>6. SizeFor(d) = Pd + P + P BY <2>1, <2>2
  <2>. HIDE DEF SizeFor
  <2>7. SizeFor(d) \in Nat /\ plen <= SizeFor(d) /\ nk \in Nat /\ (plen + nk) + n <= SizeFor(d)
    BY <1>1, <1>2, <1>3, <1>4, <2>3, <2>4, <2>5, <2>6
  <2>. QED BY <2>7 DEF nk
<1>. QED BY <1>5, <1>6

\* At least one decoder is used.
LEMMA DecodersInUse ==
    ASSUME TypeInv
    PROVE  n_decoders(it) \in Nat \ {0} /\ Current = 0 .. n_decoders(it) - 1
<1>. DEFINE w == IF params.temperatures[it] > 0 THEN params.best_of
                 ELSE IF params.strategy = "beam" THEN params.beam_size ELSE 1
<1>1. w \in Int BY RequestType
<1>2. n_decoders(it) = Max({1, w}) BY DEF n_decoders
<1>. HIDE DEF w
<1>3. 1 \in Int OBVIOUS
<1>4. Max({1, w}) \in {1, w} /\ 1 <= Max({1, w}) BY <1>1, <1>3, MaxOfTwo, Zenon
<1>5. n_decoders(it) \in Nat \ {0} BY <1>1, <1>2, <1>4
<1>. QED BY <1>5 DEF Current

\* A prompt is never empty.
LEMMA PromptLength == ASSUME TypeInv PROVE Prompt.len \in Nat \ {0}
<1>. DEFINE take0 == IF params.carry THEN past0 ELSE 0
            history == /\ params.temperatures[it] < HistoryCutoff
                       /\ max_prompt_ctx > 0
                       /\ take0 > 0 \/ past1 > 0
            room == max_prompt_ctx - take0 - 1
            take1 == Min({room, past1})
<1>1. past0 \in Nat /\ past1 \in Nat /\ past0 <= params.past0 BY DEF TypeInv
<1>2. /\ params.n_init \in 1 .. 4 /\ params.n_max_text_ctx \in Nat /\ params.past0 \in Nat
      /\ TextCtx \div 2 \in Nat
  BY RequestType, DecodingAssumption
<1>3. params.past0 # 0 => params.past0 < max_prompt_ctx
  BY DecodingAssumption DEF TypeInv, max_prompt_ctx
<1>4. max_prompt_ctx \in Int
  <2>1. params.n_max_text_ctx \in Int /\ TextCtx \div 2 \in Int BY <1>2
  <2>2. max_prompt_ctx \in {params.n_max_text_ctx, TextCtx \div 2}
    BY <2>1, MinOfTwo, Zenon DEF max_prompt_ctx
  <2>. QED BY <2>1, <2>2
<1>5. take0 \in Nat /\ take0 <= past0 BY <1>1
<1>6. Prompt.len = params.n_init + IF history THEN 1 + take0 + take1 ELSE 0
  BY DEF Prompt
<1>7. history => take1 \in Nat
  <2>. HIDE DEF take0
  <2>1. room \in Int BY <1>4, <1>5
  <2>2. max_prompt_ctx > 0 => room >= 0 BY <1>1, <1>2, <1>3, <1>4, <1>5
  <2>. HIDE DEF room
  <2>3. past1 \in Int BY <1>1
  <2>4. take1 \in {room, past1} BY <2>1, <2>3, MinOfTwo, Zenon
  <2>. QED BY <1>1, <2>1, <2>2, <2>4
<1>. HIDE DEF take0, take1, history
<1>. QED BY <1>2, <1>5, <1>6, <1>7

\* Caches that are cleared and new.
LEMMA ClearedFacts ==
    ASSUME NEW m \in Nat, NEW kv \in Cache(m)
    PROVE  /\ KvClear(kv) \in Cache(m) /\ KvClear(kv).head = 0
           /\ \A c \in 0 .. m - 1 : KvClear(kv).cells[c] = FreeCell
<1>. DEFINE V == [0 .. m - 1 -> Cell]
            cs == [c \in 0 .. m - 1 |-> FreeCell]
            ds == [kv EXCEPT !.head = 0, !.cells = cs]
<1>1. DOMAIN kv.cells = 0 .. m - 1 BY CacheFacts
<1>2. KvClear(kv) = ds BY <1>1, Zenon DEF KvClear
<1>3. cs \in V /\ \A c \in 0 .. m - 1 : cs[c] = FreeCell BY FreeCellFacts
<1>4. 0 \in Int OBVIOUS
<1>. HIDE DEF cs
<1>5. ds \in Cache(m) /\ ds.head = 0 /\ ds.cells = cs
  BY <1>3, <1>4, WithCells, Zenon DEF Cache
<1>. HIDE DEF ds
<1>. QED BY <1>2, <1>3, <1>5

LEMMA FreshFacts == ASSUME NEW m \in Nat PROVE KvInit(m) \in Cache(m)
<1>1. [c \in 0 .. m - 1 |-> FreeCell] \in [0 .. m - 1 -> Cell] BY FreeCellFacts
<1>. QED BY <1>1 DEF KvInit, Cache

LEMMA CacheSizeType == ASSUME KvInv PROVE CacheSize \in Nat
<1>1. kv_self_n_dec \in Nat \ {0} BY DEF KvInv, SizeInv
<1>2. 0 \in Nat /\ 0 < n_max /\ kv_self_n_dec <= kv_self_n_dec /\ 0 <= 4 + TextCtx \div 2
  BY <1>1, RoomForTokens, DecodingAssumption
<1>. QED BY <1>1, <1>2, Room DEF CacheSize

\* The cells in use and those that the next tokens need fit into the cache.
LEMMA RoomNow ==
    ASSUME IInv, KvInv, pc \in {"sample", "update"}
    PROVE  Used \in Nat /\ Used + n_decoders(it) <= CacheSize
<1>1. n_decoders(it) \in Nat \ {0} BY DecodersInUse DEF IInv
<1>2. /\ kv_self_n_dec \in Nat \ {0} /\ n_decoders(it) <= kv_self_n_dec
      /\ prompt.len \in Nat /\ prompt.len <= 4 + TextCtx \div 2 /\ i \in Nat /\ i < n_max
  BY DEF KvInv, SizeInv, CellInv, IInv, LengthInv, TypeInv
<1>. DEFINE n == n_decoders(it)
            nk == n * i
<1>3. nk \in Nat /\ (prompt.len + nk) + n <= SizeFor(kv_self_n_dec)
  BY <1>1, <1>2, Room
<1>4. Used = prompt.len + nk BY DEF Used
<1>. HIDE DEF nk
<1>5. Used \in Nat BY <1>2, <1>3, <1>4
<1>. QED BY <1>3, <1>4, <1>5 DEF CacheSize

LEMMA KvInitStep == Init => KvInv
<1>. SUFFICES ASSUME Init PROVE KvInv OBVIOUS
<1>1. pc = "window" /\ kv_self_n_dec = 1 /\ kv_self = KvInit(Pad(TextCtx, CachePad))
  BY DEF Init
<1>2. Pad(TextCtx, CachePad) \in Nat BY PadFacts, DecodingAssumption
<1>3. CacheSize = Pad(TextCtx, CachePad)
  <2>. DEFINE P == Pad(TextCtx, CachePad)
  <2>1. CacheSize = P * 1 BY <1>1 DEF CacheSize, SizeFor
  <2>2. P \in Nat BY <1>2
  <2>. HIDE DEF P
  <2>3. CacheSize = P BY <2>1, <2>2
  <2>. QED BY <2>3 DEF P
<1>4. kv_self \in Cache(CacheSize) BY <1>1, <1>2, <1>3, FreshFacts
<1>. QED BY <1>1, <1>4 DEF KvInv, SizeInv, CellInv, ContextInv, SlotsFound

\* Where the cache is left alone and no tokens are decoded.
LEMMA KvSame ==
    ASSUME KvInv, UNCHANGED <<kv_self, kv_self_n_dec>>,
           pc' \notin {"sample", "update", "no slot"}
    PROVE  KvInv'
BY DEF KvInv, SizeInv, CellInv, ContextInv, SlotsFound, CacheSize, SizeFor

\* A decoder's tokens are those of a live decoder and one more.
LEMMA KvGreedy == IInv /\ KvInv /\ SampleGreedy => KvInv'
<1>. SUFFICES ASSUME IInv, KvInv, SampleGreedy PROVE KvInv' OBVIOUS
<1>1. /\ params' = params /\ it' = it /\ i' = i /\ prompt' = prompt /\ kv_self' = kv_self
      /\ kv_self_n_dec' = kv_self_n_dec /\ pc = "sample" /\ pc' = "update"
  BY DEF SampleGreedy
<1>2. PICK token \in [LiveOnes(decoders) -> Tokens] :
         decoders' = [j \in DOMAIN decoders |->
                         IF j \in DOMAIN token
                         THEN [decoders[j] EXCEPT !.tokens = Append(@, token[j])]
                         ELSE decoders[j]]
  BY DEF SampleGreedy
<1>3. /\ CacheSize' = CacheSize /\ Used' = Used /\ Current' = Current
      /\ n_decoders(it)' = n_decoders(it)
  BY <1>1 DEF CacheSize, SizeFor, Used, Current, n_decoders
<1>4. SizeInv' /\ CellInv' /\ SlotsFound'
  <2>1. SizeInv' BY <1>1, <1>3 DEF KvInv, SizeInv
  <2>2. CellInv' BY <1>1, <1>3 DEF KvInv, CellInv
  <2>. QED BY <1>1, <2>1, <2>2 DEF SlotsFound
<1>5. /\ Current \subseteq Index /\ decoders \in [Index -> Decoder]
      /\ LiveOnes(decoders) \subseteq Current
  BY CurrentExist DEF IInv, TypeInv, LiveOnes
<1>6. LiveOnes(decoders)' \subseteq LiveOnes(decoders)
  <2>1. \A j \in Current \ LiveOnes(decoders) : decoders'[j] = decoders[j] BY <1>2, <1>5
  <2>. QED BY <1>3, <2>1 DEF LiveOnes
<1>7. ASSUME NEW j \in LiveOnes(decoders)
      PROVE  Holds(kv_self, CacheSize, j, prompt.len, prompt.len + i, decoders'[j].tokens)
  <2>. DEFINE s == decoders[j].tokens
  <2>1. /\ decoders[j] \in Decoder /\ s \in Seq(Tokens) /\ Len(s) = i /\ token[j] \in Tokens
    BY <1>1, <1>5 DEF Decoder, IInv, TokenInv
  <2>2. decoders'[j].tokens = Append(s, token[j]) BY <1>2, <1>5, <2>1 DEF Decoder
  <2>3. CacheSize \in Nat /\ kv_self \in Cache(CacheSize) /\ prompt.len \in Nat
    BY <1>1, CacheSizeType DEF KvInv, SizeInv, CellInv
  <2>4. Holds(kv_self, CacheSize, j, prompt.len, prompt.len + i, s)
    BY <1>1 DEF KvInv, ContextInv
  <2>. HIDE DEF s
  <2>5. Holds(kv_self, CacheSize, j, prompt.len, prompt.len + Len(s), s) BY <2>1, <2>4
  <2>6. Holds(kv_self, CacheSize, j, prompt.len, prompt.len + Len(s), Append(s, token[j]))
    BY <2>1, <2>3, <2>5, HoldsOneMore
  <2>. QED BY <2>1, <2>2, <2>6
<1>8. ContextInv' BY <1>1, <1>3, <1>6, <1>7 DEF ContextInv
<1>. QED BY <1>4, <1>8 DEF KvInv

\* A decoder's cells and tokens become those of the live decoder that it continues.
LEMMA KvBeam == IInv /\ KvInv /\ SampleBeam => KvInv'
<1>. SUFFICES ASSUME IInv, KvInv, SampleBeam PROVE KvInv' OBVIOUS
<1>1. /\ params' = params /\ it' = it /\ i' = i /\ prompt' = prompt
      /\ kv_self_n_dec' = kv_self_n_dec /\ pc = "sample" /\ pc' = "update"
  BY DEF SampleBeam
<1>2. PICK chosen \in [LiveOnes(decoders) -> Candidate] :
         /\ decoders' = [j \in DOMAIN decoders |->
                            IF j \in DOMAIN chosen
                            THEN [decoders[chosen[j].decoder_idx] EXCEPT
                                     !.tokens = Hypothesis(chosen[j])]
                            ELSE decoders[j]]
         /\ kv_self' = TakeOver(kv_self, chosen)
  BY DEF SampleBeam
<1>3. /\ CacheSize' = CacheSize /\ Used' = Used /\ Current' = Current
      /\ n_decoders(it)' = n_decoders(it)
  BY <1>1 DEF CacheSize, SizeFor, Used, Current, n_decoders
<1>4. /\ Current \subseteq Index /\ decoders \in [Index -> Decoder]
      /\ LiveOnes(decoders) \subseteq Current /\ i \in Nat
  BY CurrentExist DEF IInv, TypeInv, LiveOnes
<1>5. /\ CacheSize \in Nat /\ kv_self \in Cache(CacheSize) /\ prompt.len \in Nat \ {0}
      /\ Neat(kv_self, CacheSize, Used, Current)
  BY <1>1, CacheSizeType DEF KvInv, SizeInv, CellInv
<1>6. \A j \in LiveOnes(decoders) :
         /\ chosen[j].decoder_idx \in LiveOnes(decoders) /\ chosen[j].token \in Tokens
  BY DEF Candidate
<1>7. TakenOf(kv_self', kv_self, CacheSize, chosen)
  <2>1. Tidy(kv_self, CacheSize) BY <1>5 DEF Neat
  <2>2. \A c \in 0 .. CacheSize - 1 : kv_self.cells[c].seq_id \subseteq Index
    BY <1>4, <1>5 DEF Neat
  <2>3. /\ DOMAIN chosen \in SUBSET Index
        /\ \A j \in DOMAIN chosen : chosen[j].decoder_idx \in Index
    BY <1>4, <1>6
  <2>4. TakenOf(TakeOver(kv_self, chosen), kv_self, CacheSize, chosen)
    BY <1>5, <2>1, <2>2, <2>3, TakenOver
  <2>. QED BY <1>2, <2>4
<1>8. Used \in Nat
  BY <1>1, <1>4, <1>5, RoomNow DEF IInv
<1>9. /\ kv_self' \in Cache(CacheSize)
      /\ Neat(kv_self', CacheSize, Used, Current)
  <2>1. DOMAIN chosen \subseteq Current BY <1>4
  <2>2. Neat(kv_self', CacheSize, Used, Current)
    BY <1>5, <1>7, <1>8, <2>1, NeatTaken
  <2>. QED BY <1>7, <2>2 DEF TakenOf
<1>10. SizeInv' /\ CellInv' /\ SlotsFound'
  <2>1. SizeInv' BY <1>1, <1>3, <1>9 DEF KvInv, SizeInv
  <2>2. CellInv' BY <1>1, <1>3, <1>5, <1>9 DEF CellInv
  <2>. QED BY <1>1, <2>1, <2>2 DEF SlotsFound
<1>11. LiveOnes(decoders)' \subseteq LiveOnes(decoders)
  <2>1. \A j \in Current \ LiveOnes(decoders) : decoders'[j] = decoders[j] BY <1>2, <1>4
  <2>. QED BY <1>3, <2>1 DEF LiveOnes
<1>12. ASSUME NEW j \in LiveOnes(decoders)
       PROVE  Holds(kv_self', CacheSize, j, prompt.len, prompt.len + i, decoders'[j].tokens)
  <2>. DEFINE k == chosen[j].decoder_idx
              t == chosen[j].token
              s == decoders[k].tokens
  <2>1. k \in LiveOnes(decoders) /\ t \in Tokens BY <1>6
  <2>2. decoders[k] \in Decoder /\ s \in Seq(Tokens) /\ Len(s) = i
    BY <1>1, <1>4, <2>1 DEF Decoder, IInv, TokenInv
  <2>3. decoders'[j].tokens = Append(s, t) BY <1>2, <1>4, <2>2 DEF Decoder, Hypothesis
  <2>4. Holds(kv_self, CacheSize, k, prompt.len, prompt.len + i, s)
    BY <1>1, <2>1 DEF KvInv, ContextInv
  <2>. HIDE DEF s, t
  <2>5. Holds(kv_self, CacheSize, chosen[j].decoder_idx, prompt.len, prompt.len + i, s)
    BY <2>4
  <2>. HIDE DEF k
  <2>6. Holds(kv_self', CacheSize, j, prompt.len, prompt.len + i, s)
    BY <1>5, <1>7, <2>5, HoldsTaken
  <2>7. Holds(kv_self', CacheSize, j, prompt.len, prompt.len + Len(s), s) BY <2>2, <2>6
  <2>8. Holds(kv_self', CacheSize, j, prompt.len, prompt.len + Len(s), Append(s, t))
    BY <1>5, <1>9, <2>1, <2>2, <2>7, HoldsOneMore
  <2>. QED BY <2>2, <2>3, <2>8
<1>13. ContextInv' BY <1>1, <1>3, <1>11, <1>12 DEF ContextInv
<1>. QED BY <1>10, <1>13 DEF KvInv

\* Every decoder of a temperature starts with the cells of the prompt.
LEMMA KvBegin == IInv /\ KvInv /\ BeginDecoding => KvInv'
<1>. SUFFICES ASSUME IInv, KvInv, BeginDecoding PROVE KvInv' OBVIOUS
<1>. DEFINE n == n_decoders(it)
            D == kv_self_n_dec
            m == SizeFor(kv_self_n_dec')
            cache == KvClear(CacheFor(n))
            batch == PromptBatch(Prompt.len)
<1>1. /\ params' = params /\ it' = it /\ i' = 0 /\ prompt' = Prompt
      /\ kv_self_n_dec' = Max({D, n})
      /\ decoders' = [j \in DOMAIN decoders |-> IF j \in Current THEN NewDecoder
                                                ELSE decoders[j]]
  BY DEF BeginDecoding
<1>2. /\ n \in Nat \ {0} /\ Current = 0 .. n - 1 /\ D \in Nat \ {0}
      /\ kv_self \in Cache(SizeFor(D)) /\ Prompt.len \in Nat \ {0}
      /\ Prompt.len <= 4 + TextCtx \div 2
  BY DecodersInUse, PromptLength, PromptFits DEF IInv, KvInv, SizeInv, CacheSize
<1>3. /\ Current' = Current /\ n_decoders(it)' = n
  BY <1>1 DEF Current, n_decoders
<1>. HIDE DEF n, D
<1>4. kv_self_n_dec' \in {D, n} /\ D <= kv_self_n_dec' /\ n <= kv_self_n_dec'
  <2>1. D \in Int /\ n \in Int BY <1>2
  <2>. QED BY <1>1, <2>1, MaxOfTwo, Zenon
<1>5. kv_self_n_dec' \in Nat \ {0} BY <1>2, <1>4
<1>6. m \in Nat /\ Prompt.len <= m
  <2>1. 0 \in Nat /\ 0 < n_max BY RoomForTokens
  <2>2. Prompt.len \in Nat BY <1>2
  <2>. QED BY <1>2, <1>4, <1>5, <2>1, <2>2, Room
<1>7. CacheFor(n) \in Cache(m)
  <2>1. CASE D < n
    <3>1. kv_self_n_dec' = n BY <1>2, <1>4, <2>1
    <3>2. CacheFor(n) = KvInit(m) BY <2>1, <3>1 DEF CacheFor, SizeFor, D
    <3>. QED BY <1>6, <3>2, FreshFacts
  <2>2. CASE ~(D < n)
    <3>1. kv_self_n_dec' = D BY <1>2, <1>4, <2>2
    <3>2. CacheFor(n) = kv_self BY <2>2 DEF CacheFor, D
    <3>. QED BY <1>2, <3>1, <3>2
  <2>. QED BY <2>1, <2>2
<1>. HIDE DEF m
<1>8. cache \in Cache(m) /\ cache.head = 0 /\ \A c \in 0 .. m - 1 : cache.cells[c] = FreeCell
  BY <1>6, <1>7, ClearedFacts
<1>. HIDE DEF cache
<1>. DEFINE ds == AllShared(KvStore(cache, batch), n - 1)
<1>9. /\ Len(batch) = Prompt.len /\ Slots(cache, Prompt.len) # {}
      /\ ds \in Cache(m) /\ Neat(ds, m, Prompt.len, 0 .. n - 1) /\ AllSeen(ds, m)
      /\ \A j \in 0 .. n - 1 : Holds(ds, m, j, Prompt.len, Prompt.len, <<>>)
  <2>. DEFINE plen == Prompt.len
  <2>1. plen \in Nat \ {0} /\ plen <= m BY <1>2, <1>6
  <2>. HIDE DEF plen
  <2>2. ASSUME NEW es, es = AllShared(KvStore(cache, PromptBatch(plen)), n - 1)
        PROVE  /\ Len(PromptBatch(plen)) = plen /\ Slots(cache, plen) # {}
               /\ es \in Cache(m) /\ Neat(es, m, plen, 0 .. n - 1) /\ AllSeen(es, m)
               /\ \A j \in 0 .. n - 1 : Holds(es, m, j, plen, plen, <<>>)
    BY <1>2, <1>6, <1>8, <2>1, <2>2, Prompted
  <2>. QED BY <2>2, Zenon DEF plen
<1>10. pc' = "sample" /\ kv_self' = ds
  <2>1. Slots(cache, Len(batch)) # {} BY <1>9
  <2>. QED BY <2>1, Zenon DEF BeginDecoding, AllShared, cache, n
<1>. HIDE DEF ds, batch
<1>11. CacheSize' = m /\ Used' = Prompt.len
  <2>1. Used' = Prompt.len + n * 0 BY <1>1, <1>3 DEF Used
  <2>2. n * 0 = 0 BY <1>2
  <2>3. Used' = Prompt.len BY <1>2, <2>1, <2>2
  <2>. QED BY <2>3 DEF CacheSize, m
<1>12. SizeInv' BY <1>3, <1>4, <1>5, <1>9, <1>10, <1>11 DEF SizeInv
<1>13. CellInv' BY <1>1, <1>2, <1>3, <1>9, <1>10, <1>11 DEF CellInv
<1>14. ContextInv'
  <2>1. LiveOnes(decoders)' \subseteq 0 .. n - 1 BY <1>2, <1>3 DEF LiveOnes
  <2>2. \A j \in Current : j \in DOMAIN decoders BY CurrentExist DEF IInv, TypeInv
  <2>3. \A j \in 0 .. n - 1 : decoders'[j].tokens = <<>> BY <1>1, <1>2, <2>2 DEF NewDecoder
  <2>4. Prompt.len + 0 = Prompt.len BY <1>2
  <2>5. \A j \in 0 .. n - 1 :
           Holds(kv_self', CacheSize', j, prompt.len', prompt.len' + i', decoders'[j].tokens)
    BY <1>1, <1>9, <1>10, <1>11, <2>3, <2>4, Zenon
  <2>. QED BY <2>1, <2>5 DEF ContextInv
<1>. QED BY <1>10, <1>12, <1>13, <1>14 DEF KvInv, SlotsFound

\* The decoders that go on find room for their tokens.
LEMMA KvUpdate == IInv /\ KvInv /\ Update => KvInv'
<1>. SUFFICES ASSUME IInv, KvInv, Update PROVE KvInv' OBVIOUS
<1>. DEFINE m == CacheSize
            S == LiveOnes(UpdatedDecoders)
            live == InOrder(S)
            n == Cardinality(S)
            batch == NextBatch(UpdatedDecoders)
            D == n_decoders(it)
<1>1. /\ params' = params /\ it' = it /\ prompt' = prompt /\ kv_self_n_dec' = kv_self_n_dec
      /\ pc = "update" /\ decoders' = UpdatedDecoders
  BY DEF Update
<1>2. CASE S = {}
  <2>1. pc' = "rank" /\ kv_self' = kv_self BY <1>2 DEF Update
  <2>. QED BY <1>1, <2>1, KvSame
<1>3. CASE S # {}
  <2>1. /\ m' = m /\ Current' = Current /\ n_decoders(it)' = D
    BY <1>1 DEF CacheSize, SizeFor, Current, n_decoders
  <2>2. /\ Current \subseteq Index /\ decoders \in [Index -> Decoder]
        /\ Current = 0 .. D - 1 /\ D \in Nat \ {0} /\ i \in Nat
    BY CurrentExist, DecodersInUse DEF IInv, TypeInv
  <2>3. /\ m \in Nat /\ kv_self \in Cache(m) /\ prompt.len \in Nat \ {0}
        /\ Neat(kv_self, m, Used, Current)
        /\ kv_self_n_dec \in Nat \ {0} /\ D <= kv_self_n_dec
    BY <1>1, CacheSizeType DEF KvInv, SizeInv, CellInv
  <2>4. Used \in Nat /\ Used + D <= m BY <1>1, RoomNow
  <2>5. /\ S \subseteq Current
        /\ \A j \in S : /\ j \in LiveOnes(decoders) /\ decoders'[j].tokens = decoders[j].tokens
                        /\ decoders'[j].tokens \in Seq(Tokens)
                        /\ Len(decoders'[j].tokens) = i + 1
    <3>1. S \subseteq Current BY DEF LiveOnes
    <3>2. \A j \in Current \ LiveOnes(decoders) : UpdatedDecoders[j] = decoders[j]
      BY <2>2 DEF UpdatedDecoders
    <3>3. \A j \in S : j \in LiveOnes(decoders) BY <3>1, <3>2 DEF LiveOnes
    <3>4. ASSUME NEW j \in LiveOnes(decoders)
          PROVE  /\ UpdatedDecoders[j].tokens = decoders[j].tokens
                 /\ decoders[j].tokens \in Seq(Tokens) /\ Len(decoders[j].tokens) = i + 1
      <4>1. /\ decoders[j] \in Decoder /\ Live(decoders[j])
            /\ Len(decoders[j].tokens) = i + 1 /\ j \in Current
            /\ decoders[j].result_len <= Len(decoders[j].tokens)
        BY <1>1, <2>2 DEF LiveOnes, IInv, TokenInv, ResultInv
      <4>2. UpdatedDecoders[j] = Updated(decoders[j]) BY <2>2, <4>1 DEF UpdatedDecoders
      <4>3. Updated(decoders[j]).tokens = decoders[j].tokens
        BY <4>1, UpdatedDecoder DEF IInv
      <4>. QED BY <4>1, <4>2, <4>3 DEF Decoder
    <3>. QED BY <1>1, <3>1, <3>3, <3>4
  <2>6. /\ n \in Nat \ {0} /\ n <= D /\ live \in [1 .. n -> S]
        /\ \A x, y \in 1 .. n : live[x] = live[y] => x = y
        /\ \A j \in S : \E x \in 1 .. n : live[x] = j
    <3>1. S \in SUBSET (0 .. D - 1) /\ D \in Nat BY <2>2, <2>5
    <3>. HIDE DEF S
    <3>2. /\ n \in Nat /\ n <= D /\ live \in [1 .. n -> S]
          /\ \A x, y \in 1 .. n : live[x] = live[y] => x = y
          /\ \A j \in S : \E x \in 1 .. n : live[x] = j
      BY <3>1, InOrderFacts
    <3>. HIDE DEF live, n
    <3>3. n # 0 BY <1>3, <3>2
    <3>. QED BY <3>2, <3>3
  <2>7. /\ \A j \in S : j \in Nat
        /\ DOMAIN live = 1 .. n
    BY <2>2, <2>5, <2>6
  <2>8. batch = [k \in 1 .. n |-> [pos |-> prompt.len + i, seq |-> live[k],
                                   data |-> decoders'[live[k]].tokens]]
    BY <1>1, <2>7, Zenon DEF NextBatch
  <2>. HIDE DEF S, live, n
  <2>9. /\ \A k \in 1 .. n : /\ batch[k].pos = prompt.len + i /\ batch[k].seq = live[k]
                             /\ batch[k].data = decoders'[live[k]].tokens
                             /\ live[k] \in S
        /\ batch \in Batches(n)
    <3>1. ASSUME NEW k \in 1 .. n
          PROVE  [pos |-> prompt.len + i, seq |-> live[k], data |-> decoders'[live[k]].tokens]
                    \in [pos : Nat, seq : Nat, data : Seq(Tokens)]
      <4>1. live[k] \in S /\ prompt.len + i \in Nat BY <2>2, <2>3, <2>6
      <4>. QED BY <2>5, <2>7, <4>1
    <3>. QED BY <2>6, <2>8, <3>1 DEF Batches
  <2>. HIDE DEF batch
  <2>9a. prompt.len \in Nat /\ i \in Nat /\ prompt.len + i \in Nat BY <2>2, <2>3
  <2>10. /\ kv_self.head \in 0 .. Used /\ Used + n <= m
         /\ \A c \in 0 .. m - 1 : c >= Used => kv_self.cells[c].pos < 0
    <3>1. \A c \in 0 .. m - 1 : c >= Used => kv_self.cells[c] = FreeCell
      BY <2>3, Zenon DEF Neat
    <3>2. kv_self.head \in 0 .. Used BY <2>3 DEF Neat
    <3>3. Used + n <= m
      <4>. DEFINE u == Used
      <4>1. u \in Nat /\ u + D <= m /\ n \in Nat /\ n <= D /\ D \in Nat /\ m \in Nat
        BY <2>2, <2>3, <2>4, <2>6
      <4>. HIDE DEF u, m, D
      <4>2. u + n <= m BY <4>1
      <4>. QED BY <4>2 DEF u
    <3>4. FreeCell.pos < 0 BY FreeCellFacts
    <3>. QED BY <3>1, <3>2, <3>3, <3>4
  <2>. DEFINE s == Slot(kv_self, n)
              ds == KvStore(kv_self, batch)
  <2>11. /\ Len(batch) = n /\ Slots(kv_self, n) # {} /\ s \in 0 .. Used
         /\ StoredAt(ds, kv_self, m, batch, s)
    <3>. DEFINE u == Used
    <3>. HIDE DEF u, m
    <3>1. /\ m \in Nat /\ kv_self \in Cache(m) /\ n \in Nat \ {0} /\ batch \in Batches(n)
          /\ u \in Nat /\ kv_self.head \in 0 .. u /\ u + n <= m
          /\ \A c \in 0 .. m - 1 : c >= u => kv_self.cells[c].pos < 0
      BY <2>3, <2>4, <2>6, <2>9, <2>10 DEF u
    <3>2. /\ Len(batch) = n /\ Slots(kv_self, n) # {} /\ Slot(kv_self, n) \in 0 .. u
          /\ StoredAt(KvStore(kv_self, batch), kv_self, m, batch, Slot(kv_self, n))
      BY <3>1, Store, Zenon
    <3>. QED BY <3>2 DEF u
  <2>12. /\ kv_self' = ds /\ i' = i + 1 /\ pc' = IF i + 1 < n_max THEN "sample" ELSE "rank"
    BY <1>3, <2>11 DEF Update, S, batch
  <2>. HIDE DEF s, ds
  <2>13. Used' \in Nat /\ Used + n <= Used'
    <3>1. Used' = prompt.len + D * (i + 1) BY <1>1, <2>1, <2>12 DEF Used
    <3>2. Used = prompt.len + D * i BY DEF Used
    <3>3. D * (i + 1) = D * i + D /\ D * i \in Nat BY <2>2
    <3>. DEFINE p == D * i
                q == D * (i + 1)
    <3>. HIDE DEF p, q, D
    <3>4. q = p + D /\ p \in Nat /\ Used' = prompt.len + q /\ Used = prompt.len + p
      BY <3>1, <3>2, <3>3 DEF p, q
    <3>5. D \in Nat /\ prompt.len \in Nat /\ n \in Nat /\ n <= D BY <2>2, <2>3, <2>6
    <3>. QED BY <3>4, <3>5
  <2>14. ds \in Cache(m) /\ Neat(ds, m, Used', Current) /\ AllSeen(ds, m)
    <3>1. \A k \in 1 .. n : batch[k].seq \in Current /\ batch[k].pos \in Nat
      BY <2>5, <2>9, <2>9a
    <3>. DEFINE u == Used
                v == Used'
    <3>2. /\ u \in Nat /\ v \in Nat /\ u + n <= v /\ s \in 0 .. u /\ n \in Nat
          /\ Neat(kv_self, m, u, Current)
      BY <2>3, <2>4, <2>6, <2>11, <2>13
    <3>. HIDE DEF u, v, m
    <3>3. Neat(ds, m, v, Current) /\ AllSeen(ds, m)
      BY <2>3, <2>11, <3>1, <3>2, NeatStored
    <3>. QED BY <2>11, <3>3 DEF StoredAt, v
  <2>15. SizeInv' BY <1>1, <2>1, <2>3, <2>12, <2>14 DEF SizeInv
  <2>16. CellInv' BY <1>1, <2>1, <2>3, <2>12, <2>14 DEF CellInv
  <2>17. ASSUME NEW j \in S
         PROVE  Holds(ds, m, j, prompt.len, prompt.len + i + 1, decoders'[j].tokens)
    <3>. DEFINE len == prompt.len + i
                tokens == decoders'[j].tokens
    <3>1. /\ tokens \in Seq(Tokens) /\ len \in Nat /\ len + 1 = prompt.len + Len(tokens)
          /\ Holds(kv_self, m, j, prompt.len, len, tokens)
      <4>1. j \in LiveOnes(decoders) /\ tokens = decoders[j].tokens BY <2>5
      <4>2. Holds(kv_self, m, j, prompt.len, len, decoders[j].tokens)
        BY <1>1, <4>1 DEF KvInv, ContextInv
      <4>3. tokens \in Seq(Tokens) /\ Len(tokens) = i + 1 BY <2>5
      <4>. HIDE DEF tokens
      <4>4. len \in Nat /\ len + 1 = prompt.len + Len(tokens) BY <2>9a, <4>3
      <4>. QED BY <4>1, <4>2, <4>3, <4>4
    <3>2. PICK b \in 1 .. n : live[b] = j BY <2>6
    <3>3. /\ batch[b].seq = j /\ batch[b].pos = len /\ batch[b].data = tokens
          /\ \A a \in 1 .. n : batch[a].seq = j => a = b
      BY <2>6, <2>9, <3>2
    <3>4. /\ \A c \in 0 .. m - 1 : kv_self.cells[c].seq_id # {} => kv_self.cells[c].pos >= 0
          /\ n \in Nat /\ prompt.len \in Nat
      BY <2>3, <2>6 DEF Neat
    <3>. HIDE DEF len, tokens, m
    <3>5. Holds(ds, m, j, prompt.len, len + 1, tokens)
      BY <2>3, <2>11, <3>1, <3>3, <3>4, HoldsStored
    <3>. QED BY <3>5 DEF len, tokens
  <2>18. ContextInv'
    <3>1. prompt.len + (i + 1) = (prompt.len + i) + 1 BY <2>9a
    <3>2. LiveOnes(decoders)' = S BY <1>1, <2>1 DEF LiveOnes, S
    <3>. QED BY <1>1, <2>1, <2>12, <2>17, <3>1, <3>2 DEF ContextInv
  <2>. QED BY <2>12, <2>15, <2>16, <2>18 DEF KvInv, SlotsFound
<1>. QED BY <1>2, <1>3

LEMMA KvNext == IInv /\ KvInv /\ [Next]_vars => KvInv'
<1>. SUFFICES ASSUME IInv, KvInv, [Next]_vars PROVE KvInv' OBVIOUS
<1>1. CASE UNCHANGED vars
  BY <1>1 DEF vars, KvInv, SizeInv, CellInv, ContextInv, SlotsFound, CacheSize, SizeFor, Used,
              Current, LiveOnes, n_decoders
<1>2. CASE Window BY <1>2, KvSame DEF Window
<1>3. CASE Rank BY <1>3, KvSame DEF Rank
<1>4. CASE Output BY <1>4, KvSame DEF Output
<1>. QED
  BY <1>1, <1>2, <1>3, <1>4, KvBegin, KvGreedy, KvBeam, KvUpdate DEF Next

-----------------------------------------------------------------------------
LEMMA KvInvariance == Spec => [](IInv /\ KvInv)
<1>1. Init => IInv /\ KvInv BY InitInv, KvInitStep
<1>2. IInv /\ KvInv /\ [Next]_vars => (IInv /\ KvInv)' BY NextInv, KvNext
<1>. QED BY <1>1, <1>2, PTL DEF Spec

\* However many decoders there are and however their cells are scattered,
\* whisper_kv_cache_find_slot finds room for their batch.
THEOREM FindsASlot == Spec => []SlotsFound
<1>1. KvInv => SlotsFound BY DEF KvInv
<1>. QED BY <1>1, KvInvariance, PTL

\* What a decoder attends to is the prompt and the tokens of its own hypothesis, once each.
THEOREM SeesItsOwnContext == Spec => []OwnContextOnce
<1>1. IInv /\ KvInv => OwnContextOnce
  <2>. SUFFICES ASSUME IInv, KvInv, pc = "sample", NEW j \in LiveOnes(decoders)
                PROVE  LET len   == prompt.len + i
                           cells == Visible(kv_self, j, len - 1)
                       IN /\ Cardinality(cells) = len
                          /\ \A p \in 0 .. len - 1 : \E c \in cells :
                                /\ kv_self.cells[c].pos = p
                                /\ kv_self.cells[c].data =
                                      SubSeq(decoders[j].tokens, 1, p - prompt.len + 1)
    BY DEF OwnContextOnce
  <2>. DEFINE len == prompt.len + i
              m == CacheSize
  <2>1. /\ m \in Nat /\ kv_self \in Cache(m) /\ prompt.len \in Nat /\ len \in Nat
        /\ Holds(kv_self, m, j, prompt.len, len, decoders[j].tokens)
        /\ kv_self.n <= m /\ \A c \in 0 .. m - 1 : kv_self.cells[c].seq_id # {} => c < kv_self.n
    BY CacheSizeType DEF KvInv, SizeInv, CellInv, ContextInv, AllSeen, IInv, TypeInv
  <2>. HIDE DEF len, m
  <2>2. SeesOnce(kv_self, j, prompt.len, len, decoders[j].tokens) BY <2>1, SeenOnce
  <2>. QED BY <2>2, Zenon DEF SeesOnce, len
<1>. QED BY <1>1, KvInvariance, PTL
=============================================================================
