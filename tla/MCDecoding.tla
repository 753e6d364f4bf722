----------------------------- MODULE MCDecoding -----------------------------
(***************************************************************************)
(* Decoding for a few requests: the one of this app, one that takes the    *)
(* best of two samples at the second temperature, and beam search.         *)
(***************************************************************************)
EXTENDS Decoding

\* What jni.c asks for: one greedy decoder, no timestamps, no context.
AppRequest ==
    [strategy |-> "greedy", best_of |-> 1, beam_size |-> 1, temperatures |-> <<0, 4, 8>>,
     no_timestamps |-> TRUE, single_segment |-> FALSE, max_tokens |-> 0,
     n_max_text_ctx |-> 16384, carry |-> FALSE, n_init |-> 4, past0 |-> 0, past1 |-> 0,
     seek_end |-> 6]

\* The same with a history that is longer than its room.
HistoryRequest == [AppRequest EXCEPT !.past1 = 9]

\* Two samples, with timestamps.
SampledRequest ==
    [AppRequest EXCEPT !.best_of = 2, !.temperatures = <<0, 8>>, !.no_timestamps = FALSE,
                       !.n_init = 3, !.past1 = 2]

\* Single segments that end after two tokens.
ShortRequest ==
    [SampledRequest EXCEPT !.max_tokens = 1, !.single_segment = TRUE, !.best_of = 1]

\* Beam search, and one decoder at the second temperature; the initial prompt is kept.
BeamRequest ==
    [AppRequest EXCEPT !.strategy = "beam", !.beam_size = 2, !.temperatures = <<0, 8>>,
                       !.carry = TRUE, !.past0 = 2, !.past1 = 9, !.seek_end = 4]

SmallRequests == {AppRequest, HistoryRequest, SampledRequest, ShortRequest, BeamRequest}
=============================================================================
