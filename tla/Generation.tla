----------------------------- MODULE Generation -----------------------------
(***************************************************************************)
(* inference::RunGeneration on one sequence slot, run after run: which     *)
(* tokens are reused, prefilled, decoded, shifted out and kept.  A slot    *)
(* serves one run at a time (EngineState), so a run is a sequential        *)
(* program, which a stop flag may end and llama_decode or                  *)
(* llama_memory_seq_rm may fail at every step.                             *)
(*                                                                         *)
(* What a cell of the KV cache holds depends on all the tokens it attended *)
(* to, so a cell is that sequence of tokens, its own token the last.       *)
(***************************************************************************)
EXTENDS Integers, SequencesExt

CONSTANTS
    Tokens,     \* text tokens
    Eog,        \* an end-of-generation token, LLAMA_TOKEN_EOG
    Image,      \* one position of an image
    None,       \* LLAMA_TOKEN_NULL
    Context,    \* slot_context_: positions of one slot
    Batch,      \* n_batch of the context
    MaxPrompt,  \* bound: tokens of a prompt
    Limits,     \* values of params.max_tokens
    MaxTurns    \* bound: runs on the slot

ASSUME GenerationAssumption ==
    /\ Context \in Nat \ {0} /\ Batch \in Nat \ {0}
    /\ MaxPrompt \in Nat /\ Limits \subseteq Nat \ {0} /\ MaxTurns \in Nat
    /\ Eog \notin Tokens /\ Image \notin Tokens \cup {Eog}
    /\ None \notin Tokens \cup {Eog, Image}

Vocab == Tokens \cup {Eog}

VARIABLES
    can_shift,      \* llama_memory_can_shift, fixed by the loaded model
    kv,             \* the cells of the sequence, by position
    cached,         \* cached_tokens_ of the sequence
    pc,             \* where the run is; "idle" between runs
    images,         \* does the prompt of the run hold images?
    prompt,         \* prompt_tokens after FitPromptContext, or the chunks
    offset,         \* tokens of the prompt or of the window already in the KV
    evaluated,      \* evaluated_tokens
    n_past,         \* the next position
    cache_valid,    \* may the tokens be kept for the next run?
    token,          \* new_token_id
    generated,      \* tokens given to on_token
    max_tokens,     \* params.max_tokens
    text,           \* ghost: the whole prompt and every token decoded since
    turns           \* runs begun

memVars == <<can_shift, kv, cached>>
runVars == <<images, max_tokens, turns>>
winVars == <<prompt, offset, evaluated, n_past, cache_valid>>
outVars == <<token, generated, text>>
vars    == <<memVars, pc, runVars, winVars, outVars>>

Smaller(a, b) == IF a <= b THEN a ELSE b
Larger(a, b)  == IF a <= b THEN b ELSE a
Texts         == UNION {[1 .. n -> Vocab] : n \in 0 .. MaxPrompt}
WithImages    == {p \in UNION {[1 .. n -> Tokens \cup {Image}] : n \in 1 .. MaxPrompt} :
                    Image \in Range(p)}

Init ==
    /\ can_shift \in BOOLEAN
    /\ kv = <<>> /\ cached = <<>> /\ pc = "idle"
    /\ images = FALSE /\ prompt = <<>> /\ offset = 0
    /\ evaluated = <<>> /\ n_past = 0 /\ cache_valid = FALSE
    /\ token = None /\ generated = 0 /\ max_tokens = 0
    /\ text = <<>> /\ turns = 0

-----------------------------------------------------------------------------
(***************************************************************************)
(* prompt_cache.h                                                          *)
(***************************************************************************)

\* Bug: a prompt that is wholly cached would be reused to its last token.
ReuseWholePrompt(c, p) ==
    Cardinality({n \in 1 .. Smaller(Len(c), Len(p)) : \A i \in 1 .. n : c[i] = p[i]})

\* The length of the common prefix, short of the last token of the prompt.
ReusablePromptTokens(c, p) ==
    Cardinality({n \in 1 .. Smaller(Len(c), Len(p) - 1) : \A i \in 1 .. n : c[i] = p[i]})

\* Bug: the oldest tokens are kept.
KeepOldest(p) == SubSeq(p, 1, Smaller(Len(p), Context - 1))

\* A prompt that fills the context keeps its first token and its latest ones.
FitPromptContext(p) ==
    IF Context <= 1 \/ Len(p) < Context THEN p
    ELSE <<p[1]>> \o SubSeq(p, Len(p) - Context + 3, Len(p))

\* Bug: the window is thought full one position too late.
DiscardWhenExceeded(used) ==
    IF Context <= 1 \/ used <= Context THEN 0 ELSE Larger(1, used \div 2)

\* Bug: doubled instead of halved.
DiscardDouble(used) ==
    IF Context <= 1 \/ used < Context THEN 0 ELSE Larger(1, used * 2)

\* How many tokens a full window loses.
GenerationWindowDiscard(used) ==
    IF Context <= 1 \/ used < Context THEN 0 ELSE Larger(1, used \div 2)

\* Bug: the oldest tokens go, the first one among them.
TrimOldest(s, d) == SubSeq(s, 1 + Smaller(d, Len(s) - 1), Len(s))

TrimGenerationWindow(s, d) ==
    IF Len(s) <= 1 THEN s
    ELSE <<s[1]>> \o SubSeq(s, 2 + Smaller(d, Len(s) - 1), Len(s))

-----------------------------------------------------------------------------
(***************************************************************************)
(* llama.cpp's memory of the sequence.                                     *)
(***************************************************************************)

\* Decoding s at position p: each token attends to all that lies before it,
\* in the order of the positions.
Decode(m, p, s) ==
    LET below == {q \in DOMAIN m : q < p}
        At(i) == CHOOSE q \in below : Cardinality({r \in below : r < q}) = i - 1
        seen  == [i \in 1 .. Cardinality(below) |-> Last(m[At(i)])]
    IN  [q \in DOMAIN m \cup p .. p + Len(s) - 1 |->
            IF q \in p .. p + Len(s) - 1 THEN seen \o SubSeq(s, 1, q - p + 1)
                                         ELSE m[q]]

\* A decode that fails keeps the micro-batches it had finished.
DecodeFails(m, p, s) == {Decode(m, p, SubSeq(s, 1, n)) : n \in 0 .. Len(s) - 1}

SeqRm(m, lo, hi) == Restrict(m, {q \in DOMAIN m : q < lo \/ q >= hi})

\* The cells from lo on move d positions down; what they hold does not change.
SeqAdd(m, lo, d) ==
    [q \in {x \in DOMAIN m : x < lo - d} \cup {x - d : x \in {y \in DOMAIN m : y >= lo}} |->
        IF q < lo - d THEN m[q] ELSE m[q + d]]

-----------------------------------------------------------------------------
(***************************************************************************)
(* The run.                                                                *)
(***************************************************************************)

\* The prompt is tokenized and fitted; one that leaves no position to
\* generate into is refused.
Submit(p, limit) ==
    LET fit == FitPromptContext(p)
    IN  /\ pc = "idle" /\ turns < MaxTurns
        /\ turns' = turns + 1 /\ images' = FALSE /\ max_tokens' = limit
        /\ prompt' = fit /\ text' = p
        /\ offset' = 0 /\ evaluated' = <<>> /\ n_past' = 0
        /\ token' = None /\ generated' = 0
        /\ cache_valid' = can_shift
        /\ pc' = IF p = <<>> \/ Context <= 1 \/ Len(fit) >= Context
                 THEN "ended" ELSE "reuse"
        /\ UNCHANGED memVars

\* The cells after the common prefix are removed, or all cells if there is no
\* such prefix or the memory cannot remove a part; it may refuse that too.
Reuse ==
    LET reuse == IF cache_valid THEN ReusablePromptTokens(cached, prompt) ELSE 0
    IN  /\ pc = "reuse"
        /\ \/ reuse > 0 /\ kv' = Restrict(kv, {q \in DOMAIN kv : q < reuse})
              /\ offset' = reuse /\ pc' = "prefill"
           \/ kv' = <<>> /\ offset' = 0 /\ pc' = "prefill"
           \/ pc' = "ended" /\ UNCHANGED <<kv, offset>>
        /\ cached' = <<>>
        /\ UNCHANGED <<can_shift, runVars, prompt, evaluated, n_past,
                       cache_valid, outVars>>

Batched(s) == SubSeq(s, offset + 1, offset + Smaller(Batch, Len(s) - offset))

\* One batch of the prompt; the last one also samples the first new token.
PrefillBatch(t) ==
    LET batch == Batched(prompt)
    IN  /\ pc = "prefill" /\ offset < Len(prompt)
        /\ kv' = Decode(kv, offset, batch)
        /\ offset' = offset + Len(batch)
        /\ token' = IF offset' = Len(prompt) THEN t ELSE token
        /\ UNCHANGED <<can_shift, cached, pc, runVars, prompt, evaluated, n_past,
                       cache_valid, generated, text>>

PrefillFails ==
    /\ pc = "prefill" /\ offset < Len(prompt)
    /\ kv' \in DecodeFails(kv, offset, Batched(prompt))
    /\ pc' = "ended"
    /\ UNCHANGED <<can_shift, cached, runVars, winVars, outVars>>

PrefillDone ==
    /\ pc = "prefill" /\ offset = Len(prompt)
    /\ evaluated' = prompt /\ prompt' = <<>> /\ n_past' = Len(prompt)
    /\ pc' = "loop"
    /\ UNCHANGED <<memVars, runVars, offset, cache_valid, outVars>>

\* A prompt with images gives up the cached tokens and starts on an empty
\* sequence; it may fail for a projector, an image or a prompt that is too long.
SubmitImages(p, limit) ==
    /\ pc = "idle" /\ turns < MaxTurns
    /\ turns' = turns + 1 /\ images' = TRUE /\ max_tokens' = limit
    /\ prompt' = p /\ text' = p
    /\ offset' = 0 /\ evaluated' = <<>> /\ n_past' = 0 /\ cache_valid' = FALSE
    /\ token' = None /\ generated' = 0
    /\ cached' = <<>>
    /\ \/ kv' = kv /\ pc' = "ended"
       \/ kv' = <<>> /\ pc' = "ended"
       \/ kv' = <<>> /\ Len(p) <= Context /\ pc' = "chunks"
    /\ UNCHANGED can_shift

\* The next chunk: an image, or the text up to the next image.
TextTokens == Cardinality({n \in offset + 1 .. Len(prompt) :
                              \A i \in offset + 1 .. n : prompt[i] # Image})
ChunkEnd   == offset + Larger(1, TextTokens)
Chunk      == SubSeq(prompt, offset + 1, ChunkEnd)

\* A text chunk at the end samples the first token; an image there leaves none
\* and fails.
EvalChunk(t) ==
    /\ pc = "chunks"
    /\ kv' = Decode(kv, n_past, Chunk)
    /\ offset' = ChunkEnd /\ n_past' = ChunkEnd
    /\ token' = IF ChunkEnd = Len(prompt) /\ Last(Chunk) # Image THEN t ELSE token
    /\ pc' = IF ChunkEnd < Len(prompt) THEN "chunks"
             ELSE IF token' = None THEN "ended" ELSE "loop"
    /\ UNCHANGED <<can_shift, cached, runVars, prompt, evaluated,
                   cache_valid, generated, text>>

EvalChunkFails ==
    /\ pc = "chunks"
    /\ kv' \in DecodeFails(kv, n_past, Chunk)
    /\ pc' = "ended"
    /\ UNCHANGED <<can_shift, cached, runVars, winVars, outVars>>

-----------------------------------------------------------------------------
\* The generation loop.

\* stop_requested() is asked before every batch, chunk and token.
Stopped ==
    /\ pc \in {"prefill", "chunks", "loop", "rebuild"}
    /\ pc' = "ended"
    /\ UNCHANGED <<memVars, runVars, winVars, outVars>>

\* The sampled token goes to on_token; the last one is not decoded.
Emit ==
    /\ pc = "loop" /\ generated < max_tokens /\ token # Eog
    /\ generated' = generated + 1
    /\ pc' = IF generated' >= max_tokens THEN "finished" ELSE "decode"
    /\ UNCHANGED <<memVars, runVars, winVars, token, text>>

Discard == GenerationWindowDiscard(n_past)

\* Bug: the tokens of a shifted window would be kept for the next run.
StillValid == cache_valid
SlidValid  == FALSE

\* In decode_mutex_, a full window: the memory removes and shifts.
Slide ==
    /\ pc = "decode" /\ Discard > 0 /\ can_shift
    /\ cache_valid' = SlidValid /\ cached' = <<>>
    /\ kv' = SeqAdd(SeqRm(kv, 1, 1 + Discard), 1 + Discard, Discard)
    /\ n_past' = n_past - Discard
    /\ evaluated' = IF images THEN evaluated
                    ELSE TrimGenerationWindow(evaluated, Discard)
    /\ UNCHANGED <<can_shift, pc, runVars, prompt, offset, outVars>>

\* It cannot remove a part: a text window is emptied and decoded again.
Rebuild ==
    /\ pc = "decode" /\ Discard > 0 /\ ~images
    /\ cache_valid' = FALSE /\ cached' = <<>>
    /\ kv' = <<>> /\ offset' = 0
    /\ evaluated' = TrimGenerationWindow(evaluated, Discard)
    /\ pc' = "rebuild"
    /\ UNCHANGED <<can_shift, runVars, prompt, n_past, outVars>>

\* Images cannot be decoded again from tokens, or the memory refuses it all.
NoRoom ==
    /\ pc = "decode" /\ Discard > 0
    /\ cache_valid' = FALSE /\ cached' = <<>>
    /\ pc' = "ended"
    /\ UNCHANGED <<can_shift, kv, runVars, prompt, offset, evaluated, n_past, outVars>>

RebuildBatch ==
    LET batch == Batched(evaluated)
        done  == offset + Len(batch) = Len(evaluated)
    IN  /\ pc = "rebuild"
        /\ kv' = Decode(kv, offset, batch)
        /\ offset' = offset + Len(batch)
        /\ n_past' = IF done THEN Len(evaluated) ELSE n_past
        /\ pc' = IF done THEN "decode" ELSE "rebuild"
        /\ UNCHANGED <<can_shift, cached, runVars, prompt, evaluated,
                       cache_valid, outVars>>

RebuildFails ==
    /\ pc = "rebuild"
    /\ kv' \in DecodeFails(kv, offset, Batched(evaluated))
    /\ pc' = "ended"
    /\ UNCHANGED <<can_shift, cached, runVars, winVars, outVars>>

\* The emitted token is decoded at n_past and the next one sampled.
DecodeToken(t) ==
    /\ pc = "decode" /\ Discard = 0
    /\ kv' = Decode(kv, n_past, <<token>>)
    /\ n_past' = n_past + 1
    /\ evaluated' = IF images THEN evaluated ELSE Append(evaluated, token)
    /\ text' = Append(text, token)
    /\ token' = t
    /\ pc' = "loop"
    /\ UNCHANGED <<can_shift, cached, runVars, prompt, offset, cache_valid, generated>>

DecodeTokenFails ==
    /\ pc = "decode" /\ Discard = 0
    /\ pc' = "ended"
    /\ UNCHANGED <<memVars, runVars, winVars, outVars>>

\* The run ends by itself: its tokens are kept if they still describe the KV.
Finish ==
    /\ \/ pc = "finished"
       \/ pc = "loop" /\ token = Eog
    /\ cached' = IF cache_valid THEN evaluated ELSE cached
    /\ pc' = "ended"
    /\ UNCHANGED <<can_shift, kv, runVars, winVars, outVars>>

\* ReleaseSlot: a slot without an owner loses its tokens, one without tokens
\* its cells, unless the memory refuses.  The locals of the run are gone.
ReleaseSlot(owned) ==
    /\ pc = "ended"
    /\ cached' = IF owned THEN cached ELSE <<>>
    /\ kv' \in IF cached' = <<>> THEN {<<>>, kv} ELSE {kv}
    /\ pc' = "idle"
    /\ images' = FALSE /\ max_tokens' = 0
    /\ prompt' = <<>> /\ offset' = 0 /\ evaluated' = <<>> /\ n_past' = 0
    /\ cache_valid' = FALSE
    /\ token' = None /\ generated' = 0 /\ text' = <<>>
    /\ UNCHANGED <<can_shift, turns>>

Next ==
    \/ \E p \in Texts, limit \in Limits : Submit(p, limit)
    \/ \E p \in WithImages, limit \in Limits : SubmitImages(p, limit)
    \/ Reuse \/ PrefillFails \/ PrefillDone \/ EvalChunkFails
    \/ \E t \in Vocab : PrefillBatch(t) \/ EvalChunk(t) \/ DecodeToken(t)
    \/ Stopped \/ Emit \/ Slide \/ Rebuild \/ NoRoom
    \/ RebuildBatch \/ RebuildFails \/ DecodeTokenFails \/ Finish
    \/ \E owned \in BOOLEAN : ReleaseSlot(owned)

Spec == Init /\ [][Next]_vars

-----------------------------------------------------------------------------
(***************************************************************************)
(* Properties.                                                             *)
(***************************************************************************)
Cells == Seq(Vocab \cup {Image})

\* Every variable has the type its declaration in RunGeneration gives it.
TypeOK ==
    /\ can_shift \in BOOLEAN /\ images \in BOOLEAN /\ cache_valid \in BOOLEAN
    /\ pc \in {"idle", "reuse", "prefill", "chunks", "loop", "decode", "rebuild",
               "finished", "ended"}
    /\ DOMAIN kv \subseteq Nat /\ \A q \in DOMAIN kv : kv[q] \in Cells \ {<<>>}
    /\ {cached, evaluated, prompt, text} \subseteq Cells
    /\ token \in Vocab \cup {None}
    /\ {offset, n_past, generated, max_tokens, turns} \subseteq Nat

\* What cached_tokens_ promises the next run is what a prefill of those tokens
\* would compute: each cell has attended to exactly its prefix.
CacheIsExact ==
    cached # <<>> =>
        /\ DOMAIN kv = 0 .. Len(cached) - 1
        /\ \A i \in 1 .. Len(cached) : kv[i - 1] = SubSeq(cached, 1, i)

\* While it generates, the sequence holds exactly the window: the positions
\* below n_past, and for text the evaluated tokens at them.
WindowIsKv ==
    pc \in {"loop", "decode", "finished"} =>
        /\ DOMAIN kv = 0 .. n_past - 1
        /\ ~images => /\ Len(evaluated) = n_past
                      /\ \A i \in 1 .. n_past : Last(kv[i - 1]) = evaluated[i]

\* No token is decoded past the positions of the slot, whose share of the
\* unified KV buffer the other slots count on.
FitsContext == DOMAIN kv \subseteq 0 .. Context - 1

\* However long the prompt and the output, the window is the first token and
\* the latest ones, at least half a context of them.
WindowKeepsEnds ==
    pc \in {"loop", "decode", "finished"} /\ ~images =>
        /\ Len(evaluated) >= Smaller(Len(text), Context \div 2)
        /\ evaluated[1] = text[1]
        /\ \A i \in 2 .. Len(evaluated) :
              evaluated[i] = text[Len(text) - Len(evaluated) + i]

\* The loop never starts on a token that no decode of this run has sampled:
\* at least the last token of the prompt is computed, whatever was cached.
AlwaysSampled == pc \in {"loop", "decode", "finished"} => token # None
=============================================================================
