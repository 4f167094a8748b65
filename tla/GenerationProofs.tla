-------------------------- MODULE GenerationProofs --------------------------
(***************************************************************************)
(* No run on a slot ever decodes a token past the positions of that slot,  *)
(* for every context length, batch size, prompt and number of runs.        *)
(*                                                                         *)
(* The step that could go wrong is DecodeToken, at position n_past, after  *)
(* the window was slid or rebuilt: both give up as many positions as       *)
(* GenerationWindowDiscard says, and a rebuilt window is as long as        *)
(* evaluated_tokens, so the invariant ties the length of that vector to    *)
(* n_past, and the cells of the sequence to n_past or to the offset.       *)
(***************************************************************************)
EXTENDS Generation, FiniteSetTheorems, TLAPS

Symbols == Vocab \cup {Image, None}

LocalTypes ==
    /\ prompt \in Seq(Symbols) /\ evaluated \in Seq(Symbols)
    /\ cached \in Seq(Symbols)
    /\ offset \in Nat /\ n_past \in Nat /\ token \in Symbols
    /\ images \in BOOLEAN

CellsBelow(n) == DOMAIN kv \subseteq 0 .. n - 1

ReuseRoom   == pc = "reuse" => 1 <= Len(prompt) /\ Len(prompt) < Context
PrefillRoom == pc = "prefill" => /\ 1 <= Len(prompt) /\ Len(prompt) < Context
                                 /\ offset <= Len(prompt) /\ CellsBelow(offset)
ChunkRoom   == pc = "chunks" => /\ offset < Len(prompt) /\ Len(prompt) <= Context
                                /\ n_past = offset /\ CellsBelow(offset) /\ images
                                /\ token = None
                                /\ \E i \in 1 .. Len(prompt) : prompt[i] = Image
LoopRoom    == pc \in {"loop", "decode", "finished"} =>
                    /\ 1 < Context
                    /\ 1 <= n_past /\ n_past <= Context /\ CellsBelow(n_past)
                    /\ ~images => Len(evaluated) = n_past
RebuildRoom == pc = "rebuild" => /\ offset < Len(evaluated)
                                 /\ Len(evaluated) < Context
                                 /\ CellsBelow(offset) /\ ~images

FitInv == /\ LocalTypes /\ FitsContext
          /\ ReuseRoom /\ PrefillRoom /\ ChunkRoom /\ LoopRoom /\ RebuildRoom

-----------------------------------------------------------------------------
(***************************************************************************)
(* prompt_cache.h and the memory.                                          *)
(***************************************************************************)

\* Reuse leaves at least one token of the prompt to compute.
LEMMA ReuseBound ==
    ASSUME NEW c \in Seq(Symbols), NEW p \in Seq(Symbols), Len(p) >= 1
    PROVE  /\ ReusablePromptTokens(c, p) \in Nat
           /\ ReusablePromptTokens(c, p) <= Len(p) - 1
<1> DEFINE limit == Smaller(Len(c), Len(p) - 1)
           common == {n \in 1 .. limit : \A i \in 1 .. n : c[i] = p[i]}
<1>1. limit \in Nat /\ limit <= Len(p) - 1
  BY DEF Smaller
<1>2. IsFiniteSet(1 .. limit) /\ Cardinality(1 .. limit) = limit
  <2> HIDE DEF limit
  <2>1. 1 \in Int /\ limit \in Int
    BY <1>1
  <2>2. /\ IsFiniteSet(1 .. limit)
        /\ Cardinality(1 .. limit) = IF 1 > limit THEN 0 ELSE limit - 1 + 1
    BY <2>1, FS_Interval
  <2> QED BY <1>1, <2>2
<1>3. IsFiniteSet(common) /\ Cardinality(common) <= Cardinality(1 .. limit)
  BY <1>2, FS_Subset
<1>4. Cardinality(common) \in Nat
  BY <1>3, FS_CardinalityType
<1> QED BY <1>1, <1>2, <1>3, <1>4 DEF ReusablePromptTokens

\* A fitted prompt is a prompt.
LEMMA FitType ==
    ASSUME NEW S, NEW p \in Seq(S), p # <<>>
    PROVE  FitPromptContext(p) \in Seq(S) /\ Len(FitPromptContext(p)) >= 1
<1>1. Len(p) \in Nat /\ Len(p) >= 1 /\ p[1] \in S
  OBVIOUS
<1>2. CASE Context <= 1 \/ Len(p) < Context
  BY <1>1, <1>2 DEF FitPromptContext
<1>3. CASE ~(Context <= 1 \/ Len(p) < Context)
  <2> DEFINE from == Len(p) - Context + 3
             rest == SubSeq(p, from, Len(p))
  <2>1. from \in 1 .. Len(p) + 1
    BY <1>1, <1>3, GenerationAssumption DEF GenerationAssumption
  <2>2. rest \in Seq(S) /\ Len(rest) \in Nat
    BY <1>1, <2>1
  <2>3. FitPromptContext(p) = <<p[1]>> \o rest
    BY <1>3 DEF FitPromptContext
  <2> HIDE DEF rest
  <2> QED BY <1>1, <2>2, <2>3
<1> QED BY <1>2, <1>3

\* A window loses tokens exactly when it is full, and never all of them.
LEMMA DiscardBound ==
    ASSUME Context > 1, NEW used \in Nat, used <= Context
    PROVE  LET d == GenerationWindowDiscard(used)
           IN  /\ d \in Nat
               /\ d = 0 => used < Context
               /\ d > 0 => used = Context /\ d <= used - 1
<1>1. Context \in Nat
  BY GenerationAssumption DEF GenerationAssumption
<1>2. used \div 2 \in Nat /\ 2 * (used \div 2) <= used
  OBVIOUS
<1> QED BY <1>1, <1>2 DEF GenerationWindowDiscard, Larger

\* Trimming removes as many tokens as were discarded.
LEMMA TrimLength ==
    ASSUME NEW S, NEW s \in Seq(S), NEW d \in Nat, d <= Len(s) - 1
    PROVE  /\ TrimGenerationWindow(s, d) \in Seq(S)
           /\ Len(TrimGenerationWindow(s, d)) = Len(s) - d
<1>1. Len(s) \in Nat /\ Len(s) >= 1 /\ s[1] \in S
  OBVIOUS
<1>2. CASE Len(s) <= 1
  BY <1>1, <1>2 DEF TrimGenerationWindow
<1>3. CASE Len(s) > 1
  <2> DEFINE rest == SubSeq(s, 2 + d, Len(s))
  <2>1. rest \in Seq(S) /\ Len(rest) = Len(s) - d - 1
    BY <1>1, <1>3
  <2>2. TrimGenerationWindow(s, d) = <<s[1]>> \o rest
    BY <1>1, <1>3 DEF TrimGenerationWindow, Smaller
  <2> HIDE DEF rest
  <2> QED BY <1>1, <2>1, <2>2
<1> QED BY <1>1, <1>2, <1>3

\* A decode adds exactly the positions of its batch.
LEMMA DecodeCells ==
    ASSUME NEW m, NEW p \in Nat, NEW s \in Seq(Symbols),
           DOMAIN m \subseteq 0 .. p - 1
    PROVE  DOMAIN Decode(m, p, s) \subseteq 0 .. p + Len(s) - 1
<1>1. DOMAIN Decode(m, p, s) = DOMAIN m \cup p .. p + Len(s) - 1
  BY DEF Decode
<1> QED BY <1>1

\* So does a failing one, for the part it had finished.
LEMMA FailCells ==
    ASSUME NEW m, NEW p \in Nat, NEW s \in Seq(Symbols),
           DOMAIN m \subseteq 0 .. p - 1,
           NEW f \in DecodeFails(m, p, s)
    PROVE  DOMAIN f \subseteq 0 .. p + Len(s) - 1
<1>1. PICK k \in 0 .. Len(s) - 1 : f = Decode(m, p, SubSeq(s, 1, k))
  BY DEF DecodeFails
<1>2. SubSeq(s, 1, k) \in Seq(Symbols) /\ Len(SubSeq(s, 1, k)) = k
  OBVIOUS
<1>3. DOMAIN f \subseteq 0 .. p + k - 1
  BY <1>1, <1>2, DecodeCells
<1>4. Len(s) \in Nat
  OBVIOUS
<1> QED BY <1>3, <1>4

\* A batch is a part of what is left.
LEMMA BatchLength ==
    ASSUME NEW S, NEW s \in Seq(S), offset \in Nat, offset < Len(s)
    PROVE  /\ Batched(s) \in Seq(S)
           /\ Len(Batched(s)) \in Nat /\ Len(Batched(s)) >= 1
           /\ offset + Len(Batched(s)) <= Len(s)
<1> DEFINE count == Smaller(Batch, Len(s) - offset)
<1>1. count \in Nat /\ count >= 1 /\ offset + count <= Len(s)
  BY GenerationAssumption DEF GenerationAssumption, Smaller
<1>2. Batched(s) = SubSeq(s, offset + 1, offset + count)
  BY DEF Batched
<1> HIDE DEF count
<1>3. Batched(s) \in Seq(S) /\ Len(Batched(s)) = count
  BY <1>1, <1>2
<1> QED BY <1>1, <1>3

\* So is a chunk.
LEMMA ChunkLength ==
    ASSUME prompt \in Seq(Symbols), offset \in Nat, offset < Len(prompt)
    PROVE  /\ ChunkEnd \in Nat /\ offset < ChunkEnd /\ ChunkEnd <= Len(prompt)
           /\ Chunk \in Seq(Symbols) /\ Len(Chunk) = ChunkEnd - offset
<1> DEFINE left == offset + 1 .. Len(prompt)
           run  == {n \in left : \A i \in offset + 1 .. n : prompt[i] # Image}
<1>1. IsFiniteSet(left) /\ Cardinality(left) = Len(prompt) - offset
  BY FS_Interval
<1>2. IsFiniteSet(run) /\ Cardinality(run) <= Cardinality(left)
  BY <1>1, FS_Subset
<1>3. Cardinality(run) \in Nat
  BY <1>2, FS_CardinalityType
<1>4. TextTokens \in Nat /\ TextTokens <= Len(prompt) - offset
  BY <1>1, <1>2, <1>3 DEF TextTokens
<1>5. ChunkEnd \in Nat /\ offset < ChunkEnd /\ ChunkEnd <= Len(prompt)
  BY <1>4 DEF ChunkEnd, Larger
<1> QED BY <1>5 DEF Chunk

-----------------------------------------------------------------------------
(***************************************************************************)
(* The steps.                                                              *)
(***************************************************************************)

\* An emptied sequence has no cells.
LEMMA NoCells == DOMAIN <<>> = {} /\ <<>> \in Seq(Symbols)
OBVIOUS

\* A run starts on an empty or an untouched sequence.
LEMMA FitInvInit == Init => FitInv
<1> SUFFICES ASSUME Init PROVE FitInv
  OBVIOUS
<1>1. LocalTypes
  BY NoCells DEF Init, LocalTypes, Symbols
<1>2. FitsContext
  BY NoCells DEF Init, FitsContext
<1>3. pc = "idle"
  BY DEF Init
<1> QED BY <1>1, <1>2, <1>3 DEF FitInv, ReuseRoom, PrefillRoom, ChunkRoom,
                               LoopRoom, RebuildRoom

\* The inputs of a run.
LEMMA PromptTypes ==
    /\ \A p \in Texts : p \in Seq(Symbols)
    /\ \A p \in WithImages : /\ p \in Seq(Symbols) /\ Len(p) >= 1
                             /\ \E i \in 1 .. Len(p) : p[i] = Image
<1>1. ASSUME NEW p \in Texts PROVE p \in Seq(Symbols)
  BY <1>1, GenerationAssumption DEF Texts, Symbols, Vocab, GenerationAssumption
<1>2. ASSUME NEW p \in WithImages PROVE p \in Seq(Symbols) /\ Len(p) >= 1
  BY <1>2, GenerationAssumption DEF WithImages, Symbols, Vocab, GenerationAssumption
<1>3. ASSUME NEW p \in WithImages PROVE \E i \in 1 .. Len(p) : p[i] = Image
  <2>1. \E i \in DOMAIN p : p[i] = Image
    BY DEF WithImages, Range
  <2> QED BY <1>2, <2>1
<1> QED BY <1>1, <1>2, <1>3

\* Every step of a run keeps the window in the slot.
LEMMA FitInvNext ==
    ASSUME FitInv, [Next]_vars
    PROVE  FitInv'
<1> USE DEF FitInv, LocalTypes, FitsContext, ReuseRoom, PrefillRoom, ChunkRoom,
            LoopRoom, RebuildRoom, CellsBelow, memVars, runVars, winVars, outVars
<1>0. Context \in Nat /\ None \in Symbols /\ Vocab \subseteq Symbols
  BY GenerationAssumption DEF GenerationAssumption, Symbols
<1>1. ASSUME NEW p \in Texts, NEW limit \in Limits, Submit(p, limit)
      PROVE  FitInv'
  <2>1. p \in Seq(Symbols)
    BY PromptTypes
  <2>2. CASE p = <<>>
    <3>1. FitPromptContext(p) = p
      BY <1>0, <2>2 DEF FitPromptContext
    <3> QED BY <1>0, <1>1, <2>2, <3>1, NoCells DEF Submit
  <2>3. CASE p # <<>>
    <3> DEFINE fit == FitPromptContext(p)
    <3>1. fit \in Seq(Symbols) /\ Len(fit) \in Nat /\ Len(fit) >= 1
      BY <2>1, <2>3, FitType
    <3>2. /\ prompt' = fit /\ offset' = 0 /\ evaluated' = <<>> /\ n_past' = 0
          /\ token' = None /\ images' = FALSE /\ UNCHANGED <<kv, cached>>
          /\ pc' \in {"ended", "reuse"}
      BY <1>0, <1>1, <2>3 DEF Submit
    <3>3. pc' = "reuse" => Len(fit) < Context
      <4>1. pc' = "reuse" => ~(Len(fit) >= Context)
        BY <1>1 DEF Submit
      <4> QED BY <1>0, <3>1, <4>1
    <3> HIDE DEF fit
    <3>4. LocalTypes' /\ FitsContext'
      BY <1>0, <3>1, <3>2, NoCells
    <3> QED BY <1>0, <3>1, <3>2, <3>3, <3>4
  <2> QED BY <2>2, <2>3
<1>2. ASSUME NEW p \in WithImages, NEW limit \in Limits, SubmitImages(p, limit)
      PROVE  FitInv'
  <2>1. /\ p \in Seq(Symbols) /\ Len(p) >= 1
        /\ \E i \in 1 .. Len(p) : p[i] = Image
    BY PromptTypes
  <2> QED BY <1>0, <1>2, <2>1, NoCells DEF SubmitImages
<1>3. CASE Reuse
  <2> DEFINE reuse == IF cache_valid THEN ReusablePromptTokens(cached, prompt) ELSE 0
  <2>1. pc = "reuse" /\ Len(prompt) >= 1
    BY <1>3 DEF Reuse
  <2>2. reuse \in Nat /\ reuse <= Len(prompt) - 1
    BY <2>1, ReuseBound
  <2> HIDE DEF reuse
  <2>3. ASSUME kv' = Restrict(kv, {q \in DOMAIN kv : q < reuse})
        PROVE  DOMAIN kv' \subseteq 0 .. reuse - 1 /\ DOMAIN kv' \subseteq DOMAIN kv
    BY <1>0, <2>2, <2>3 DEF Restrict
  <2>4. CASE reuse > 0 /\ kv' = Restrict(kv, {q \in DOMAIN kv : q < reuse})
             /\ offset' = reuse /\ pc' = "prefill"
    BY <1>3, <2>1, <2>2, <2>3, <2>4 DEF Reuse
  <2>5. CASE kv' = <<>> /\ offset' = 0 /\ pc' = "prefill"
    BY <1>0, <1>3, <2>1, <2>5, NoCells DEF Reuse
  <2>6. CASE pc' = "ended" /\ UNCHANGED <<kv, offset>>
    BY <1>3, <2>6 DEF Reuse
  <2> QED BY <1>3, <2>4, <2>5, <2>6 DEF Reuse, reuse
<1>4. ASSUME NEW t \in Vocab, PrefillBatch(t) PROVE FitInv'
  <2>1. /\ Batched(prompt) \in Seq(Symbols)
        /\ Len(Batched(prompt)) \in Nat /\ Len(Batched(prompt)) >= 1
        /\ offset + Len(Batched(prompt)) <= Len(prompt)
    BY <1>4, BatchLength DEF PrefillBatch
  <2>2. DOMAIN kv' \subseteq 0 .. offset' - 1
    <3>1. kv' = Decode(kv, offset, Batched(prompt)) /\ DOMAIN kv \subseteq 0 .. offset - 1
      BY <1>4 DEF PrefillBatch
    <3>2. DOMAIN kv' \subseteq 0 .. offset + Len(Batched(prompt)) - 1
      BY <2>1, <3>1, DecodeCells
    <3> QED BY <1>4, <2>1, <3>2 DEF PrefillBatch
  <2> QED BY <1>0, <1>4, <2>1, <2>2 DEF PrefillBatch
<1>5. CASE PrefillFails
  <2>1. /\ Batched(prompt) \in Seq(Symbols)
        /\ Len(Batched(prompt)) \in Nat
        /\ offset + Len(Batched(prompt)) <= Len(prompt)
    BY <1>5, BatchLength DEF PrefillFails
  <2>2. DOMAIN kv' \subseteq 0 .. offset + Len(Batched(prompt)) - 1
    BY <1>5, <2>1, FailCells DEF PrefillFails
  <2> QED BY <1>0, <1>5, <2>1, <2>2 DEF PrefillFails
<1>6. CASE PrefillDone
  BY <1>0, <1>6 DEF PrefillDone
<1>7. ASSUME NEW t \in Vocab, EvalChunk(t) PROVE FitInv'
  <2>1. /\ ChunkEnd \in Nat /\ offset < ChunkEnd /\ ChunkEnd <= Len(prompt)
        /\ Chunk \in Seq(Symbols) /\ Len(Chunk) = ChunkEnd - offset
    BY <1>7, ChunkLength DEF EvalChunk
  <2>2. DOMAIN kv' \subseteq 0 .. ChunkEnd - 1
    <3>1. kv' = Decode(kv, n_past, Chunk) /\ DOMAIN kv \subseteq 0 .. n_past - 1
      BY <1>7 DEF EvalChunk
    <3>2. DOMAIN kv' \subseteq 0 .. n_past + Len(Chunk) - 1
      BY <2>1, <3>1, DecodeCells
    <3> QED BY <1>7, <2>1, <3>2 DEF EvalChunk
  <2>3. images /\ token = None /\ None \notin Vocab
    BY <1>7, GenerationAssumption DEF EvalChunk, GenerationAssumption, Vocab
  <2>4. pc' = "loop" => 1 < Context
    <3> SUFFICES ASSUME pc' = "loop" PROVE 1 < Context
      OBVIOUS
    <3>1. ChunkEnd = Len(prompt) /\ Last(Chunk) # Image
      BY <1>7, <2>1, <2>3 DEF EvalChunk
    <3>2. Last(Chunk) = prompt[Len(prompt)]
      <4>1. Len(Chunk) = ChunkEnd - offset /\ prompt \in Seq(Symbols) /\ offset \in Nat
        BY <2>1
      <4>2. SubSeq(prompt, offset + 1, ChunkEnd)[ChunkEnd - offset] = prompt[ChunkEnd]
        BY <2>1, <4>1
      <4> QED BY <3>1, <4>1, <4>2 DEF Chunk, Last
    <3>3. PICK i \in 1 .. Len(prompt) : prompt[i] = Image
      BY <1>7 DEF EvalChunk
    <3>4. i # Len(prompt)
      BY <3>1, <3>2, <3>3
    <3> QED BY <1>0, <1>7, <3>3, <3>4 DEF EvalChunk
  <2>5. /\ pc' \in {"chunks", "ended", "loop"}
        /\ pc' = "chunks" => ChunkEnd < Len(prompt) /\ token' = None
        /\ token' \in Symbols
        /\ offset' = ChunkEnd /\ n_past' = ChunkEnd
        /\ UNCHANGED <<prompt, evaluated, cached, images>>
    BY <1>0, <1>7, <2>1, <2>3 DEF EvalChunk
  <2> QED BY <1>0, <1>7, <2>1, <2>2, <2>3, <2>4, <2>5 DEF EvalChunk
<1>8. CASE EvalChunkFails
  <2>1. /\ ChunkEnd \in Nat /\ offset < ChunkEnd /\ ChunkEnd <= Len(prompt)
        /\ Chunk \in Seq(Symbols) /\ Len(Chunk) = ChunkEnd - offset
    BY <1>8, ChunkLength DEF EvalChunkFails
  <2>2. DOMAIN kv' \subseteq 0 .. ChunkEnd - 1
    <3>1. DOMAIN kv' \subseteq 0 .. n_past + Len(Chunk) - 1
      BY <1>8, <2>1, FailCells DEF EvalChunkFails
    <3> QED BY <1>8, <2>1, <3>1 DEF EvalChunkFails
  <2> QED BY <1>0, <1>8, <2>1, <2>2 DEF EvalChunkFails
<1>9. CASE Stopped
  BY <1>9 DEF Stopped
<1>10. CASE Emit
  BY <1>10 DEF Emit
<1>11. CASE Slide
  <2>1. /\ Discard \in Nat /\ Discard > 0 /\ n_past = Context
        /\ Discard <= n_past - 1
    BY <1>0, <1>11, DiscardBound DEF Slide, Discard
  <2>2. DOMAIN SeqRm(kv, 1, 1 + Discard)
            = {q \in DOMAIN kv : q < 1 \/ q >= 1 + Discard}
    BY DEF SeqRm, Restrict
  <2>3. DOMAIN kv' \subseteq 0 .. n_past' - 1
    BY <1>0, <1>11, <2>1, <2>2 DEF Slide, SeqAdd
  <2>4. ~images => /\ evaluated' \in Seq(Symbols)
                   /\ Len(evaluated') = n_past'
    BY <1>11, <2>1, TrimLength DEF Slide
  <2> QED BY <1>0, <1>11, <2>1, <2>3, <2>4 DEF Slide
<1>12. CASE Rebuild
  <2>1. /\ Discard \in Nat /\ Discard > 0 /\ n_past = Context
        /\ Discard <= n_past - 1
    BY <1>0, <1>12, DiscardBound DEF Rebuild, Discard
  <2>2. /\ evaluated' \in Seq(Symbols)
        /\ Len(evaluated') = n_past - Discard
    BY <1>12, <2>1, TrimLength DEF Rebuild
  <2> QED BY <1>0, <1>12, <2>1, <2>2, NoCells DEF Rebuild
<1>13. CASE NoRoom
  BY <1>13 DEF NoRoom
<1>14. CASE RebuildBatch
  <2>1. /\ Batched(evaluated) \in Seq(Symbols)
        /\ Len(Batched(evaluated)) \in Nat /\ Len(Batched(evaluated)) >= 1
        /\ offset + Len(Batched(evaluated)) <= Len(evaluated)
    BY <1>14, BatchLength DEF RebuildBatch
  <2>2. DOMAIN kv' \subseteq 0 .. offset' - 1
    <3>1. kv' = Decode(kv, offset, Batched(evaluated)) /\ DOMAIN kv \subseteq 0 .. offset - 1
      BY <1>14 DEF RebuildBatch
    <3>2. DOMAIN kv' \subseteq 0 .. offset + Len(Batched(evaluated)) - 1
      BY <2>1, <3>1, DecodeCells
    <3> QED BY <1>14, <2>1, <3>2 DEF RebuildBatch
  <2> QED BY <1>0, <1>14, <2>1, <2>2 DEF RebuildBatch
<1>15. CASE RebuildFails
  <2>1. /\ Batched(evaluated) \in Seq(Symbols)
        /\ Len(Batched(evaluated)) \in Nat
        /\ offset + Len(Batched(evaluated)) <= Len(evaluated)
    BY <1>15, BatchLength DEF RebuildFails
  <2>2. DOMAIN kv' \subseteq 0 .. offset + Len(Batched(evaluated)) - 1
    BY <1>15, <2>1, FailCells DEF RebuildFails
  <2> QED BY <1>0, <1>15, <2>1, <2>2 DEF RebuildFails
<1>16. ASSUME NEW t \in Vocab, DecodeToken(t) PROVE FitInv'
  <2>1. n_past < Context
    BY <1>0, <1>16, DiscardBound DEF DecodeToken, Discard
  <2>2. <<token>> \in Seq(Symbols) /\ Len(<<token>>) = 1
    OBVIOUS
  <2>3. DOMAIN kv' \subseteq 0 .. n_past' - 1
    <3>1. kv' = Decode(kv, n_past, <<token>>) /\ DOMAIN kv \subseteq 0 .. n_past - 1
      BY <1>16 DEF DecodeToken
    <3>2. DOMAIN kv' \subseteq 0 .. n_past + Len(<<token>>) - 1
      BY <2>2, <3>1, DecodeCells
    <3> QED BY <1>16, <2>2, <3>2 DEF DecodeToken
  <2> QED BY <1>0, <1>16, <2>1, <2>3 DEF DecodeToken
<1>17. CASE DecodeTokenFails
  BY <1>17 DEF DecodeTokenFails
<1>18. CASE Finish
  BY <1>18 DEF Finish
<1>19. ASSUME NEW owned \in BOOLEAN, ReleaseSlot(owned) PROVE FitInv'
  BY <1>0, <1>19, NoCells DEF ReleaseSlot
<1>20. CASE UNCHANGED vars
  BY <1>20 DEF vars
<1> QED BY <1>1, <1>2, <1>3, <1>4, <1>5, <1>6, <1>7, <1>8, <1>9, <1>10, <1>11,
           <1>12, <1>13, <1>14, <1>15, <1>16, <1>17, <1>18, <1>19, <1>20 DEF Next

\* No token is decoded past the positions of the slot: the check of
\* GenerationWindowDiscard before each decode, and the lengths it leaves,
\* suffice whatever the memory refuses and wherever the run is stopped.
THEOREM WindowFits == Spec => []FitsContext
<1>1. FitInv /\ [Next]_vars => FitInv'
  BY FitInvNext
<1>2. FitInv => FitsContext
  BY DEF FitInv
<1> QED BY FitInvInit, <1>1, <1>2, PTL DEF Spec
=============================================================================
