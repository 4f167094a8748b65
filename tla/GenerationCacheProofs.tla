----------------------- MODULE GenerationCacheProofs ------------------------
(***************************************************************************)
(* What the cells of a sequence hold while a run generates, and what the   *)
(* tokens it leaves behind promise the next run, for every context length, *)
(* batch size, prompt, output and number of runs.                          *)
(*                                                                         *)
(* The cells are a prefix of the prompt, then of the evaluated tokens, as  *)
(* long as every decode starts where the last one ended; the window slides *)
(* them away from what they attended to, and from then on only the token   *)
(* of each cell is known.  That is what cache_valid tells apart.           *)
(***************************************************************************)
EXTENDS GenerationProofs, SequenceTheorems

Window == {"loop", "decode", "finished"}
MidRun == {"prefill", "chunks", "rebuild"} \cup Window

-----------------------------------------------------------------------------
(***************************************************************************)
(* A decode that starts where the cells end.                               *)
(***************************************************************************)
LEMMA BelowCount ==
    ASSUME NEW p \in Nat, NEW below, below = 0 .. p - 1
    PROVE  /\ Cardinality(below) = p
           /\ \A q \in below : Cardinality({r \in below : r < q}) = q
<1>1. ASSUME NEW n \in Nat PROVE Cardinality(0 .. n - 1) = n
  BY FS_Interval
<1>2. ASSUME NEW q \in 0 .. p - 1 PROVE Cardinality({r \in below : r < q}) = q
  <2>1. {r \in below : r < q} = 0 .. q - 1
    OBVIOUS
  <2>2. Cardinality(0 .. q - 1) = q
    BY <1>1
  <2> QED BY <2>1, <2>2
<1> QED BY <1>1, <1>2

\* The tokens of the cells below p, and what a new cell at q makes of them.
Seen(m, p)          == [i \in 1 .. p |-> Last(m[i - 1])]
NewCell(m, p, s, q) == Seen(m, p) \o SubSeq(s, 1, q - p + 1)

\* Each new cell holds what was seen and its part of the batch.
LEMMA DecodeHere ==
    ASSUME NEW m, NEW p \in Nat, NEW S, NEW s \in Seq(S), DOMAIN m = 0 .. p - 1
    PROVE  /\ DOMAIN Decode(m, p, s) = 0 .. p + Len(s) - 1
           /\ \A q \in 0 .. p - 1 : Decode(m, p, s)[q] = m[q]
           /\ \A q \in p .. p + Len(s) - 1 :
                Decode(m, p, s)[q] = NewCell(m, p, s, q)
<1> DEFINE below    == {q \in DOMAIN m : q < p}
           count(q) == Cardinality({r \in below : r < q})
           At(i)    == CHOOSE q \in below : count(q) = i - 1
           seen     == [i \in 1 .. Cardinality(below) |-> Last(m[At(i)])]
<1>1. below = 0 .. p - 1
  OBVIOUS
<1>2. Cardinality(below) = p /\ \A i \in 1 .. p : At(i) = i - 1
  <2>1. Cardinality(below) = p /\ \A q \in below : count(q) = q
    <3> HIDE DEF below
    <3> QED BY <1>1, BelowCount
  <2> HIDE DEF below, count
  <2>2. ASSUME NEW i \in 1 .. p PROVE At(i) = i - 1
    <3>1. \A q \in below : count(q) = i - 1 <=> q = i - 1
      BY <1>1, <2>1
    <3>2. i - 1 \in below
      BY <1>1
    <3> QED BY <3>1, <3>2
  <2> QED BY <2>1, <2>2
<1>3. seen = Seen(m, p)
  <2> HIDE DEF below, At
  <2> QED BY <1>2 DEF Seen
<1>4. Decode(m, p, s) =
        [q \in DOMAIN m \cup p .. p + Len(s) - 1 |->
            IF q \in p .. p + Len(s) - 1 THEN seen \o SubSeq(s, 1, q - p + 1) ELSE m[q]]
  BY DEF Decode
<1> HIDE DEF seen
<1>5. Len(s) \in Nat
  OBVIOUS
<1> QED BY <1>3, <1>4, <1>5 DEF NewCell

\* The cells 0 .. k - 1 hold what a prefill of w computes.
Prefix(m, w, k) ==
    /\ DOMAIN m = 0 .. k - 1
    /\ \A i \in 1 .. k : m[i - 1] = SubSeq(w, 1, i)

LEMMA SeenPrefix ==
    ASSUME NEW m, NEW S, NEW w \in Seq(S), NEW k \in 0 .. Len(w), Prefix(m, w, k)
    PROVE  Seen(m, k) = SubSeq(w, 1, k)
<1>0. Len(w) \in Nat
  OBVIOUS
<1>1. SubSeq(w, 1, k) \in Seq(S) /\ Len(SubSeq(w, 1, k)) = k
      /\ \A i \in 1 .. k : SubSeq(w, 1, k)[i] = w[i]
  BY <1>0
<1>2. ASSUME NEW i \in 1 .. k PROVE Last(m[i - 1]) = w[i]
  <2>1. m[i - 1] = SubSeq(w, 1, i)
    BY DEF Prefix
  <2>2. Len(SubSeq(w, 1, i)) = i /\ SubSeq(w, 1, i)[i] = w[i]
    BY <1>0
  <2> QED BY <2>1, <2>2 DEF Last
<1>3. Seen(m, k) \in Seq(S) /\ Len(Seen(m, k)) = k
      /\ \A i \in 1 .. k : Seen(m, k)[i] = w[i]
  <2>1. \A i \in 1 .. k : w[i] \in S
    BY <1>0
  <2>2. k \in Nat /\ Seen(m, k) \in [1 .. k -> S]
    <3>1. \A i \in 1 .. k : Last(m[i - 1]) \in S
      BY <1>2, <2>1
    <3> QED BY <1>0, <3>1 DEF Seen
  <2>3. \A i \in 1 .. k : Seen(m, k)[i] = w[i]
    BY <1>2 DEF Seen
  <2> QED BY <2>2, <2>3
<1> DEFINE seen == Seen(m, k)
           part == SubSeq(w, 1, k)
<1> HIDE DEF seen, part
<1>4. /\ seen \in Seq(S) /\ part \in Seq(S) /\ Len(seen) = k /\ Len(part) = k
      /\ \A i \in 1 .. k : seen[i] = part[i]
  BY <1>1, <1>3 DEF seen, part
<1>5. seen = part
  BY <1>4, SeqEqual
<1> QED BY <1>5 DEF seen, part

\* Decoding the next tokens of w keeps the cells those of a prefill of w.
LEMMA DecodePrefix ==
    ASSUME NEW m, NEW S, NEW w \in Seq(S), NEW k \in Nat, NEW b \in Nat,
           k + b <= Len(w), Prefix(m, w, k)
    PROVE  Prefix(Decode(m, k, SubSeq(w, k + 1, k + b)), w, k + b)
<1> DEFINE s == SubSeq(w, k + 1, k + b)
           d == Decode(m, k, s)
<1>0. Len(w) \in Nat /\ k \in 0 .. Len(w)
  OBVIOUS
<1>1. s \in Seq(S) /\ Len(s) = b
  BY <1>0
<1>2. DOMAIN m = 0 .. k - 1 /\ \A i \in 1 .. k : m[i - 1] = SubSeq(w, 1, i)
  BY DEF Prefix
<1> HIDE DEF s
<1>3. /\ DOMAIN d = 0 .. k + b - 1
      /\ \A q \in 0 .. k - 1 : d[q] = m[q]
      /\ \A q \in k .. k + b - 1 : d[q] = NewCell(m, k, s, q)
  <2>1. s \in Seq(S) /\ DOMAIN m = 0 .. k - 1
    BY <1>1, <1>2
  <2>2. DOMAIN Decode(m, k, s) = 0 .. k + Len(s) - 1
    BY <2>1, DecodeHere
  <2>3. \A q \in 0 .. k - 1 : Decode(m, k, s)[q] = m[q]
    BY <2>1, DecodeHere
  <2>4. \A q \in k .. k + Len(s) - 1 :
           Decode(m, k, s)[q] = NewCell(m, k, s, q)
    BY <2>1, DecodeHere
  <2> QED BY <1>1, <2>2, <2>3, <2>4 DEF d
<1>4. Seen(m, k) = SubSeq(w, 1, k)
  BY <1>0, SeenPrefix
<1> HIDE DEF d
<1>5. ASSUME NEW i \in 1 .. k + b PROVE d[i - 1] = SubSeq(w, 1, i)
  <2>1. CASE i <= k
    BY <1>2, <1>3, <2>1
  <2>2. CASE i > k
    <3> DEFINE j == i - k
    <3>1. j \in 1 .. b /\ i - 1 \in k .. k + b - 1 /\ (i - 1) - k + 1 = j /\ i = k + j
      BY <2>2
    <3> HIDE DEF j
    <3>2. d[i - 1] = SubSeq(w, 1, k) \o SubSeq(s, 1, j)
      BY <1>3, <1>4, <3>1 DEF NewCell
    <3>3. SubSeq(s, 1, j) = SubSeq(w, k + 1, k + j)
      BY <1>0, <1>1, <3>1 DEF s
    <3>4. SubSeq(w, 1, k) \o SubSeq(w, k + 1, k + j) = SubSeq(w, 1, k + j)
      BY <1>0, <3>1, ConcatAdjacentSubSeq
    <3> QED BY <3>1, <3>2, <3>3, <3>4
  <2> QED BY <2>1, <2>2
<1>6. DOMAIN d = 0 .. (k + b) - 1
  BY <1>3
<1>7. Prefix(d, w, k + b)
  BY <1>5, <1>6 DEF Prefix
<1> QED BY <1>7 DEF d, s

\* A prefix of a longer text is one of the text it begins.
LEMMA PrefixOfLonger ==
    ASSUME NEW m, NEW S, NEW w \in Seq(S), NEW v \in Seq(S), NEW k \in Nat,
           k <= Len(w), k <= Len(v), \A i \in 1 .. k : w[i] = v[i], Prefix(m, w, k)
    PROVE  Prefix(m, v, k)
<1>1. ASSUME NEW i \in 1 .. k PROVE SubSeq(w, 1, i) = SubSeq(v, 1, i)
  <2>0. Len(w) \in Nat /\ Len(v) \in Nat
    OBVIOUS
  <2>1. /\ SubSeq(w, 1, i) \in Seq(S) /\ SubSeq(v, 1, i) \in Seq(S)
        /\ Len(SubSeq(w, 1, i)) = i /\ Len(SubSeq(v, 1, i)) = i
        /\ \A j \in 1 .. i : SubSeq(w, 1, i)[j] = w[j] /\ SubSeq(v, 1, i)[j] = v[j]
    BY <2>0
  <2>2. \A j \in 1 .. i : SubSeq(w, 1, i)[j] = SubSeq(v, 1, i)[j]
    BY <2>1
  <2> QED BY <2>1, <2>2, SeqEqual
<1> QED BY <1>1 DEF Prefix

\* What is reused is a common prefix of the cached tokens and the prompt: the
\* lengths of the common prefixes are counted, and they are the first ones.
LEMMA ReuseOfCached ==
    ASSUME NEW c \in Seq(Symbols), NEW p \in Seq(Symbols), Len(p) >= 1
    PROVE  /\ ReusablePromptTokens(c, p) <= Len(c)
           /\ \A i \in 1 .. ReusablePromptTokens(c, p) : c[i] = p[i]
<1> DEFINE limit  == Smaller(Len(c), Len(p) - 1)
           common == {n \in 1 .. limit : \A i \in 1 .. n : c[i] = p[i]}
           k      == Cardinality(common)
<1>1. limit \in Nat /\ limit <= Len(c)
  BY DEF Smaller
<1> HIDE DEF limit
<1>2. IsFiniteSet(1 .. limit) /\ Cardinality(1 .. limit) = limit
  BY <1>1, FS_Interval
<1>3. IsFiniteSet(common) /\ Cardinality(common) <= Cardinality(1 .. limit)
  BY <1>2, FS_Subset
<1>4. k \in Nat /\ k <= limit
  BY <1>2, <1>3, FS_CardinalityType
<1>5. ASSUME k > 0 PROVE k \in common
  <2> SUFFICES ASSUME k \notin common PROVE FALSE
    OBVIOUS
  <2>1. ASSUME NEW n \in common PROVE n \in 1 .. k - 1
    <3>1. n \in 1 .. limit /\ \A i \in 1 .. n : c[i] = p[i]
      OBVIOUS
    <3>2. ~(n >= k)
      <4> SUFFICES ASSUME n >= k PROVE FALSE
        OBVIOUS
      <4>1. \A i \in 1 .. k : c[i] = p[i]
        BY <1>4, <3>1
      <4>2. k \in 1 .. limit
        BY <1>1, <1>4, <1>5
      <4>3. k \in common
        BY <4>1, <4>2
      <4> QED BY <4>3
    <3> QED BY <1>4, <3>1, <3>2
  <2>2. common \in SUBSET (1 .. k - 1)
    BY <2>1
  <2>3. IsFiniteSet(1 .. k - 1) /\ Cardinality(1 .. k - 1) = k - 1
    <3>1. \A n \in Nat : n > 0 => IsFiniteSet(1 .. n - 1) /\ Cardinality(1 .. n - 1) = n - 1
      BY FS_Interval
    <3> QED BY <1>4, <1>5, <3>1
  <2>4. k <= k - 1
    BY <2>2, <2>3, FS_Subset
  <2> QED BY <1>4, <2>4
<1>6. k = ReusablePromptTokens(c, p)
  BY DEF ReusablePromptTokens, limit
<1>7. \A i \in 1 .. k : c[i] = p[i]
  <2>1. CASE k > 0
    BY <1>5, <2>1
  <2>2. CASE k = 0
    BY <2>2
  <2> HIDE DEF k
  <2> QED BY <1>4, <2>1, <2>2
<1>8. k <= Len(c)
  BY <1>1, <1>4
<1> HIDE DEF k
<1> QED BY <1>6, <1>7, <1>8

-----------------------------------------------------------------------------
(***************************************************************************)
(* The first token is sampled.                                             *)
(***************************************************************************)
SampleInv ==
    /\ pc = "prefill" /\ offset = Len(prompt) => token # None
    /\ pc \in Window \cup {"rebuild"} => token # None

LEMMA SampleInit == Init => SampleInv
  BY DEF Init, SampleInv, Window

LEMMA SampleNext == FitInv /\ SampleInv /\ [Next]_vars => SampleInv'
<1> SUFFICES ASSUME FitInv, SampleInv, [Next]_vars PROVE SampleInv'
  OBVIOUS
<1> USE DEF SampleInv, Window, memVars, runVars, winVars, outVars
<1>0. \A t \in Vocab : t # None
  BY GenerationAssumption DEF GenerationAssumption, Vocab
<1>1. ASSUME NEW p \in Texts, NEW limit \in Limits, Submit(p, limit) PROVE SampleInv'
  BY <1>1 DEF Submit
<1>2. ASSUME NEW p \in WithImages, NEW limit \in Limits, SubmitImages(p, limit)
      PROVE  SampleInv'
  BY <1>2 DEF SubmitImages
<1>3. CASE Reuse
  <2>1. pc' \in {"prefill", "ended"} /\ prompt' = prompt
    BY <1>3 DEF Reuse
  <2>2. prompt \in Seq(Symbols) /\ cached \in Seq(Symbols) /\ Len(prompt) >= 1
    BY <1>3 DEF Reuse, FitInv, LocalTypes, ReuseRoom
  <2>3. pc' = "prefill" => offset' # Len(prompt)
    BY <1>3, <2>2, ReuseBound DEF Reuse
  <2> QED BY <2>1, <2>3
<1>4. ASSUME NEW t \in Vocab, PrefillBatch(t) \/ EvalChunk(t) \/ DecodeToken(t)
      PROVE  SampleInv'
  BY <1>0, <1>4 DEF PrefillBatch, EvalChunk, DecodeToken
<1>5. CASE PrefillDone
  BY <1>5 DEF PrefillDone
<1>6. CASE PrefillFails \/ EvalChunkFails \/ Stopped \/ RebuildFails \/ DecodeTokenFails
           \/ Finish \/ NoRoom
  BY <1>6 DEF PrefillFails, EvalChunkFails, Stopped, RebuildFails, DecodeTokenFails,
              Finish, NoRoom
<1>7. CASE Emit \/ Slide \/ Rebuild \/ RebuildBatch
  BY <1>7 DEF Emit, Slide, Rebuild, RebuildBatch
<1>8. ASSUME NEW owned \in BOOLEAN, ReleaseSlot(owned) PROVE SampleInv'
  BY <1>8 DEF ReleaseSlot
<1>9. CASE UNCHANGED vars
  BY <1>9 DEF vars
<1> QED BY <1>1, <1>2, <1>3, <1>4, <1>5, <1>6, <1>7, <1>8, <1>9 DEF Next

\* The loop never emits a token that no decode of the run has sampled: reuse
\* leaves the last token of the prompt to compute.
THEOREM AlwaysStartsSampled == Spec => []AlwaysSampled
<1>1. SampleInv => AlwaysSampled
  BY DEF SampleInv, AlwaysSampled, Window
<1>2. FitInv /\ [Next]_vars => FitInv'
  BY FitInvNext
<1> QED BY <1>1, <1>2, FitInvInit, SampleInit, SampleNext, PTL DEF Spec

-----------------------------------------------------------------------------
(***************************************************************************)
(* Types, and where the cells end.                                         *)
(***************************************************************************)
CellTypes(m) == \A q \in DOMAIN m : m[q] \in Cells \ {<<>>}

LEMMA SeenTypes ==
    ASSUME NEW m, NEW p \in Nat, DOMAIN m = 0 .. p - 1, CellTypes(m)
    PROVE  Seen(m, p) \in Cells
<1>1. \A i \in 1 .. p : m[i - 1] \in Cells \ {<<>>}
  BY DEF CellTypes
<1>2. \A c \in Cells \ {<<>>} : Last(c) \in Vocab \cup {Image}
  BY DEF Cells, Last
<1>3. \A i \in 1 .. p : Last(m[i - 1]) \in Vocab \cup {Image}
  BY <1>1, <1>2
<1> QED BY <1>3 DEF Seen, Cells

\* Decoding typed tokens adds typed cells.
LEMMA DecodeTypes ==
    ASSUME NEW m, NEW p \in Nat, NEW s \in Cells, DOMAIN m = 0 .. p - 1, CellTypes(m)
    PROVE  /\ DOMAIN Decode(m, p, s) = 0 .. p + Len(s) - 1
           /\ CellTypes(Decode(m, p, s))
<1> DEFINE d == Decode(m, p, s)
<1>0. Len(s) \in Nat
  BY DEF Cells
<1>1. /\ DOMAIN d = 0 .. p + Len(s) - 1
      /\ \A q \in 0 .. p - 1 : d[q] = m[q]
      /\ \A q \in p .. p + Len(s) - 1 : d[q] = NewCell(m, p, s, q)
  BY DecodeHere DEF Cells
<1>2. Seen(m, p) \in Cells
  BY SeenTypes
<1>3. ASSUME NEW q \in p .. p + Len(s) - 1 PROVE NewCell(m, p, s, q) \in Cells \ {<<>>}
  <2> DEFINE part == SubSeq(s, 1, q - p + 1)
  <2>1. q - p + 1 \in 1 .. Len(s)
    BY <1>0
  <2>2. part \in Cells /\ Len(part) = q - p + 1
    BY <2>1 DEF Cells
  <2>3. NewCell(m, p, s, q) = Seen(m, p) \o part
    BY DEF NewCell
  <2> HIDE DEF part
  <2>4. Seen(m, p) \o part \in Cells /\ Len(Seen(m, p) \o part) = Len(Seen(m, p)) + Len(part)
    BY <1>2, <2>2, ConcatProperties DEF Cells
  <2>5. Len(Seen(m, p)) \in Nat
    BY <1>2 DEF Cells
  <2>6. Len(Seen(m, p) \o part) > 0
    BY <2>1, <2>2, <2>4, <2>5
  <2>7. Seen(m, p) \o part # <<>>
    BY <2>6
  <2> QED BY <2>3, <2>4, <2>7
<1> HIDE DEF d
<1>4. ASSUME NEW q \in 0 .. p + Len(s) - 1 PROVE d[q] \in Cells \ {<<>>}
  <2>1. CASE q < p
    <3>1. q \in 0 .. p - 1
      BY <2>1
    <3>2. d[q] = m[q] /\ m[q] \in Cells \ {<<>>}
      BY <1>1, <3>1 DEF CellTypes
    <3> QED BY <3>2
  <2>2. CASE q >= p
    BY <1>0, <1>1, <1>3, <2>2
  <2> QED BY <2>1, <2>2
<1>5. CellTypes(d)
  BY <1>1, <1>4 DEF CellTypes
<1> QED BY <1>1, <1>5 DEF d

LEMMA FailTypes ==
    ASSUME NEW m, NEW p \in Nat, NEW s \in Cells, DOMAIN m = 0 .. p - 1, CellTypes(m),
           NEW f \in DecodeFails(m, p, s)
    PROVE  DOMAIN f \subseteq Nat /\ CellTypes(f)
<1>1. PICK n \in 0 .. Len(s) - 1 : f = Decode(m, p, SubSeq(s, 1, n))
  BY DEF DecodeFails
<1>2. SubSeq(s, 1, n) \in Cells /\ Len(SubSeq(s, 1, n)) = n /\ n \in Nat
  BY DEF Cells
<1>3. DOMAIN f = 0 .. p + Len(SubSeq(s, 1, n)) - 1 /\ CellTypes(f)
  BY <1>1, <1>2, DecodeTypes
<1> QED BY <1>3

LocalsTyped ==
    /\ can_shift \in BOOLEAN /\ images \in BOOLEAN /\ cache_valid \in BOOLEAN
    /\ pc \in {"idle", "reuse", "prefill", "chunks", "loop", "decode", "rebuild",
               "finished", "ended"}
    /\ cached \in Cells /\ evaluated \in Cells /\ prompt \in Cells /\ text \in Cells
    /\ token \in Vocab \cup {None}
    /\ offset \in Nat /\ n_past \in Nat
    /\ generated \in Nat /\ max_tokens \in Nat /\ turns \in Nat

KvTyped == DOMAIN kv \subseteq Nat /\ CellTypes(kv)

\* The run starts every decode where the cells end.
Ends ==
    /\ pc \in {"prefill", "chunks", "rebuild"} => DOMAIN kv = 0 .. offset - 1
    /\ pc \in Window => DOMAIN kv = 0 .. n_past - 1
    /\ cached # <<>> => DOMAIN kv = 0 .. Len(cached) - 1

\* What is cached describes the sequence between two runs and no longer.
CacheUse ==
    /\ pc \in MidRun => cached = <<>>
    /\ images => ~cache_valid
    /\ pc \in {"reuse", "prefill"} => ~images

KvInv == LocalsTyped /\ KvTyped /\ Ends /\ CacheUse

LEMMA EmptyCells ==
    /\ <<>> \in Cells /\ Len(<<>>) = 0
    /\ DOMAIN <<>> = {} /\ CellTypes(<<>>) /\ 0 .. 0 - 1 = {}
  BY DEF Cells, CellTypes

LEMMA PromptCells ==
    /\ \A p \in Texts : p \in Cells
    /\ \A p \in WithImages : p \in Cells
<1>1. ASSUME NEW p \in Texts PROVE p \in Cells
  BY <1>1, GenerationAssumption DEF Texts, Cells, Vocab, GenerationAssumption
<1>2. ASSUME NEW p \in WithImages PROVE p \in Cells
  BY <1>2, GenerationAssumption DEF WithImages, Cells, Vocab, GenerationAssumption
<1> QED BY <1>1, <1>2

LEMMA LocalsInit == Init => LocalsTyped
<1> SUFFICES ASSUME Init PROVE LocalsTyped
  OBVIOUS
<1>1. can_shift \in BOOLEAN /\ images \in BOOLEAN /\ cache_valid \in BOOLEAN
  BY DEF Init
<1>2. cached = <<>> /\ evaluated = <<>> /\ prompt = <<>> /\ text = <<>> /\ token = None
  BY DEF Init
<1>3. offset = 0 /\ n_past = 0 /\ generated = 0 /\ max_tokens = 0 /\ turns = 0
      /\ pc = "idle"
  BY DEF Init
<1> QED BY <1>1, <1>2, <1>3, EmptyCells DEF LocalsTyped

LEMMA KvInit == Init => KvInv
<1> SUFFICES ASSUME Init PROVE KvInv
  OBVIOUS
<1>1. LocalsTyped
  BY LocalsInit
<1>2. KvTyped
  BY EmptyCells DEF Init, KvTyped
<1>3. Ends /\ CacheUse
  BY DEF Init, Ends, CacheUse, MidRun, Window
<1> QED BY <1>1, <1>2, <1>3 DEF KvInv

\* The locals of a run.
LEMMA LocalsNext == FitInv /\ SampleInv /\ KvInv /\ [Next]_vars => LocalsTyped'
<1> SUFFICES ASSUME FitInv, SampleInv, KvInv, [Next]_vars PROVE LocalsTyped'
  OBVIOUS
<1>0. LocalsTyped /\ Context \in Nat /\ Limits \subseteq Nat /\ Vocab \subseteq Vocab \cup {None}
  BY GenerationAssumption DEF KvInv, GenerationAssumption
<1> USE DEF LocalsTyped, memVars, runVars, winVars, outVars
<1>1. ASSUME NEW p \in Texts, NEW limit \in Limits, Submit(p, limit) PROVE LocalsTyped'
  <2> DEFINE fit == FitPromptContext(p)
  <2>1. p \in Cells
    BY PromptCells
  <2>2. fit \in Cells
    <3>1. CASE p = <<>>
      BY <1>0, <2>1, <3>1 DEF FitPromptContext
    <3>2. CASE p # <<>>
      BY <2>1, <3>2, FitType DEF Cells
    <3> QED BY <3>1, <3>2
  <2> HIDE DEF fit
  <2>3. can_shift' \in BOOLEAN /\ cache_valid' \in BOOLEAN /\ images' \in BOOLEAN
    BY <1>0, <1>1 DEF Submit
  <2>4. /\ prompt' = fit /\ text' = p /\ evaluated' = <<>> /\ UNCHANGED cached
        /\ token' = None
        /\ offset' = 0 /\ n_past' = 0 /\ generated' = 0 /\ max_tokens' = limit
        /\ turns' = turns + 1 /\ pc' \in {"ended", "reuse"}
    BY <1>1 DEF Submit, fit
  <2> QED BY <1>0, <2>1, <2>2, <2>3, <2>4, EmptyCells
<1>2. ASSUME NEW p \in WithImages, NEW limit \in Limits, SubmitImages(p, limit)
      PROVE  LocalsTyped'
  <2>1. p \in Cells
    BY PromptCells
  <2>2. can_shift' \in BOOLEAN /\ cache_valid' \in BOOLEAN /\ images' \in BOOLEAN
    BY <1>0, <1>2 DEF SubmitImages
  <2>3. /\ prompt' = p /\ text' = p /\ evaluated' = <<>> /\ cached' = <<>>
        /\ token' = None
        /\ offset' = 0 /\ n_past' = 0 /\ generated' = 0 /\ max_tokens' = limit
        /\ turns' = turns + 1 /\ pc' \in {"ended", "chunks"}
    BY <1>2 DEF SubmitImages
  <2> QED BY <1>0, <2>1, <2>2, <2>3, EmptyCells
<1>3. CASE Reuse
  <2>1. offset' \in Nat
    <3>1. /\ prompt \in Seq(Symbols) /\ cached \in Seq(Symbols) /\ Len(prompt) >= 1
          /\ offset \in Nat
      BY <1>3 DEF Reuse, FitInv, LocalTypes, ReuseRoom
    <3> QED BY <1>3, <3>1, ReuseBound DEF Reuse
  <2> QED BY <1>0, <1>3, <2>1, EmptyCells DEF Reuse
<1>4. ASSUME NEW t \in Vocab, PrefillBatch(t) PROVE LocalsTyped'
  <2>1. offset' \in Nat
    <3>1. prompt \in Seq(Symbols) /\ offset \in Nat /\ offset < Len(prompt)
      BY <1>4 DEF PrefillBatch, FitInv, LocalTypes
    <3> QED BY <1>4, <3>1, BatchLength DEF PrefillBatch
  <2> QED BY <1>0, <1>4, <2>1 DEF PrefillBatch
<1>5. CASE PrefillDone
  BY <1>0, <1>5, EmptyCells DEF PrefillDone, Cells
<1>6. ASSUME NEW t \in Vocab, EvalChunk(t) PROVE LocalsTyped'
  <2>1. ChunkEnd \in Nat
    BY <1>6, ChunkLength DEF EvalChunk, FitInv, LocalTypes, ChunkRoom
  <2> QED BY <1>0, <1>6, <2>1 DEF EvalChunk
<1>7. CASE Slide \/ Rebuild
  <2>1. n_past' \in Nat
    <3>1. 1 < Context /\ n_past \in Nat /\ n_past <= Context
      BY <1>7 DEF Slide, Rebuild, FitInv, LoopRoom, LocalTypes
    <3> QED BY <1>7, <3>1, DiscardBound DEF Slide, Rebuild, Discard
  <2>2. evaluated' \in Cells
    <3>1. /\ 1 < Context /\ n_past \in Nat /\ n_past <= Context
          /\ ~images => Len(evaluated) = n_past
      BY <1>7 DEF Slide, Rebuild, FitInv, LoopRoom, LocalTypes
    <3>2. Discard \in Nat /\ Discard <= n_past - 1
      BY <1>7, <3>1, DiscardBound DEF Slide, Rebuild, Discard
    <3>3. evaluated \in Cells
      BY <1>0
    <3>4. ~images => TrimGenerationWindow(evaluated, Discard) \in Cells
      BY <3>1, <3>2, <3>3, TrimLength DEF Cells
    <3> QED BY <1>7, <3>3, <3>4 DEF Slide, Rebuild
  <2>3. can_shift' \in BOOLEAN /\ cache_valid' \in BOOLEAN /\ images' \in BOOLEAN
    BY <1>0, <1>7 DEF Slide, Rebuild, SlidValid
  <2>4. /\ cached' = <<>> /\ offset' \in {offset, 0} /\ pc' \in {"decode", "rebuild"}
        /\ UNCHANGED <<max_tokens, turns, prompt, outVars>>
    BY <1>0, <1>7 DEF Slide, Rebuild
  <2> QED BY <1>0, <2>1, <2>2, <2>3, <2>4, EmptyCells
<1>8. CASE RebuildBatch
  <2>1. offset' \in Nat /\ n_past' \in Nat
    <3>1. evaluated \in Seq(Symbols) /\ offset \in Nat /\ offset < Len(evaluated) /\ n_past \in Nat
      BY <1>8 DEF RebuildBatch, FitInv, LocalTypes, RebuildRoom
    <3> QED BY <1>8, <3>1, BatchLength DEF RebuildBatch
  <2> QED BY <1>0, <1>8, <2>1 DEF RebuildBatch
<1>9. ASSUME NEW t \in Vocab, DecodeToken(t) PROVE LocalsTyped'
  <2>1. token \in Vocab
    BY <1>0, <1>9 DEF DecodeToken, SampleInv, Window
  <2>2. Append(text, token) \in Cells /\ Append(evaluated, token) \in Cells
    BY <1>0, <2>1 DEF Cells
  <2> QED BY <1>0, <1>9, <2>2 DEF DecodeToken
<1>10. CASE PrefillFails \/ EvalChunkFails \/ Stopped \/ RebuildFails \/ DecodeTokenFails
  BY <1>0, <1>10 DEF PrefillFails, EvalChunkFails, Stopped, RebuildFails, DecodeTokenFails
<1>11. CASE Finish \/ NoRoom \/ Emit
  <2>1. cached' \in Cells
    BY <1>0, <1>11, EmptyCells DEF Finish, NoRoom, Emit
  <2>2. can_shift' \in BOOLEAN /\ cache_valid' \in BOOLEAN /\ images' \in BOOLEAN
    BY <1>0, <1>11 DEF Finish, NoRoom, Emit
  <2>3. /\ UNCHANGED <<max_tokens, turns, prompt, offset, evaluated, n_past, token, text>>
        /\ generated' \in Nat
    BY <1>0, <1>11 DEF Finish, NoRoom, Emit
  <2>4. pc' \in {"decode", "finished", "ended"}
    BY <1>11 DEF Finish, NoRoom, Emit
  <2> QED BY <1>0, <2>1, <2>2, <2>3, <2>4
<1>12. ASSUME NEW owned \in BOOLEAN, ReleaseSlot(owned) PROVE LocalsTyped'
  <2>1. cached' \in {cached, <<>>} /\ UNCHANGED <<can_shift, turns>>
    BY <1>12 DEF ReleaseSlot
  <2>2. /\ prompt' = <<>> /\ evaluated' = <<>> /\ text' = <<>> /\ token' = None /\ pc' = "idle"
        /\ images' = FALSE /\ cache_valid' = FALSE
        /\ offset' = 0 /\ n_past' = 0 /\ generated' = 0 /\ max_tokens' = 0
    BY <1>12 DEF ReleaseSlot
  <2> QED BY <1>0, <2>1, <2>2, EmptyCells
<1>13. CASE UNCHANGED vars
  BY <1>0, <1>13 DEF vars
<1> QED BY <1>1, <1>2, <1>3, <1>4, <1>5, <1>6, <1>7, <1>8, <1>9, <1>10, <1>11, <1>12, <1>13
        DEF Next

LEMMA CacheUseNext == KvInv /\ [Next]_vars => CacheUse'
<1> SUFFICES ASSUME KvInv, [Next]_vars PROVE CacheUse'
  OBVIOUS
<1> USE DEF CacheUse, MidRun, Window, memVars, runVars, winVars, outVars
<1>0. CacheUse
  BY DEF KvInv
<1>1. ASSUME NEW p \in Texts, NEW limit \in Limits, Submit(p, limit) PROVE CacheUse'
  BY <1>0, <1>1 DEF Submit
<1>2. ASSUME NEW p \in WithImages, NEW limit \in Limits, SubmitImages(p, limit)
      PROVE  CacheUse'
  BY <1>0, <1>2 DEF SubmitImages
<1>3. CASE Reuse
  BY <1>0, <1>3 DEF Reuse
<1>4. ASSUME NEW t \in Vocab, PrefillBatch(t) \/ EvalChunk(t) \/ DecodeToken(t)
      PROVE  CacheUse'
  BY <1>0, <1>4 DEF PrefillBatch, EvalChunk, DecodeToken
<1>5. CASE PrefillDone \/ Emit \/ RebuildBatch
  BY <1>0, <1>5 DEF PrefillDone, Emit, RebuildBatch
<1>6. CASE PrefillFails \/ EvalChunkFails \/ Stopped \/ RebuildFails \/ DecodeTokenFails
           \/ Finish \/ NoRoom
  BY <1>0, <1>6 DEF PrefillFails, EvalChunkFails, Stopped, RebuildFails, DecodeTokenFails,
                    Finish, NoRoom
<1>7. CASE Slide \/ Rebuild
  BY <1>0, <1>7 DEF Slide, Rebuild, SlidValid
<1>8. ASSUME NEW owned \in BOOLEAN, ReleaseSlot(owned) PROVE CacheUse'
  BY <1>0, <1>8 DEF ReleaseSlot
<1>9. CASE UNCHANGED vars
  BY <1>0, <1>9 DEF vars
<1> QED BY <1>1, <1>2, <1>3, <1>4, <1>5, <1>6, <1>7, <1>8, <1>9 DEF Next

\* Sliding: the cells from 1 + d on move down to 1.
LEMMA SlideCells ==
    ASSUME NEW m, NEW n \in Nat, NEW d \in Nat, DOMAIN m = 0 .. n - 1, 1 <= d, d <= n - 1
    PROVE  LET s == SeqAdd(SeqRm(m, 1, 1 + d), 1 + d, d)
           IN  /\ DOMAIN s = 0 .. (n - d) - 1
               /\ s[0] = m[0]
               /\ \A q \in 1 .. (n - d) - 1 : s[q] = m[q + d]
<1> DEFINE r == SeqRm(m, 1, 1 + d)
           s == SeqAdd(r, 1 + d, d)
<1>1. DOMAIN r = {0} \cup (1 + d) .. n - 1 /\ \A q \in DOMAIN r : r[q] = m[q]
  BY DEF SeqRm, Restrict
<1> HIDE DEF r
<1>2. DOMAIN s = {x \in DOMAIN r : x < 1 + d - d}
                 \cup {x - d : x \in {y \in DOMAIN r : y >= 1 + d}}
  BY DEF SeqAdd
<1>3. {x \in DOMAIN r : x < 1 + d - d} = {0}
  BY <1>1
<1>4. {x - d : x \in {y \in DOMAIN r : y >= 1 + d}} = 1 .. (n - d) - 1
  <2>1. {y \in DOMAIN r : y >= 1 + d} = (1 + d) .. n - 1
    BY <1>1
  <2>2. ASSUME NEW q \in 1 .. (n - d) - 1 PROVE q + d \in (1 + d) .. n - 1 /\ (q + d) - d = q
    OBVIOUS
  <2>3. ASSUME NEW x \in (1 + d) .. n - 1 PROVE x - d \in 1 .. (n - d) - 1
    OBVIOUS
  <2> QED BY <2>1, <2>2, <2>3
<1>5. \A q \in DOMAIN s : s[q] = IF q < 1 + d - d THEN r[q] ELSE r[q + d]
  BY DEF SeqAdd
<1> HIDE DEF s
<1>6. DOMAIN s = 0 .. (n - d) - 1
  <2>1. DOMAIN s = {0} \cup 1 .. (n - d) - 1
    BY <1>2, <1>3, <1>4
  <2>2. {0} \cup 1 .. (n - d) - 1 = 0 .. (n - d) - 1
    OBVIOUS
  <2> QED BY <2>1, <2>2
<1>7. s[0] = m[0]
  BY <1>1, <1>5, <1>6
<1>8. ASSUME NEW q \in 1 .. (n - d) - 1 PROVE s[q] = m[q + d]
  <2>1. q \in DOMAIN s /\ ~(q < 1 + d - d) /\ q + d \in DOMAIN r
    BY <1>1, <1>6
  <2> QED BY <1>1, <1>5, <2>1
<1> QED BY <1>6, <1>7, <1>8 DEF s, r

LEMMA KvNext ==
    ASSUME FitInv, SampleInv, KvInv, [Next]_vars
    PROVE  KvTyped' /\ Ends'
<1> USE DEF KvTyped, Ends, MidRun, Window, memVars, runVars, winVars, outVars
<1>0. KvTyped /\ Ends /\ CacheUse /\ LocalsTyped
  BY DEF KvInv
<1>1. ASSUME NEW p \in Texts, NEW limit \in Limits, Submit(p, limit) PROVE KvTyped' /\ Ends'
  BY <1>0, <1>1 DEF Submit
<1>2. ASSUME NEW p \in WithImages, NEW limit \in Limits, SubmitImages(p, limit)
      PROVE  KvTyped' /\ Ends'
  BY <1>0, <1>2, EmptyCells DEF SubmitImages
<1>3. CASE Reuse
  <2> DEFINE reuse == IF cache_valid THEN ReusablePromptTokens(cached, prompt) ELSE 0
             kept  == Restrict(kv, {q \in DOMAIN kv : q < reuse})
  <2>1. prompt \in Seq(Symbols) /\ cached \in Seq(Symbols) /\ Len(prompt) >= 1
    BY <1>3 DEF Reuse, FitInv, LocalTypes, ReuseRoom
  <2>2. reuse \in Nat /\ (reuse > 0 => reuse <= Len(cached) /\ cached # <<>>)
    <3>1. /\ ReusablePromptTokens(cached, prompt) \in Nat
          /\ ReusablePromptTokens(cached, prompt) <= Len(cached)
      BY <2>1, ReuseBound, ReuseOfCached
    <3>2. Len(cached) > 0 => cached # <<>>
      BY <2>1
    <3> QED BY <2>1, <3>1, <3>2
  <2>3. cached' = <<>>
    BY <1>3 DEF Reuse
  <2> HIDE DEF reuse
  <2>4. CASE reuse > 0 /\ kv' = kept /\ offset' = reuse /\ pc' = "prefill"
    <3>1. DOMAIN kv = 0 .. Len(cached) - 1 /\ reuse <= Len(cached) /\ Len(cached) \in Nat
      BY <1>0, <2>1, <2>2, <2>4
    <3>2. DOMAIN kv' = {q \in DOMAIN kv : q < reuse} /\ \A q \in DOMAIN kv' : kv'[q] = kv[q]
      BY <2>4 DEF Restrict
    <3>3. DOMAIN kv' = 0 .. reuse - 1
      BY <2>2, <3>1, <3>2
    <3>4. CellTypes(kv')
      BY <1>0, <3>2 DEF CellTypes
    <3>5. KvTyped'
      <4>1. DOMAIN kv' \subseteq Nat
        BY <2>2, <3>3
      <4> QED BY <3>4, <4>1
    <3>6. Ends'
      <4>1. pc' = "prefill" /\ DOMAIN kv' = 0 .. offset' - 1 /\ cached' = <<>>
        BY <2>3, <2>4, <3>3
      <4> QED BY <4>1
    <3> QED BY <3>5, <3>6
  <2>5. CASE kv' = <<>> /\ offset' = 0 /\ pc' = "prefill"
    BY <2>3, <2>5, EmptyCells DEF CellTypes
  <2>6. CASE pc' = "ended" /\ UNCHANGED <<kv, offset>>
    BY <1>0, <2>3, <2>6 DEF CellTypes
  <2> QED BY <1>3, <2>4, <2>5, <2>6 DEF Reuse, reuse
<1>4. ASSUME NEW t \in Vocab, PrefillBatch(t) PROVE KvTyped' /\ Ends'
  <2> DEFINE batch == Batched(prompt)
  <2>1. /\ prompt \in Seq(Vocab \cup {Image}) /\ offset \in Nat /\ offset < Len(prompt)
        /\ DOMAIN kv = 0 .. offset - 1
    BY <1>0, <1>4 DEF PrefillBatch, FitInv, LocalTypes, PrefillRoom, LocalsTyped, Cells
  <2>2. batch \in Cells /\ Len(batch) \in Nat
    BY <2>1, BatchLength DEF Cells
  <2>3. /\ kv' = Decode(kv, offset, batch) /\ offset' = offset + Len(batch) /\ pc' = "prefill"
        /\ cached' = <<>>
    BY <1>0, <1>4 DEF PrefillBatch, CacheUse
  <2> HIDE DEF batch
  <2>4. DOMAIN kv' = 0 .. offset + Len(batch) - 1 /\ CellTypes(kv')
    BY <1>0, <2>1, <2>2, <2>3, DecodeTypes
  <2> QED BY <2>1, <2>2, <2>3, <2>4 DEF CellTypes
<1>5. CASE PrefillFails
  <2>1. /\ prompt \in Seq(Vocab \cup {Image}) /\ offset \in Nat /\ offset < Len(prompt)
        /\ DOMAIN kv = 0 .. offset - 1
    BY <1>0, <1>5 DEF PrefillFails, FitInv, LocalTypes, PrefillRoom, LocalsTyped, Cells
  <2>2. Batched(prompt) \in Cells
    BY <2>1, BatchLength DEF Cells
  <2>3. kv' \in DecodeFails(kv, offset, Batched(prompt)) /\ pc' = "ended" /\ cached' = <<>>
    BY <1>0, <1>5 DEF PrefillFails, CacheUse
  <2>4. DOMAIN kv' \subseteq Nat /\ CellTypes(kv')
    BY <1>0, <2>1, <2>2, <2>3, FailTypes
  <2> QED BY <2>3, <2>4 DEF CellTypes
<1>6. CASE PrefillDone
  BY <1>0, <1>6 DEF PrefillDone, CellTypes
<1>7. ASSUME NEW t \in Vocab, EvalChunk(t) PROVE KvTyped' /\ Ends'
  <2>1. /\ prompt \in Seq(Vocab \cup {Image}) /\ offset \in Nat /\ offset < Len(prompt)
        /\ n_past = offset /\ DOMAIN kv = 0 .. offset - 1
    BY <1>0, <1>7 DEF EvalChunk, FitInv, LocalTypes, ChunkRoom, LocalsTyped, Cells
  <2>2. ChunkEnd \in Nat /\ offset < ChunkEnd /\ ChunkEnd <= Len(prompt)
    BY <1>7, ChunkLength DEF EvalChunk, FitInv, LocalTypes, ChunkRoom
  <2>3. Chunk \in Cells /\ Len(Chunk) = ChunkEnd - offset
    BY <2>1, <2>2 DEF Chunk, Cells
  <2>4. /\ kv' = Decode(kv, offset, Chunk) /\ offset' = ChunkEnd /\ n_past' = ChunkEnd
        /\ pc' \in {"chunks", "ended", "loop"} /\ cached' = <<>>
    BY <1>0, <1>7, <2>1 DEF EvalChunk, CacheUse
  <2>5. DOMAIN kv' = 0 .. offset + Len(Chunk) - 1 /\ CellTypes(kv')
    BY <1>0, <2>1, <2>3, <2>4, DecodeTypes
  <2>6. DOMAIN kv' = 0 .. ChunkEnd - 1
    BY <2>1, <2>2, <2>3, <2>5
  <2> QED BY <2>2, <2>4, <2>5, <2>6 DEF CellTypes
<1>8. CASE EvalChunkFails
  <2>1. /\ prompt \in Seq(Vocab \cup {Image}) /\ offset \in Nat /\ offset < Len(prompt)
        /\ n_past = offset /\ DOMAIN kv = 0 .. offset - 1
    BY <1>0, <1>8 DEF EvalChunkFails, FitInv, LocalTypes, ChunkRoom, LocalsTyped, Cells
  <2>2. ChunkEnd \in Nat /\ offset < ChunkEnd /\ ChunkEnd <= Len(prompt)
    BY <1>8, ChunkLength DEF EvalChunkFails, FitInv, LocalTypes, ChunkRoom
  <2>3. Chunk \in Cells
    BY <2>1, <2>2 DEF Chunk, Cells
  <2>4. kv' \in DecodeFails(kv, offset, Chunk) /\ pc' = "ended" /\ cached' = <<>>
    BY <1>0, <1>8, <2>1 DEF EvalChunkFails, CacheUse
  <2>5. DOMAIN kv' \subseteq Nat /\ CellTypes(kv')
    BY <1>0, <2>1, <2>3, <2>4, FailTypes
  <2> QED BY <2>4, <2>5 DEF CellTypes
<1>9. CASE Slide
  <2>1. 1 < Context /\ n_past \in Nat /\ n_past <= Context /\ DOMAIN kv = 0 .. n_past - 1
    BY <1>0, <1>9 DEF Slide, FitInv, LoopRoom, LocalTypes
  <2>2. Discard \in Nat /\ 1 <= Discard /\ Discard <= n_past - 1
    BY <1>9, <2>1, DiscardBound DEF Slide, Discard
  <2> DEFINE slid == SeqAdd(SeqRm(kv, 1, 1 + Discard), 1 + Discard, Discard)
  <2>3. /\ DOMAIN slid = 0 .. (n_past - Discard) - 1
        /\ slid[0] = kv[0]
        /\ \A q \in 1 .. (n_past - Discard) - 1 : slid[q] = kv[q + Discard]
    BY <2>1, <2>2, SlideCells
  <2>4. kv' = slid /\ n_past' = n_past - Discard /\ pc' = "decode" /\ cached' = <<>>
    BY <1>9 DEF Slide
  <2> HIDE DEF slid
  <2>5. ASSUME NEW q \in 0 .. (n_past - Discard) - 1 PROVE slid[q] \in Cells \ {<<>>}
    <3>1. \A x \in 0 .. n_past - 1 : kv[x] \in Cells \ {<<>>}
      BY <1>0, <2>1 DEF CellTypes
    <3>2. CASE q = 0
      BY <2>1, <2>2, <2>3, <3>1, <3>2
    <3>3. CASE q # 0
      BY <2>1, <2>2, <2>3, <3>1, <3>3
    <3> QED BY <3>2, <3>3
  <2>6. DOMAIN kv' = 0 .. n_past' - 1 /\ CellTypes(slid)
    BY <2>3, <2>4, <2>5 DEF CellTypes
  <2> QED BY <2>1, <2>2, <2>4, <2>6 DEF CellTypes
<1>10. CASE Rebuild
  <2>1. kv' = <<>> /\ offset' = 0 /\ pc' = "rebuild" /\ cached' = <<>>
    BY <1>10 DEF Rebuild
  <2> QED BY <2>1, EmptyCells DEF CellTypes
<1>11. CASE RebuildBatch
  <2> DEFINE batch == Batched(evaluated)
  <2>1. /\ evaluated \in Seq(Vocab \cup {Image}) /\ offset \in Nat /\ offset < Len(evaluated)
        /\ DOMAIN kv = 0 .. offset - 1
    BY <1>0, <1>11 DEF RebuildBatch, FitInv, LocalTypes, RebuildRoom, LocalsTyped, Cells
  <2>2. batch \in Cells /\ Len(batch) \in Nat
    BY <2>1, BatchLength DEF Cells
  <2>3. /\ kv' = Decode(kv, offset, batch) /\ offset' = offset + Len(batch) /\ cached' = <<>>
        /\ pc' = "rebuild" \/ (pc' = "decode" /\ offset + Len(batch) = Len(evaluated)
                                              /\ n_past' = Len(evaluated))
    BY <1>0, <1>11 DEF RebuildBatch, CacheUse
  <2> HIDE DEF batch
  <2>4. DOMAIN kv' = 0 .. offset + Len(batch) - 1 /\ CellTypes(kv')
    BY <1>0, <2>1, <2>2, <2>3, DecodeTypes
  <2> QED BY <2>1, <2>2, <2>3, <2>4 DEF CellTypes
<1>12. CASE RebuildFails
  <2>1. /\ evaluated \in Seq(Vocab \cup {Image}) /\ offset \in Nat /\ offset < Len(evaluated)
        /\ DOMAIN kv = 0 .. offset - 1
    BY <1>0, <1>12 DEF RebuildFails, FitInv, LocalTypes, RebuildRoom, LocalsTyped, Cells
  <2>2. Batched(evaluated) \in Cells
    BY <2>1, BatchLength DEF Cells
  <2>3. kv' \in DecodeFails(kv, offset, Batched(evaluated)) /\ pc' = "ended" /\ cached' = <<>>
    BY <1>0, <1>12 DEF RebuildFails, CacheUse
  <2>4. DOMAIN kv' \subseteq Nat /\ CellTypes(kv')
    BY <1>0, <2>1, <2>2, <2>3, FailTypes
  <2> QED BY <2>3, <2>4 DEF CellTypes
<1>13. ASSUME NEW t \in Vocab, DecodeToken(t) PROVE KvTyped' /\ Ends'
  <2>1. n_past \in Nat /\ DOMAIN kv = 0 .. n_past - 1 /\ token \in Vocab
    BY <1>0, <1>13 DEF DecodeToken, LocalsTyped, SampleInv
  <2>2. <<token>> \in Cells /\ Len(<<token>>) = 1
    BY <2>1 DEF Cells
  <2>3. /\ kv' = Decode(kv, n_past, <<token>>) /\ n_past' = n_past + 1 /\ pc' = "loop"
        /\ cached' = <<>>
    BY <1>0, <1>13 DEF DecodeToken, CacheUse
  <2>4. DOMAIN kv' = 0 .. n_past + Len(<<token>>) - 1 /\ CellTypes(kv')
    BY <1>0, <2>1, <2>2, <2>3, DecodeTypes
  <2>5. DOMAIN kv' = 0 .. n_past' - 1
    BY <2>1, <2>2, <2>3, <2>4
  <2> QED BY <2>1, <2>3, <2>4, <2>5 DEF CellTypes
<1>14. CASE Stopped \/ DecodeTokenFails \/ NoRoom \/ Emit
  BY <1>0, <1>14 DEF Stopped, DecodeTokenFails, NoRoom, Emit, CellTypes
<1>15. CASE Finish
  <2>1. pc \in Window /\ pc' = "ended" /\ UNCHANGED <<kv, evaluated, n_past>>
        /\ cached' = IF cache_valid THEN evaluated ELSE cached
    BY <1>15 DEF Finish
  <2>2. CASE cache_valid
    <3>1. ~images
      BY <1>0, <2>2 DEF CacheUse
    <3>2. Len(evaluated) = n_past
      BY <2>1, <3>1 DEF FitInv, LoopRoom
    <3> QED BY <1>0, <2>1, <2>2, <3>2 DEF CellTypes
  <2>3. CASE ~cache_valid
    BY <1>0, <2>1, <2>3 DEF CellTypes
  <2> QED BY <2>2, <2>3
<1>16. ASSUME NEW owned \in BOOLEAN, ReleaseSlot(owned) PROVE KvTyped' /\ Ends'
  <2>1. pc' = "idle" /\ cached' \in {cached, <<>>}
        /\ (cached' # <<>> => kv' = kv) /\ kv' \in {<<>>, kv}
    BY <1>16 DEF ReleaseSlot
  <2>2. KvTyped'
    BY <1>0, <2>1, EmptyCells DEF CellTypes
  <2> QED BY <1>0, <2>1, <2>2
<1>17. CASE UNCHANGED vars
  BY <1>0, <1>17 DEF vars, CellTypes
<1> QED BY <1>1, <1>2, <1>3, <1>4, <1>5, <1>6, <1>7, <1>8, <1>9, <1>10, <1>11, <1>12,
           <1>13, <1>14, <1>15, <1>16, <1>17 DEF Next

LEMMA KvInvNext == FitInv /\ SampleInv /\ KvInv /\ [Next]_vars => KvInv'
  BY LocalsNext, CacheUseNext, KvNext DEF KvInv

RunInv == FitInv /\ SampleInv /\ KvInv

LEMMA RunAlways == Spec => []RunInv
<1>1. Init => RunInv
  BY FitInvInit, SampleInit, KvInit DEF RunInv
<1>2. RunInv /\ [Next]_vars => RunInv'
  BY FitInvNext, SampleNext, KvInvNext DEF RunInv
<1> QED BY <1>1, <1>2, PTL DEF Spec

\* Every variable of a run has its type: no cell is ever empty, and no token
\* that was not sampled is decoded, cached or kept in the window.
THEOREM GenerationTyped == Spec => []TypeOK
<1>1. RunInv => TypeOK
  BY DEF RunInv, KvInv, LocalsTyped, KvTyped, CellTypes, TypeOK
<1> QED BY <1>1, RunAlways, PTL

-----------------------------------------------------------------------------
(***************************************************************************)
(* What the cells hold.                                                    *)
(***************************************************************************)
\* The token of each cell of the window.
Lasts(m, w, k) == \A i \in 1 .. k : Last(m[i - 1]) = w[i]

ExactInv ==
    /\ cached # <<>> => Prefix(kv, cached, Len(cached))
    /\ pc = "prefill" => Prefix(kv, prompt, offset)
    /\ pc = "rebuild" => Prefix(kv, evaluated, offset)
    /\ pc \in Window /\ cache_valid => Prefix(kv, evaluated, n_past)
    /\ pc \in Window /\ ~images => Lasts(kv, evaluated, n_past)

LEMMA ExactInit == Init => ExactInv
  BY DEF Init, ExactInv, Window

LEMMA PrefixLasts ==
    ASSUME NEW m, NEW S, NEW w \in Seq(S), NEW k \in 0 .. Len(w), Prefix(m, w, k)
    PROVE  Lasts(m, w, k)
<1>1. ASSUME NEW i \in 1 .. k PROVE Last(m[i - 1]) = w[i]
  <2>1. m[i - 1] = SubSeq(w, 1, i)
    BY DEF Prefix
  <2>2. Len(SubSeq(w, 1, i)) = i /\ SubSeq(w, 1, i)[i] = w[i]
    OBVIOUS
  <2> QED BY <2>1, <2>2 DEF Last
<1> QED BY <1>1 DEF Lasts

LEMMA PrefixEmpty ==
    ASSUME NEW w
    PROVE  Prefix(<<>>, w, 0)
<1>1. DOMAIN <<>> = 0 .. 0 - 1
  BY EmptyCells
<1> QED BY <1>1 DEF Prefix

\* A token that is appended to the window.
LEMMA AppendPrefix ==
    ASSUME NEW m, NEW S, NEW w \in Seq(S), NEW x \in S, Prefix(m, w, Len(w))
    PROVE  Prefix(Decode(m, Len(w), <<x>>), Append(w, x), Len(w) + 1)
<1>1. PICK k \in Nat : k = Len(w)
  OBVIOUS
<1>2. PICK v : v \in Seq(S) /\ v = Append(w, x)
  <2>1. Append(w, x) \in Seq(S)
    OBVIOUS
  <2> QED BY <2>1
<1>3. Len(v) = k + 1 /\ v[k + 1] = x /\ \A i \in 1 .. k : w[i] = v[i]
  BY <1>1, <1>2
<1>4. Prefix(m, v, k)
  <2>1. k <= Len(w) /\ k <= Len(v) /\ Prefix(m, w, k) /\ v \in Seq(S)
    BY <1>1, <1>2, <1>3
  <2> QED BY <1>3, <2>1, PrefixOfLonger
<1>5. SubSeq(v, k + 1, k + 1) = <<x>>
  <2>1. PICK u : u = SubSeq(v, k + 1, k + 1)
    OBVIOUS
  <2>2. u \in Seq(S) /\ Len(u) = 1 /\ u[1] = x
    BY <1>3, <2>1
  <2>3. u = <<x>>
    BY <2>2
  <2> QED BY <2>1, <2>3
<1>6. Prefix(Decode(m, k, SubSeq(v, k + 1, k + 1)), v, k + 1)
  <2>1. v \in Seq(S) /\ k + 1 <= Len(v) /\ 1 \in Nat
    BY <1>2, <1>3
  <2> QED BY <1>4, <2>1, DecodePrefix
<1> QED BY <1>1, <1>2, <1>5, <1>6

\* A token decoded where the cells end is the token of its cell.
LEMMA DecodeLast ==
    ASSUME NEW m, NEW k \in Nat, NEW x \in Vocab \cup {Image},
           DOMAIN m = 0 .. k - 1, CellTypes(m)
    PROVE  /\ \A q \in 0 .. k - 1 : Decode(m, k, <<x>>)[q] = m[q]
           /\ Last(Decode(m, k, <<x>>)[k]) = x
<1> DEFINE d == Decode(m, k, <<x>>)
<1>1. <<x>> \in Cells /\ Len(<<x>>) = 1
  BY DEF Cells
<1>2. /\ \A q \in 0 .. k - 1 : d[q] = m[q]
      /\ \A q \in k .. k + Len(<<x>>) - 1 : d[q] = NewCell(m, k, <<x>>, q)
  BY <1>1, DecodeHere DEF Cells
<1>3. d[k] = NewCell(m, k, <<x>>, k)
  BY <1>1, <1>2
<1>4. Seen(m, k) \in Cells
  BY SeenTypes
<1>5. NewCell(m, k, <<x>>, k) = Seen(m, k) \o <<x>>
  <2>1. PICK s : s = <<x>>
    OBVIOUS
  <2>2. s \in Cells /\ Len(s) = 1
    BY <1>1, <2>1
  <2>3. SubSeq(s, 1, 1) = s /\ k - k + 1 = 1
    BY <2>2, SubSeqFull DEF Cells
  <2>4. NewCell(m, k, s, k) = Seen(m, k) \o s
    <3>1. NewCell(m, k, s, k) = Seen(m, k) \o SubSeq(s, 1, k - k + 1)
      BY Zenon DEF NewCell
    <3> QED BY <2>3, <3>1
  <2> QED BY <2>1, <2>4
<1>6. Last(Seen(m, k) \o <<x>>) = x
  <2>1. PICK s \in Cells : s = Seen(m, k)
    BY <1>4
  <2>2. Len(s) \in Nat /\ Len(s \o <<x>>) = Len(s) + 1 /\ (s \o <<x>>)[Len(s) + 1] = x
    BY <1>1, ConcatProperties DEF Cells
  <2> QED BY <2>1, <2>2 DEF Last
<1> HIDE DEF d
<1>7. Last(d[k]) = x
  BY <1>3, <1>5, <1>6
<1> QED BY <1>2, <1>7 DEF d

\* Trimming keeps the first token and the latest ones.
LEMMA TrimTokens ==
    ASSUME NEW S, NEW w \in Seq(S), NEW d \in Nat, d <= Len(w) - 1
    PROVE  LET v == TrimGenerationWindow(w, d)
           IN  /\ v[1] = w[1]
               /\ \A i \in 2 .. Len(w) - d : v[i] = w[i + d]
<1>1. PICK n \in Nat : n = Len(w)
  OBVIOUS
<1> DEFINE v == TrimGenerationWindow(w, d)
<1>2. CASE n <= 1
  BY <1>1, <1>2 DEF TrimGenerationWindow
<1>3. CASE n > 1
  <2>1. Smaller(d, n - 1) = d
    BY <1>1 DEF Smaller
  <2>2. v = <<w[1]>> \o SubSeq(w, 2 + d, n)
    <3>1. v = <<w[1]>> \o SubSeq(w, 2 + Smaller(d, Len(w) - 1), Len(w))
      <4>1. ~(Len(w) <= 1)
        BY <1>1, <1>3
      <4> QED BY <4>1, Zenon DEF TrimGenerationWindow
    <3> HIDE DEF v
    <3> QED BY <1>1, <2>1, <3>1
  <2>3. PICK rest : rest = SubSeq(w, 2 + d, n)
    OBVIOUS
  <2>4. /\ rest \in Seq(S) /\ Len(rest) = n - d - 1 /\ w[1] \in S
        /\ \A i \in 1 .. n - d - 1 : rest[i] = w[i + d + 1]
    <3>1. w[1] \in S /\ n - d - 1 \in Nat /\ 2 + d \in 1 .. n + 1
      BY <1>1, <1>3
    <3>2. /\ rest \in Seq(S) /\ Len(rest) = n - (2 + d) + 1
          /\ \A i \in 1 .. n - (2 + d) + 1 : rest[i] = w[2 + d + i - 1]
      <4>1. 2 + d \in Int /\ n \in Int /\ \A i \in 2 + d .. n : w[i] \in S
        BY <1>1
      <4>2. /\ SubSeq(w, 2 + d, n) \in Seq(S)
            /\ Len(SubSeq(w, 2 + d, n)) = IF 2 + d <= n THEN n - (2 + d) + 1 ELSE 0
            /\ \A i \in 1 .. n - (2 + d) + 1 : SubSeq(w, 2 + d, n)[i] = w[2 + d + i - 1]
        BY <4>1, SubSeqProperties
      <4>3. (IF 2 + d <= n THEN n - (2 + d) + 1 ELSE 0) = n - (2 + d) + 1
        BY <3>1
      <4> QED BY <2>3, <4>2, <4>3
    <3>3. n - (2 + d) + 1 = n - d - 1 /\ \A i \in 1 .. n - d - 1 : 2 + d + i - 1 = i + d + 1
      BY <1>1
    <3> QED BY <3>1, <3>2, <3>3
  <2> HIDE DEF v
  <2>5. /\ v[1] = w[1]
        /\ \A i \in 2 .. n - d : v[i] = rest[i - 1]
    <3>1. <<w[1]>> \in Seq(S) /\ Len(<<w[1]>>) = 1 /\ <<w[1]>>[1] = w[1]
      BY <2>4
    <3>2. PICK one \in Seq(S) : one = <<w[1]>>
      BY <3>1
    <3>3. v = one \o rest /\ Len(one) = 1 /\ one[1] = w[1]
      BY <2>2, <2>3, <3>1, <3>2
    <3>4. /\ Len(one \o rest) = n - d
          /\ \A i \in 1 .. n - d :
                 (one \o rest)[i] = IF i <= 1 THEN one[i] ELSE rest[i - 1]
      <4>1. /\ Len(one \o rest) = Len(one) + Len(rest)
            /\ \A i \in 1 .. Len(one) + Len(rest) :
                   (one \o rest)[i] = IF i <= Len(one) THEN one[i] ELSE rest[i - Len(one)]
        BY <2>4, <3>2, ConcatProperties
      <4>2. Len(one) + Len(rest) = n - d
        BY <1>1, <2>4, <3>3
      <4> QED BY <3>3, <4>1, <4>2
    <3>5. 1 \in 1 .. n - d
      BY <1>1, <1>3
    <3> QED BY <3>3, <3>4, <3>5
  <2>6. ASSUME NEW i \in 2 .. n - d PROVE v[i] = w[i + d]
    <3>1. i - 1 \in 1 .. n - d - 1 /\ (i - 1) + d + 1 = i + d
      OBVIOUS
    <3>2. rest[i - 1] = w[(i - 1) + d + 1]
      BY <2>4, <3>1
    <3> QED BY <2>5, <3>1, <3>2
  <2> QED BY <1>1, <2>5, <2>6 DEF v
<1> QED BY <1>2, <1>3

\* Sliding keeps the token of each cell that stays, in step with the window.
LEMMA SlideLasts ==
    ASSUME NEW m, NEW S, NEW w \in Seq(S), NEW d \in Nat,
           DOMAIN m = 0 .. Len(w) - 1, 1 <= d, d <= Len(w) - 1, Lasts(m, w, Len(w))
    PROVE  Lasts(SeqAdd(SeqRm(m, 1, 1 + d), 1 + d, d), TrimGenerationWindow(w, d), Len(w) - d)
<1> DEFINE s == SeqAdd(SeqRm(m, 1, 1 + d), 1 + d, d)
           v == TrimGenerationWindow(w, d)
<1>1. PICK n \in Nat : n = Len(w)
  OBVIOUS
<1>2. s[0] = m[0] /\ \A q \in 1 .. (n - d) - 1 : s[q] = m[q + d]
  BY <1>1, SlideCells
<1>3. v[1] = w[1] /\ \A i \in 2 .. n - d : v[i] = w[i + d]
  BY <1>1, TrimTokens
<1>4. \A i \in 1 .. n : Last(m[i - 1]) = w[i]
  BY <1>1 DEF Lasts
<1> HIDE DEF s, v
<1>5. ASSUME NEW i \in 1 .. n - d PROVE Last(s[i - 1]) = v[i]
  <2>1. CASE i = 1
    BY <1>1, <1>2, <1>3, <1>4, <2>1
  <2>2. CASE i # 1
    <3>1. i - 1 \in 1 .. (n - d) - 1 /\ i \in 2 .. n - d /\ i + d \in 1 .. n
          /\ (i - 1) + d = (i + d) - 1
      BY <2>2
    <3>2. s[i - 1] = m[(i + d) - 1] /\ v[i] = w[i + d]
      BY <1>2, <1>3, <3>1
    <3> QED BY <1>4, <3>1, <3>2
  <2> QED BY <2>1, <2>2
<1>6. Lasts(s, v, n - d)
  BY <1>5 DEF Lasts
<1> QED BY <1>1, <1>6 DEF s, v

\* The next batch, with its length.
LEMMA BatchIsNext ==
    ASSUME NEW S, NEW s \in Seq(S), offset \in Nat, offset < Len(s)
    PROVE  \E b \in Nat : /\ b >= 1 /\ offset + b <= Len(s) /\ Len(Batched(s)) = b
                          /\ Batched(s) = SubSeq(s, offset + 1, offset + b)
<1> DEFINE count == Smaller(Batch, Len(s) - offset)
<1>1. count \in Nat /\ count >= 1 /\ offset + count <= Len(s)
  BY GenerationAssumption DEF GenerationAssumption, Smaller
<1>2. Batched(s) = SubSeq(s, offset + 1, offset + count)
  BY DEF Batched
<1> HIDE DEF count
<1>3. Len(Batched(s)) = count
  BY <1>1, <1>2
<1> QED BY <1>1, <1>2, <1>3

\* A step that leaves the cells, the cached tokens and the window alone.
LEMMA ExactKept ==
    ASSUME ExactInv, UNCHANGED <<kv, cached, evaluated, n_past, cache_valid, images>>,
           pc' \notin {"prefill", "rebuild"}, pc' \in Window => pc \in Window
    PROVE  ExactInv'
  BY DEF ExactInv, Prefix, Lasts

LEMMA ExactNext == RunInv /\ ExactInv /\ [Next]_vars => ExactInv'
<1> SUFFICES ASSUME RunInv, ExactInv, [Next]_vars PROVE ExactInv'
  OBVIOUS
<1> USE DEF memVars, runVars, winVars, outVars
<1>0. FitInv /\ SampleInv /\ LocalsTyped /\ KvTyped /\ Ends /\ CacheUse
  BY DEF RunInv, KvInv
<1>a. prompt \in Cells /\ evaluated \in Cells /\ cached \in Cells /\ offset \in Nat /\ n_past \in Nat
  BY <1>0 DEF LocalsTyped
<1>1. ASSUME NEW p \in Texts, NEW limit \in Limits, Submit(p, limit) PROVE ExactInv'
  <2>1. pc' \in {"ended", "reuse"} /\ UNCHANGED <<kv, cached>>
    BY <1>1 DEF Submit
  <2> QED BY <2>1 DEF ExactInv, Prefix, Window
<1>2. ASSUME NEW p \in WithImages, NEW limit \in Limits, SubmitImages(p, limit)
      PROVE  ExactInv'
  <2>1. pc' \in {"ended", "chunks"} /\ cached' = <<>>
    BY <1>2 DEF SubmitImages
  <2> QED BY <2>1 DEF ExactInv, Window
<1>3. CASE Reuse
  <2> DEFINE reuse == IF cache_valid THEN ReusablePromptTokens(cached, prompt) ELSE 0
             kept  == Restrict(kv, {q \in DOMAIN kv : q < reuse})
  <2>1. /\ prompt \in Seq(Symbols) /\ cached \in Seq(Symbols)
        /\ Len(prompt) >= 1 /\ Len(prompt) \in Nat /\ Len(cached) \in Nat
    BY <1>0, <1>3 DEF Reuse, FitInv, LocalTypes, ReuseRoom
  <2>2. /\ cached' = <<>> /\ prompt' = prompt
        /\ pc' = "prefill" => \/ reuse > 0 /\ kv' = kept /\ offset' = reuse
                              \/ kv' = <<>> /\ offset' = 0
        /\ pc' \in {"prefill", "ended"}
    BY <1>3 DEF Reuse
  <2>3. CASE reuse > 0 /\ kv' = kept /\ offset' = reuse
    <3>1. reuse = ReusablePromptTokens(cached, prompt)
      BY <2>3
    <3> HIDE DEF reuse
    <3>2. /\ reuse \in Nat /\ reuse <= Len(prompt) /\ reuse <= Len(cached)
          /\ \A i \in 1 .. reuse : cached[i] = prompt[i]
      BY <2>1, <3>1, ReuseBound, ReuseOfCached
    <3>3. cached # <<>>
      BY <2>1, <2>3, <3>2
    <3>4. Prefix(kv, cached, Len(cached))
      BY <3>3 DEF ExactInv
    <3>5. DOMAIN kept = 0 .. reuse - 1 /\ \A q \in 0 .. reuse - 1 : kept[q] = kv[q]
      <4>1. DOMAIN kv = 0 .. Len(cached) - 1
        BY <3>4 DEF Prefix
      <4> QED BY <2>1, <3>2, <4>1 DEF Restrict
    <3> HIDE DEF kept
    <3>6. Prefix(kept, cached, reuse)
      <4>1. ASSUME NEW i \in 1 .. reuse PROVE kept[i - 1] = SubSeq(cached, 1, i)
        <5>1. i \in 1 .. Len(cached) /\ i - 1 \in 0 .. reuse - 1
          BY <2>1, <3>2
        <5> QED BY <3>4, <3>5, <5>1 DEF Prefix
      <4> QED BY <3>5, <4>1 DEF Prefix
    <3>7. Prefix(kept, prompt, reuse)
      BY <2>1, <3>2, <3>6, PrefixOfLonger
    <3>8. Prefix(kv', prompt', offset')
      BY <2>2, <2>3, <3>7
    <3> QED BY <2>2, <3>8 DEF ExactInv, Window
  <2>4. CASE kv' = <<>> /\ offset' = 0
    <3>1. Prefix(kv', prompt', offset')
      BY <2>4, PrefixEmpty
    <3> QED BY <2>2, <3>1 DEF ExactInv, Window
  <2>5. CASE pc' = "ended"
    BY <2>2, <2>5 DEF ExactInv, Window
  <2> QED BY <2>2, <2>3, <2>4, <2>5
<1>4. ASSUME NEW t \in Vocab, PrefillBatch(t) PROVE ExactInv'
  <2>1. offset < Len(prompt) /\ Prefix(kv, prompt, offset) /\ pc = "prefill"
    BY <1>4 DEF PrefillBatch, ExactInv
  <2>2. PICK b \in Nat : /\ offset + b <= Len(prompt) /\ Len(Batched(prompt)) = b
                         /\ Batched(prompt) = SubSeq(prompt, offset + 1, offset + b)
    BY <1>a, <2>1, BatchIsNext DEF Cells
  <2>3. kv' = Decode(kv, offset, SubSeq(prompt, offset + 1, offset + b)) /\ offset' = offset + b
        /\ pc' = "prefill" /\ prompt' = prompt /\ cached' = <<>>
    BY <1>0, <1>4, <2>2 DEF PrefillBatch, CacheUse, MidRun
  <2>4. Prefix(kv', prompt', offset')
    BY <1>a, <2>1, <2>2, <2>3, DecodePrefix DEF Cells
  <2> QED BY <2>3, <2>4 DEF ExactInv, Window
<1>5. CASE PrefillDone
  <2>1. /\ offset = Len(prompt) /\ Prefix(kv, prompt, offset)
        /\ evaluated' = prompt /\ n_past' = Len(prompt) /\ kv' = kv /\ pc' = "loop"
        /\ cached' = <<>>
    BY <1>0, <1>5 DEF PrefillDone, ExactInv, CacheUse, MidRun
  <2>2. Prefix(kv', evaluated', n_past')
    BY <2>1
  <2>3. Lasts(kv, prompt, Len(prompt))
    BY <1>a, <2>1, PrefixLasts DEF Cells
  <2>4. Lasts(kv', evaluated', n_past')
    BY <2>1, <2>3
  <2> QED BY <2>1, <2>2, <2>4 DEF ExactInv
<1>6. ASSUME NEW t \in Vocab, EvalChunk(t) PROVE ExactInv'
  <2>1. images' /\ ~cache_valid' /\ cached' = <<>> /\ pc' \in {"chunks", "loop", "ended"}
    BY <1>0, <1>6 DEF EvalChunk, FitInv, ChunkRoom, CacheUse, MidRun
  <2> QED BY <2>1 DEF ExactInv
<1>7. CASE Emit
  <2>1. pc' \in {"finished", "decode"} /\ pc = "loop"
        /\ UNCHANGED <<kv, cached, evaluated, n_past, cache_valid, images>>
    BY <1>7 DEF Emit
  <2> QED BY <2>1, ExactKept DEF Window
<1>8. CASE Slide
  <2>1. 1 < Context /\ n_past <= Context /\ DOMAIN kv = 0 .. n_past - 1
        /\ (~images => Len(evaluated) = n_past /\ Lasts(kv, evaluated, n_past))
    BY <1>0, <1>8 DEF Slide, FitInv, LoopRoom, Ends, ExactInv, Window
  <2>2. Discard \in Nat /\ 1 <= Discard /\ Discard <= n_past - 1
    BY <1>8, <1>a, <2>1, DiscardBound DEF Slide, Discard
  <2>3. /\ kv' = SeqAdd(SeqRm(kv, 1, 1 + Discard), 1 + Discard, Discard)
        /\ n_past' = n_past - Discard /\ pc' = "decode" /\ cached' = <<>>
        /\ ~cache_valid' /\ images' = images
        /\ ~images => evaluated' = TrimGenerationWindow(evaluated, Discard)
    BY <1>8 DEF Slide, SlidValid
  <2>4. ASSUME ~images PROVE Lasts(kv', evaluated', n_past')
    <3>1. Lasts(SeqAdd(SeqRm(kv, 1, 1 + Discard), 1 + Discard, Discard),
                TrimGenerationWindow(evaluated, Discard), Len(evaluated) - Discard)
      BY <1>a, <2>1, <2>2, <2>4, SlideLasts DEF Cells
    <3> QED BY <2>1, <2>3, <2>4, <3>1
  <2> QED BY <2>3, <2>4 DEF ExactInv
<1>9. CASE Rebuild
  <2>1. kv' = <<>> /\ offset' = 0 /\ pc' = "rebuild" /\ cached' = <<>>
    BY <1>9 DEF Rebuild
  <2>2. Prefix(kv', evaluated', offset')
    BY <2>1, PrefixEmpty
  <2> QED BY <2>1, <2>2 DEF ExactInv, Window
<1>10. CASE RebuildBatch
  <2>1. /\ offset < Len(evaluated) /\ Prefix(kv, evaluated, offset) /\ pc = "rebuild"
    BY <1>0, <1>10 DEF RebuildBatch, ExactInv, FitInv, RebuildRoom
  <2>2. PICK b \in Nat : /\ offset + b <= Len(evaluated) /\ Len(Batched(evaluated)) = b
                         /\ Batched(evaluated) = SubSeq(evaluated, offset + 1, offset + b)
    BY <1>a, <2>1, BatchIsNext DEF Cells
  <2>3. /\ kv' = Decode(kv, offset, SubSeq(evaluated, offset + 1, offset + b))
        /\ offset' = offset + b /\ evaluated' = evaluated /\ cached' = <<>>
        /\ \/ pc' = "rebuild"
           \/ pc' = "decode" /\ offset + b = Len(evaluated) /\ n_past' = Len(evaluated)
    BY <1>0, <1>10, <2>2 DEF RebuildBatch, CacheUse, MidRun
  <2>4. Prefix(kv', evaluated', offset')
    BY <1>a, <2>1, <2>2, <2>3, DecodePrefix DEF Cells
  <2>5. ASSUME pc' = "decode" PROVE Prefix(kv', evaluated', n_past') /\ Lasts(kv', evaluated', n_past')
    <3>1. Prefix(kv', evaluated', n_past') /\ n_past' = Len(evaluated) /\ evaluated' = evaluated
      BY <2>3, <2>4, <2>5
    <3>2. Len(evaluated) \in Nat
      BY <1>a DEF Cells
    <3> QED BY <1>a, <3>1, <3>2, PrefixLasts DEF Cells
  <2> QED BY <2>3, <2>4, <2>5 DEF ExactInv, Window
<1>11. ASSUME NEW t \in Vocab, DecodeToken(t) PROVE ExactInv'
  <2>1. /\ token \in Vocab \cup {Image} /\ DOMAIN kv = 0 .. n_past - 1 /\ CellTypes(kv)
        /\ (~images => Len(evaluated) = n_past /\ Lasts(kv, evaluated, n_past))
        /\ (cache_valid => ~images /\ Prefix(kv, evaluated, n_past))
    BY <1>0, <1>11
    DEF DecodeToken, LocalsTyped, SampleInv, Ends, KvTyped, CacheUse, FitInv, LoopRoom,
        ExactInv, Window
  <2>2. /\ kv' = Decode(kv, n_past, <<token>>) /\ n_past' = n_past + 1 /\ pc' = "loop"
        /\ cached' = <<>> /\ images' = images /\ cache_valid' = cache_valid
        /\ ~images => evaluated' = Append(evaluated, token)
    BY <1>0, <1>11 DEF DecodeToken, CacheUse, MidRun, Window
  <2>3. ASSUME cache_valid PROVE Prefix(kv', evaluated', n_past')
    <3>1. Len(evaluated) = n_past /\ Prefix(kv, evaluated, Len(evaluated))
      BY <2>1, <2>3
    <3>2. Prefix(Decode(kv, Len(evaluated), <<token>>), Append(evaluated, token), Len(evaluated) + 1)
      BY <1>a, <2>1, <3>1, AppendPrefix DEF Cells
    <3> QED BY <2>1, <2>2, <2>3, <3>1, <3>2
  <2>4. ASSUME ~images PROVE Lasts(kv', evaluated', n_past')
    <3>1. /\ \A q \in 0 .. n_past - 1 : kv'[q] = kv[q]
          /\ Last(kv'[n_past]) = token
      BY <1>a, <2>1, <2>2, DecodeLast
    <3>2. PICK v : v = Append(evaluated, token)
      OBVIOUS
    <3>3. v[n_past + 1] = token /\ \A i \in 1 .. n_past : v[i] = evaluated[i]
      BY <1>a, <2>1, <2>4, <3>2 DEF Cells
    <3>4. ASSUME NEW i \in 1 .. n_past + 1 PROVE Last(kv'[i - 1]) = v[i]
      <4>1. CASE i = n_past + 1
        BY <1>a, <3>1, <3>3, <4>1
      <4>2. CASE i \in 1 .. n_past
        <5>1. i - 1 \in 0 .. n_past - 1
          BY <1>a, <4>2
        <5> QED BY <2>1, <2>4, <3>1, <3>3, <4>2, <5>1 DEF Lasts
      <4> QED BY <1>a, <4>1, <4>2
    <3>5. evaluated' = v /\ n_past' = n_past + 1
      BY <2>2, <2>4, <3>2
    <3> QED BY <3>4, <3>5 DEF Lasts
  <2> QED BY <2>2, <2>3, <2>4 DEF ExactInv
<1>12. CASE PrefillFails \/ EvalChunkFails \/ RebuildFails
  <2>1. pc' = "ended" /\ cached' = <<>>
    BY <1>0, <1>12 DEF PrefillFails, EvalChunkFails, RebuildFails, CacheUse, MidRun
  <2> QED BY <2>1 DEF ExactInv, Window
<1>13. CASE Stopped \/ DecodeTokenFails
  <2>1. pc' = "ended" /\ UNCHANGED <<kv, cached, evaluated, n_past, cache_valid, images>>
    BY <1>13 DEF Stopped, DecodeTokenFails
  <2> QED BY <2>1, ExactKept DEF Window
<1>14. CASE NoRoom
  <2>1. pc' = "ended" /\ cached' = <<>>
    BY <1>14 DEF NoRoom
  <2> QED BY <2>1 DEF ExactInv, Window
<1>15. CASE Finish
  <2>1. /\ pc \in Window /\ pc' = "ended" /\ kv' = kv
        /\ cached' = IF cache_valid THEN evaluated ELSE cached
    BY <1>15 DEF Finish, Window
  <2>2. CASE cache_valid
    <3>1. Len(evaluated) = n_past /\ Prefix(kv, evaluated, n_past)
      BY <1>0, <2>1, <2>2 DEF FitInv, LoopRoom, CacheUse, ExactInv, Window
    <3>2. Prefix(kv', cached', Len(cached'))
      BY <2>1, <2>2, <3>1
    <3> QED BY <2>1, <3>2 DEF ExactInv, Window
  <2>3. CASE ~cache_valid
    BY <2>1, <2>3 DEF ExactInv, Prefix, Window
  <2> QED BY <2>2, <2>3
<1>16. ASSUME NEW owned \in BOOLEAN, ReleaseSlot(owned) PROVE ExactInv'
  <2>1. pc' = "idle" /\ cached' \in {cached, <<>>} /\ (cached' # <<>> => kv' = kv)
    BY <1>16 DEF ReleaseSlot
  <2>2. ASSUME cached' # <<>> PROVE Prefix(kv', cached', Len(cached'))
    <3>1. cached' = cached /\ kv' = kv
      BY <2>1, <2>2
    <3>2. Prefix(kv, cached, Len(cached))
      BY <2>2, <3>1 DEF ExactInv
    <3> QED BY <3>1, <3>2
  <2> QED BY <2>1, <2>2 DEF ExactInv, Window
<1>17. CASE UNCHANGED vars
  BY <1>17 DEF vars, ExactInv, Prefix, Lasts
<1> QED BY <1>1, <1>2, <1>3, <1>4, <1>5, <1>6, <1>7, <1>8, <1>9, <1>10, <1>11, <1>12,
           <1>13, <1>14, <1>15, <1>16, <1>17 DEF Next

LEMMA ExactAlways == Spec => [](RunInv /\ ExactInv)
  BY RunAlways, ExactInit, ExactNext, PTL DEF Spec

\* What cached_tokens_ promises the next run is what a prefill of those tokens
\* would compute, whatever was reused, shifted, rebuilt or refused before.
THEOREM CacheAlwaysExact == Spec => []CacheIsExact
<1>1. ExactInv => CacheIsExact
  BY DEF ExactInv, Prefix, CacheIsExact
<1> QED BY <1>1, ExactAlways, PTL

\* While it generates, the sequence holds exactly the window.
THEOREM WindowAlwaysInKv == Spec => []WindowIsKv
<1>1. RunInv /\ ExactInv => WindowIsKv
  BY DEF RunInv, KvInv, Ends, FitInv, LoopRoom, ExactInv, Lasts, Window, WindowIsKv
<1> QED BY <1>1, ExactAlways, PTL

-----------------------------------------------------------------------------
(***************************************************************************)
(* What the window keeps of the text.                                      *)
(***************************************************************************)
\* w is the first token of s and its latest ones, at least half a context.
Keeps(w, s) ==
    /\ 1 <= Len(w) /\ Len(w) <= Len(s)
    /\ Len(w) >= Smaller(Len(s), Context \div 2)
    /\ w[1] = s[1]
    /\ \A i \in 2 .. Len(w) : w[i] = s[Len(s) - Len(w) + i]

\* Half a context, without the division.
LEMMA Half ==
    Context \in Nat /\ Context \div 2 \in Nat
    /\ 2 * (Context \div 2) <= Context /\ Context <= 2 * (Context \div 2) + 1
  BY GenerationAssumption DEF GenerationAssumption

LEMMA FitKeeps ==
    ASSUME NEW S, NEW p \in Seq(S), p # <<>>
    PROVE  Keeps(FitPromptContext(p), p)
<1>1. PICK n \in Nat : n = Len(p) /\ n >= 1
  OBVIOUS
<1>2. CASE Context <= 1 \/ n < Context
  <2>1. FitPromptContext(p) = p
    BY <1>1, <1>2 DEF FitPromptContext
  <2>2. Keeps(p, p)
    BY <1>1, Half DEF Keeps, Smaller
  <2> QED BY <2>1, <2>2
<1>3. CASE ~(Context <= 1 \/ n < Context)
  <2> DEFINE from == n - Context + 3
  <2>1. from \in 1 .. n + 1 /\ from \in Nat /\ n - from + 1 = Context - 2
    BY <1>1, <1>3, Half
  <2>2. PICK rest : rest = SubSeq(p, from, n)
    OBVIOUS
  <2>3. PICK v : v = <<p[1]>> \o rest
    OBVIOUS
  <2>4. FitPromptContext(p) = v
    <3>1. ~(Context <= 1 \/ Len(p) < Context)
      BY <1>1, <1>3
    <3>2. FitPromptContext(p) = <<p[1]>> \o SubSeq(p, Len(p) - Context + 3, Len(p))
      BY <3>1, Zenon DEF FitPromptContext
    <3>3. Len(p) - Context + 3 = from
      BY <1>1
    <3> QED BY <1>1, <2>2, <2>3, <3>2, <3>3
  <2> HIDE DEF from
  <2>5. /\ rest \in Seq(S) /\ Len(rest) = Context - 2 /\ p[1] \in S
        /\ \A i \in 1 .. Context - 2 : rest[i] = p[from + i - 1]
    BY <1>1, <1>3, <2>1, <2>2, Half
  <2>6. /\ Len(v) = Context - 1 /\ v[1] = p[1]
        /\ \A i \in 2 .. Context - 1 : v[i] = rest[i - 1]
    BY <1>3, <2>3, <2>5, Half
  <2>7. ASSUME NEW i \in 2 .. Len(v) PROVE v[i] = p[Len(p) - Len(v) + i]
    <3>1. /\ i \in 2 .. Context - 1 /\ i - 1 \in 1 .. Context - 2
          /\ from + (i - 1) - 1 = Len(p) - Len(v) + i
      BY <1>1, <2>6, Half DEF from
    <3>2. v[i] = rest[i - 1] /\ rest[i - 1] = p[from + (i - 1) - 1]
      BY <2>5, <2>6, <3>1
    <3> QED BY <3>1, <3>2
  <2>8. /\ 1 <= Len(v) /\ Len(v) <= Len(p)
        /\ Len(v) >= Smaller(Len(p), Context \div 2)
    BY <1>1, <1>3, <2>6, Half DEF Smaller
  <2> QED BY <2>4, <2>6, <2>7, <2>8 DEF Keeps
<1> QED BY <1>2, <1>3

LEMMA TrimKeeps ==
    ASSUME NEW S, NEW w \in Seq(S), NEW s \in Seq(S), Keeps(w, s), 1 < Context,
           Len(w) <= Context, GenerationWindowDiscard(Len(w)) > 0
    PROVE  Keeps(TrimGenerationWindow(w, GenerationWindowDiscard(Len(w))), s)
<1>1. PICK n \in Nat : n = Len(w)
  OBVIOUS
<1>2. PICK d : d = GenerationWindowDiscard(n)
  OBVIOUS
<1>3. d \in Nat /\ n = Context /\ d <= n - 1 /\ d > 0
  BY <1>1, <1>2, DiscardBound
<1>4. n - d >= Context \div 2
  BY <1>2, <1>3, Half DEF GenerationWindowDiscard, Larger
<1>5. PICK v : v = TrimGenerationWindow(w, d)
  OBVIOUS
<1>6. /\ Len(v) = n - d /\ v[1] = w[1]
      /\ \A i \in 2 .. n - d : v[i] = w[i + d]
  BY <1>1, <1>3, <1>5, TrimLength, TrimTokens
<1>7. /\ 1 <= n /\ n <= Len(s) /\ w[1] = s[1] /\ Len(s) \in Nat
      /\ \A i \in 2 .. n : w[i] = s[Len(s) - n + i]
  BY <1>1 DEF Keeps
<1>8. ASSUME NEW i \in 2 .. Len(v) PROVE v[i] = s[Len(s) - Len(v) + i]
  <2>1. i \in 2 .. n - d /\ i + d \in 2 .. n /\ Len(s) - n + (i + d) = Len(s) - Len(v) + i
    BY <1>3, <1>6, <1>7
  <2>2. v[i] = w[i + d] /\ w[i + d] = s[Len(s) - n + (i + d)]
    BY <1>6, <1>7, <2>1
  <2> QED BY <2>1, <2>2
<1>9. /\ 1 <= Len(v) /\ Len(v) <= Len(s) /\ Len(v) >= Smaller(Len(s), Context \div 2)
  BY <1>3, <1>4, <1>6, <1>7, Half DEF Smaller
<1>10. Keeps(v, s)
  BY <1>6, <1>7, <1>8, <1>9 DEF Keeps
<1> QED BY <1>1, <1>2, <1>5, <1>10

LEMMA AppendKeeps ==
    ASSUME NEW S, NEW w \in Seq(S), NEW s \in Seq(S), NEW x \in S, Keeps(w, s)
    PROVE  Keeps(Append(w, x), Append(s, x))
<1>1. PICK n \in Nat, k \in Nat : n = Len(w) /\ k = Len(s)
  OBVIOUS
<1>2. PICK v, u : v = Append(w, x) /\ u = Append(s, x)
  OBVIOUS
<1>3. /\ Len(v) = n + 1 /\ v[n + 1] = x /\ \A i \in 1 .. n : v[i] = w[i]
      /\ Len(u) = k + 1 /\ u[k + 1] = x /\ \A i \in 1 .. k : u[i] = s[i]
  BY <1>1, <1>2
<1>4. /\ 1 <= n /\ n <= k /\ w[1] = s[1] /\ n >= Smaller(k, Context \div 2)
      /\ \A i \in 2 .. n : w[i] = s[k - n + i]
  BY <1>1 DEF Keeps
<1>5. ASSUME NEW i \in 2 .. n + 1 PROVE v[i] = u[(k + 1) - (n + 1) + i]
  <2>1. CASE i = n + 1
    <3>1. (k + 1) - (n + 1) + i = k + 1
      BY <2>1
    <3> QED BY <1>3, <2>1, <3>1
  <2>2. CASE i # n + 1
    <3>1. /\ i \in 2 .. n /\ i \in 1 .. n /\ k - n + i \in 1 .. k
          /\ (k + 1) - (n + 1) + i = k - n + i
      BY <1>4, <2>2
    <3>2. v[i] = w[i] /\ w[i] = s[k - n + i] /\ u[k - n + i] = s[k - n + i]
      BY <1>3, <1>4, <3>1
    <3> QED BY <3>1, <3>2
  <2> QED BY <2>1, <2>2
<1>6. v[1] = u[1]
  BY <1>3, <1>4
<1>7. /\ 1 <= n + 1 /\ n + 1 <= k + 1 /\ n + 1 >= Smaller(k + 1, Context \div 2)
  BY <1>4, Half DEF Smaller
<1>8. Keeps(v, u)
  BY <1>3, <1>5, <1>6, <1>7 DEF Keeps
<1> QED BY <1>2, <1>8

EndsInv ==
    /\ pc \in {"reuse", "prefill"} => Keeps(prompt, text)
    /\ pc \in Window \cup {"rebuild"} /\ ~images => Keeps(evaluated, text)

LEMMA EndsInit == Init => EndsInv
  BY DEF Init, EndsInv, Window

\* A step that changes no token and does not begin a run.
LEMMA EndsKept ==
    ASSUME EndsInv, UNCHANGED <<prompt, evaluated, text, images>>,
           \/ pc' = pc
           \/ pc = "reuse" /\ pc' = "prefill"
           \/ pc \in Window \cup {"rebuild"} /\ pc' \in Window \cup {"rebuild"}
           \/ pc' \in {"chunks", "ended", "idle"}
    PROVE  EndsInv'
<1>1. Keeps(prompt, text)' <=> Keeps(prompt, text)
  BY DEF Keeps
<1>2. Keeps(evaluated, text)' <=> Keeps(evaluated, text)
  BY DEF Keeps
<1> QED BY <1>1, <1>2 DEF EndsInv, Window

\* A full window gives up the discarded tokens, whoever gives them up.
LEMMA EndsTrimmed ==
    ASSUME RunInv, EndsInv, pc \in Window, ~images, Discard > 0,
           evaluated' = TrimGenerationWindow(evaluated, Discard), text' = text
    PROVE  Keeps(evaluated', text')
<1>1. Keeps(evaluated, text) /\ evaluated \in Cells /\ text \in Cells
  BY DEF EndsInv, RunInv, KvInv, LocalsTyped
<1>2. 1 < Context /\ Len(evaluated) = n_past /\ n_past <= Context
  BY DEF RunInv, FitInv, LoopRoom, Window
<1>3. GenerationWindowDiscard(Len(evaluated)) > 0
  BY <1>2 DEF Discard
<1>4. Len(evaluated) <= Context
  BY <1>2
<1>5. Keeps(TrimGenerationWindow(evaluated, GenerationWindowDiscard(Len(evaluated))), text)
  BY <1>1, <1>2, <1>3, <1>4, TrimKeeps DEF Cells
<1> QED BY <1>2, <1>5 DEF Discard

LEMMA EndsNext == RunInv /\ EndsInv /\ [Next]_vars => EndsInv'
<1> SUFFICES ASSUME RunInv, EndsInv, [Next]_vars PROVE EndsInv'
  OBVIOUS
<1> USE DEF memVars, runVars, winVars, outVars
<1>1. ASSUME NEW p \in Texts, NEW limit \in Limits, Submit(p, limit) PROVE EndsInv'
  <2>1. /\ prompt' = FitPromptContext(p) /\ text' = p /\ pc' \in {"ended", "reuse"}
        /\ pc' = "reuse" => p # <<>>
    BY <1>1 DEF Submit
  <2>2. ASSUME pc' = "reuse" PROVE Keeps(prompt', text')
    <3>1. p \in Cells /\ p # <<>>
      BY <2>1, <2>2, PromptCells
    <3>2. Keeps(FitPromptContext(p), p)
      BY <3>1, FitKeeps DEF Cells
    <3> QED BY <2>1, <3>2
  <2> QED BY <2>1, <2>2 DEF EndsInv, Window
<1>2. ASSUME NEW p \in WithImages, NEW limit \in Limits, SubmitImages(p, limit)
      PROVE  EndsInv'
  <2>1. pc' \in {"chunks", "ended"}
    BY <1>2 DEF SubmitImages
  <2> QED BY <2>1 DEF EndsInv, Window
<1>3. CASE Reuse
  <2>1. /\ UNCHANGED <<prompt, evaluated, text, images>>
        /\ pc = "reuse" /\ pc' \in {"prefill", "ended"}
    BY <1>3 DEF Reuse
  <2> QED BY <2>1, EndsKept
<1>4. ASSUME NEW t \in Vocab, PrefillBatch(t) PROVE EndsInv'
  <2>1. UNCHANGED <<pc, prompt, evaluated, text, images>>
    BY <1>4 DEF PrefillBatch
  <2> QED BY <2>1, EndsKept
<1>5. CASE PrefillDone
  <2>1. Keeps(prompt, text) /\ evaluated' = prompt /\ text' = text /\ pc' = "loop"
    BY <1>5 DEF PrefillDone, EndsInv
  <2>2. Keeps(evaluated', text')
    BY <2>1
  <2> QED BY <2>1, <2>2 DEF EndsInv
<1>6. ASSUME NEW t \in Vocab, EvalChunk(t) PROVE EndsInv'
  <2>1. images' /\ pc' \in {"chunks", "ended", "loop"}
    BY <1>6 DEF EvalChunk, RunInv, FitInv, ChunkRoom
  <2> QED BY <2>1 DEF EndsInv
<1>7. ASSUME NEW t \in Vocab, DecodeToken(t) PROVE EndsInv'
  <2>1. /\ pc \in Window /\ pc' = "loop" /\ images' = images
        /\ text' = Append(text, token)
        /\ ~images => evaluated' = Append(evaluated, token)
    BY <1>7 DEF DecodeToken, Window
  <2>2. ASSUME ~images PROVE Keeps(evaluated', text')
    <3>1. token \in Vocab \cup {Image} /\ evaluated \in Cells /\ text \in Cells
      BY <2>1 DEF RunInv, KvInv, LocalsTyped, SampleInv
    <3>2. Keeps(evaluated, text)
      BY <2>1, <2>2 DEF EndsInv
    <3>3. Keeps(Append(evaluated, token), Append(text, token))
      BY <3>1, <3>2, AppendKeeps DEF Cells
    <3> QED BY <2>1, <2>2, <3>3
  <2> QED BY <2>1, <2>2 DEF EndsInv
<1>8. CASE Emit \/ RebuildBatch
  <2>1. /\ UNCHANGED <<prompt, evaluated, text, images>>
        /\ pc \in Window \cup {"rebuild"} /\ pc' \in Window \cup {"rebuild"}
    BY <1>8 DEF Emit, RebuildBatch, Window
  <2> QED BY <2>1, EndsKept
<1>9. CASE Slide \/ Rebuild
  <2>1. /\ pc = "decode" /\ Discard > 0 /\ text' = text /\ images' = images
        /\ pc' \in {"decode", "rebuild"}
        /\ ~images => evaluated' = TrimGenerationWindow(evaluated, Discard)
    BY <1>9 DEF Slide, Rebuild
  <2>2. ASSUME ~images PROVE Keeps(evaluated', text')
    BY <2>1, <2>2, EndsTrimmed DEF Window
  <2> QED BY <2>1, <2>2 DEF EndsInv
<1>10. CASE PrefillFails \/ EvalChunkFails \/ RebuildFails \/ Stopped \/ NoRoom
            \/ DecodeTokenFails \/ Finish
  <2>1. pc' = "ended"
    BY <1>10 DEF PrefillFails, EvalChunkFails, RebuildFails, Stopped, NoRoom,
                 DecodeTokenFails, Finish
  <2> QED BY <2>1 DEF EndsInv, Window
<1>11. ASSUME NEW owned \in BOOLEAN, ReleaseSlot(owned) PROVE EndsInv'
  <2>1. pc' = "idle"
    BY <1>11 DEF ReleaseSlot
  <2> QED BY <2>1 DEF EndsInv, Window
<1>12. CASE UNCHANGED vars
  <2>1. UNCHANGED <<pc, prompt, evaluated, text, images>>
    BY <1>12 DEF vars
  <2> QED BY <2>1, EndsKept
<1> QED BY <1>1, <1>2, <1>3, <1>4, <1>5, <1>6, <1>7, <1>8, <1>9, <1>10, <1>11, <1>12
        DEF Next

\* However long the prompt and the output, the window is the first token and
\* the latest ones, at least half a context of them: what FitPromptContext and
\* every slide and rebuild of the window leave, token after token.
THEOREM WindowAlwaysKeepsEnds == Spec => []WindowKeepsEnds
<1>1. EndsInv => WindowKeepsEnds
  BY DEF EndsInv, Keeps, Window, WindowKeepsEnds
<1> QED BY <1>1, RunAlways, EndsInit, EndsNext, PTL DEF Spec
=============================================================================
