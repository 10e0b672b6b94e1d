------------------------------- MODULE AudioProofs -------------------------------
(***************************************************************************)
(* The detector (Vad.tla), then the pipeline it is a part of                 *)
(* (AudioPipeline.tla), for every capacity, window and number of switches:    *)
(* types, the bound of the speech buffer, the order of what is sent, that no  *)
(* speech is lost, the order of the audio from the radio to the server, the   *)
(* counters of what is dropped, and chunks of one mode.                       *)
(***************************************************************************)
EXTENDS AudioPipeline, FiniteSetTheorems, SequenceTheorems, TLAPS

(* The running count is the number of active verdicts in the circle.          *)
Verdicts(w) == {i \in 0..(OnsetWindowFrames - 1) : w[i]}

Counted ==
    /\ IsFiniteSet(Verdicts(onsetWindow))
    /\ onsetActiveCount = Cardinality(Verdicts(onsetWindow))

(* The pre-roll keeps to its capacity, and the two buffers are never both in use. *)
Buffers ==
    /\ Len(preRoll) <= PreRollFrames
    /\ inSpeech => preRoll = <<>>
    /\ ~inSpeech => speechBuf = <<>>

IInv == VadTypeOK /\ Counted /\ Buffers /\ BufferBounded
-----------------------------------------------------------------------------
LEMMA ConstantTypes ==
    /\ OnsetWindowFrames \in Nat \ {0} /\ OnsetConfirmFrames \in 1..OnsetWindowFrames
    /\ PreRollFrames \in Nat \ {0} /\ MaxSpeechFrames \in Nat /\ PreRollFrames < MaxSpeechFrames
    /\ SilenceFrames \subseteq Nat \ {0} /\ TrailingKeepFrames \in Nat
BY VadAssumption

(* PushOnsetWindow keeps the count right and within the window.               *)
LEMMA CountKept ==
    ASSUME IInv, NEW a \in BOOLEAN
    PROVE  LET w == [onsetWindow EXCEPT ![onsetWindowPos] = a]
           IN  /\ w \in [0..(OnsetWindowFrames - 1) -> BOOLEAN]
               /\ IsFiniteSet(Verdicts(w))
               /\ CountWith(a) = Cardinality(Verdicts(w))
               /\ CountWith(a) \in 0..OnsetWindowFrames
<1> DEFINE w == [onsetWindow EXCEPT ![onsetWindowPos] = a]
           p == onsetWindowPos
           Circle == 0..(OnsetWindowFrames - 1)
           others == Verdicts(onsetWindow) \ {p}
<1>1. onsetWindow \in [Circle -> BOOLEAN] /\ p \in Circle
  BY DEF IInv, VadTypeOK
<1>2. w \in [Circle -> BOOLEAN]
  BY <1>1
<1>3. IsFiniteSet(Verdicts(onsetWindow)) /\ onsetActiveCount = Cardinality(Verdicts(onsetWindow))
  BY DEF IInv, Counted
<1>4. IsFiniteSet(others) /\ p \notin others
  BY <1>3, FS_RemoveElement
<1>5. Cardinality(others) = onsetActiveCount - (IF onsetWindow[p] THEN 1 ELSE 0)
  <2>1. CASE onsetWindow[p]
    <3>1. p \in Verdicts(onsetWindow)
      BY <1>1, <2>1 DEF Verdicts
    <3>2. Cardinality(others) = Cardinality(Verdicts(onsetWindow)) - 1
      BY <1>3, <3>1, FS_RemoveElement
    <3> QED BY <1>3, <2>1, <3>2
  <2>2. CASE ~onsetWindow[p]
    <3>1. others = Verdicts(onsetWindow)
      BY <2>2 DEF Verdicts
    <3>2. Cardinality(Verdicts(onsetWindow)) \in Nat
      BY <1>3, FS_CardinalityType
    <3> HIDE DEF others, p
    <3> QED BY <1>3, <2>2, <3>1, <3>2
  <2> QED BY <2>1, <2>2
<1>6. Verdicts(w) = IF a THEN others \union {p} ELSE others
  BY <1>1 DEF Verdicts
<1>7. /\ IsFiniteSet(Verdicts(w))
      /\ Cardinality(Verdicts(w)) = Cardinality(others) + (IF a THEN 1 ELSE 0)
  <2>1. CASE a
    <3>1. Verdicts(w) = others \union {p}
      BY <2>1, <1>6
    <3>2. IsFiniteSet(others \union {p}) /\ Cardinality(others \union {p}) = Cardinality(others) + 1
      BY <1>4, FS_AddElement
    <3> HIDE DEF others, w, p
    <3> QED BY <2>1, <3>1, <3>2
  <2>2. CASE ~a
    <3>1. Verdicts(w) = others
      BY <2>2, <1>6
    <3>2. Cardinality(others) \in Nat
      BY <1>4, FS_CardinalityType
    <3> HIDE DEF others, w, p
    <3> QED BY <2>2, <3>1, <3>2, <1>4
  <2> HIDE DEF others, w, p
  <2> QED BY <2>1, <2>2
<1>8. CountWith(a) = Cardinality(Verdicts(w))
  BY <1>5, <1>7 DEF CountWith
<1>9. Cardinality(Verdicts(w)) \in 0..OnsetWindowFrames
  <2>1. IsFiniteSet(Circle) /\ Cardinality(Circle) = OnsetWindowFrames
    BY FS_Interval, ConstantTypes
  <2>2. Verdicts(w) \subseteq Circle
    BY DEF Verdicts
  <2>3. Cardinality(Verdicts(w)) <= Cardinality(Circle)
    BY <2>1, <2>2, FS_Subset
  <2> QED BY <2>1, <2>3, <1>7, FS_CardinalityType, ConstantTypes
<1> QED BY <1>2, <1>7, <1>8, <1>9

LEMMA NoVerdicts == IsFiniteSet(Verdicts(ClosedWindow)) /\ Cardinality(Verdicts(ClosedWindow)) = 0
<1>1. Verdicts(ClosedWindow) = {}
  BY DEF Verdicts, ClosedWindow
<1> QED BY <1>1, FS_EmptySet

LEMMA ClosedWindowType ==
    /\ ClosedWindow \in [0..(OnsetWindowFrames - 1) -> BOOLEAN]
    /\ 0 \in 0..(OnsetWindowFrames - 1)
BY ConstantTypes DEF ClosedWindow

(* PushPreRoll keeps the last frames, in their order.                          *)
LEMMA Rolled ==
    ASSUME preRoll \in Seq(Nat), Len(preRoll) <= PreRollFrames, NEW f \in Nat
    PROVE  /\ RolledWith(f) \in Seq(Nat)
           /\ Len(RolledWith(f)) \in 1..PreRollFrames
           /\ \E d \in Nat : /\ Len(RolledWith(f)) + d = Len(preRoll) + 1
                             /\ \A i \in 1..Len(RolledWith(f)) :
                                  RolledWith(f)[i] = Append(preRoll, f)[i + d]
<1> DEFINE s == Append(preRoll, f)
           d == Excess(Len(s), PreRollFrames)
<1>1. s \in Seq(Nat) /\ Len(s) = Len(preRoll) + 1
  OBVIOUS
<1>2. d \in Nat /\ d < Len(s) /\ Len(s) - d <= PreRollFrames
  BY <1>1, ConstantTypes DEF Excess
<1>3. RolledWith(f) = SubSeq(s, d + 1, Len(s))
  BY DEF RolledWith
<1> HIDE DEF s, d
<1>4. /\ SubSeq(s, d + 1, Len(s)) \in Seq(Nat)
      /\ Len(SubSeq(s, d + 1, Len(s))) = Len(s) - d
      /\ \A i \in 1..(Len(s) - d) : SubSeq(s, d + 1, Len(s))[i] = s[i + d]
  <2>1. Len(s) \in Nat /\ \A i \in (d + 1)..Len(s) : s[i] \in Nat
    BY ONLY <1>1, <1>2
  <2>2. d + 1 \in Int /\ Len(s) \in Int /\ d + 1 <= Len(s)
    BY ONLY <1>2, <2>1
  <2>3. /\ SubSeq(s, d + 1, Len(s)) \in Seq(Nat)
        /\ Len(SubSeq(s, d + 1, Len(s))) = Len(s) - (d + 1) + 1
        /\ \A i \in 1..(Len(s) - (d + 1) + 1) : SubSeq(s, d + 1, Len(s))[i] = s[(d + 1) + i - 1]
    BY ONLY <2>1, <2>2, SubSeqProperties
  <2> QED BY ONLY <1>2, <2>1, <2>3
<1>5. Len(RolledWith(f)) + d = Len(preRoll) + 1
  BY <1>1, <1>2, <1>3, <1>4
<1>6. \A i \in 1..Len(RolledWith(f)) : RolledWith(f)[i] = Append(preRoll, f)[i + d]
  <2>1. \A i \in 1..Len(RolledWith(f)) : RolledWith(f)[i] = s[i + d]
    BY ONLY <1>3, <1>4
  <2> QED BY ONLY <2>1 DEF s
<1>7. Len(RolledWith(f)) \in 1..PreRollFrames
  BY <1>1, <1>2, <1>3, <1>4, ConstantTypes
<1> QED BY <1>2, <1>3, <1>4, <1>5, <1>6, <1>7

(* Trimming the hangover leaves the start of the buffer.                       *)
LEMMA TrimmedPrefix ==
    ASSUME NEW s \in Seq(Nat), NEW n \in Nat
    PROVE  /\ Trimmed(s, n) \in Seq(Nat)
           /\ Len(Trimmed(s, n)) <= Len(s)
           /\ Len(s) - Len(Trimmed(s, n)) <= n
           /\ \A i \in 1..Len(Trimmed(s, n)) : Trimmed(s, n)[i] = s[i]
<1> DEFINE m == Len(s) - AtMost(n, Len(s))
<1>1. m \in Nat /\ m <= Len(s) /\ Len(s) - m <= n
  BY DEF AtMost
<1>2. Trimmed(s, n) = SubSeq(s, 1, m)
  BY DEF Trimmed
<1> HIDE DEF m
<1>3. Len(SubSeq(s, 1, m)) = m /\ \A i \in 1..m : SubSeq(s, 1, m)[i] = s[i]
  BY <1>1
<1>4. SubSeq(s, 1, m) \in Seq(Nat)
  BY <1>1
<1> QED BY <1>1, <1>2, <1>3, <1>4

-----------------------------------------------------------------------------
(* Types and the bound of the buffer.                                          *)

LEMMA TypeInit == VadInit => IInv
<1> SUFFICES ASSUME VadInit PROVE IInv
  OBVIOUS
<1>1. VadTypeOK
  <2>1. chunks \in Seq(Chunk) /\ preRoll \in Seq(Nat) /\ speechBuf \in Seq(Nat)
    BY DEF VadInit
  <2>2. onsetActiveCount \in 0..OnsetWindowFrames
    BY ConstantTypes DEF VadInit
  <2>3. /\ onsetWindow \in [0..(OnsetWindowFrames - 1) -> BOOLEAN]
        /\ onsetWindowPos \in 0..(OnsetWindowFrames - 1)
    BY ClosedWindowType DEF VadInit
  <2> QED BY <2>1, <2>2, <2>3 DEF VadInit, VadTypeOK
<1>2. Counted
  BY NoVerdicts DEF VadInit, Counted
<1>3. Buffers /\ BufferBounded
  BY ConstantTypes DEF VadInit, Buffers, BufferBounded
<1> QED BY <1>1, <1>2, <1>3 DEF IInv

(* What every frame adds to the history.                                       *)
LEMMA HistoryTypes ==
    ASSUME VadTypeOK, NEW f \in Nat, NEW a \in BOOLEAN, NEW silence \in SilenceFrames,
           ProcessFrame(f, a, silence)
    PROVE  frame' \in Nat /\ active' \subseteq Nat /\ spoken' \subseteq Nat
BY DEF ProcessFrame, VadTypeOK

LEMMA CountersTyped ==
    ASSUME VadTypeOK, NEW a \in BOOLEAN, NEW silence \in SilenceFrames
    PROVE  /\ SilentWith(a) \in Nat /\ ActiveWith(a) \in Nat
           /\ TrimFrames(a, silence) \in Nat
           /\ TrimFrames(a, silence) <= SilentWith(a)
           /\ Flushed \in BOOLEAN
<1>1. SilentWith(a) \in Nat /\ ActiveWith(a) \in Nat
  BY DEF VadTypeOK, SilentWith, ActiveWith
<1>2. silence \in Nat /\ TrailingKeepFrames \in Nat
  BY ConstantTypes
<1>3. TrimFrames(a, silence) \in Nat /\ TrimFrames(a, silence) <= SilentWith(a)
  BY <1>1, <1>2 DEF TrimFrames, AtMost, Excess
<1>4. Flushed \in BOOLEAN
  BY DEF Flushed
<1> QED BY <1>1, <1>3, <1>4

LEMMA TypeStep ==
    ASSUME IInv, NEW f \in Nat, NEW a \in BOOLEAN, NEW silence \in SilenceFrames,
           ProcessFrame(f, a, silence)
    PROVE  IInv'
<1> USE DEF IInv, Buffers, BufferBounded
<1>1. CASE StayIdle(f, a)
  <2>1. Counted' /\ onsetWindow' \in [0..(OnsetWindowFrames - 1) -> BOOLEAN]
                 /\ onsetActiveCount' \in 0..OnsetWindowFrames
    BY <1>1, CountKept DEF StayIdle, Counted
  <2>2. onsetWindowPos' \in 0..(OnsetWindowFrames - 1)
    BY <1>1, ConstantTypes DEF StayIdle, NextPos, VadTypeOK
  <2>3. preRoll' \in Seq(Nat) /\ Len(preRoll') <= PreRollFrames
    <3>1. RolledWith(f) \in Seq(Nat) /\ Len(RolledWith(f)) \in 1..PreRollFrames
      <4>1. preRoll \in Seq(Nat) /\ Len(preRoll) <= PreRollFrames
        BY DEF VadTypeOK
      <4> QED BY ONLY <4>1, f \in Nat, Rolled
    <3>2. preRoll' = RolledWith(f)
      BY <1>1 DEF StayIdle
    <3> QED BY ONLY <3>1, <3>2, ConstantTypes
  <2>4. VadTypeOK'
    BY <1>1, <2>1, <2>2, <2>3, HistoryTypes DEF StayIdle, VadTypeOK, segment
  <2> QED BY <1>1, <2>1, <2>3, <2>4 DEF StayIdle, segment
<1>2. CASE OpenSegment(f, a)
  <2>1. Counted' /\ onsetWindow' \in [0..(OnsetWindowFrames - 1) -> BOOLEAN]
                 /\ onsetWindowPos' \in 0..(OnsetWindowFrames - 1)
                 /\ onsetActiveCount' \in 0..OnsetWindowFrames
    <3>1. onsetWindow' = ClosedWindow /\ onsetWindowPos' = 0 /\ onsetActiveCount' = 0
      BY <1>2 DEF OpenSegment
    <3>2. 0 \in 0..(OnsetWindowFrames - 1) /\ 0 \in 0..OnsetWindowFrames
      BY ConstantTypes
    <3>3. Counted'
      BY <3>1, NoVerdicts DEF Counted
    <3> QED BY ONLY <3>1, <3>2, <3>3, ClosedWindowType
  <2>2. speechBuf' \in Seq(Nat) /\ Len(speechBuf') < MaxSpeechFrames
    <3>1. RolledWith(f) \in Seq(Nat) /\ Len(RolledWith(f)) <= PreRollFrames
      <4>1. preRoll \in Seq(Nat) /\ Len(preRoll) <= PreRollFrames
        BY DEF VadTypeOK
      <4>2. RolledWith(f) \in Seq(Nat) /\ Len(RolledWith(f)) \in 1..PreRollFrames
        BY ONLY <4>1, f \in Nat, Rolled
      <4> QED BY ONLY <4>2, ConstantTypes
    <3>2. speechBuf' = RolledWith(f)
      BY <1>2 DEF OpenSegment
    <3>3. Len(RolledWith(f)) \in Nat
      BY <3>1
    <3> QED BY <3>1, <3>2, <3>3, ConstantTypes
  <2>3. totalFrameCount' \in Nat /\ activeFrameCount' \in Nat
    <3>1. totalFrameCount' = Len(speechBuf') /\ activeFrameCount' = CountWith(a)
      BY <1>2 DEF OpenSegment
    <3>2. CountWith(a) \in 0..OnsetWindowFrames
      BY CountKept
    <3> QED BY <2>2, <3>1, <3>2
  <2>4. preRoll' = <<>> /\ preRoll' \in Seq(Nat) /\ Len(preRoll') = 0
    BY <1>2 DEF OpenSegment
  <2>5. VadTypeOK'
    BY <1>2, <2>1, <2>2, <2>3, <2>4, HistoryTypes DEF OpenSegment, VadTypeOK
  <2> QED BY <1>2, <2>1, <2>2, <2>4, <2>5, ConstantTypes DEF OpenSegment
<1>3. CASE Continue(f, a, silence)
  <2>1. speechBuf' \in Seq(Nat) /\ Len(speechBuf') = Len(speechBuf) + 1
    BY <1>3 DEF Continue, VadTypeOK
  <2>2. Len(speechBuf') < MaxSpeechFrames
    BY <1>3, <2>1, ConstantTypes DEF Continue, TooLong, VadTypeOK
  <2>3. totalFrameCount' \in Nat /\ activeFrameCount' \in Nat /\ silentFrames' \in Nat
    BY <1>3, CountersTyped DEF Continue, VadTypeOK
  <2>4. UNCHANGED <<onset, inSpeech, begun, chunks, rejected>>
    BY <1>3 DEF Continue
  <2>5. VadTypeOK'
    BY <2>1, <2>3, <2>4, HistoryTypes DEF VadTypeOK, onset
  <2> QED BY <1>3, <2>2, <2>5 DEF Continue, onset, Counted
<1>4. CASE CloseSegment(f, a, silence)
  <2> DEFINE said == Append(speechBuf, f)
             chunk == [frames |-> Trimmed(said, TrimFrames(a, silence)),
                       begun |-> begun, first |-> ~Flushed, last |-> TRUE]
             noise == [frames |-> said, begun |-> begun, first |-> ~Flushed]
  <2>1. said \in Seq(Nat) /\ begun \in Nat /\ (~Flushed) \in BOOLEAN
    BY CountersTyped DEF VadTypeOK
  <2>2. chunk \in Chunk
    BY <2>1, CountersTyped, TrimmedPrefix DEF Chunk
  <2>3. noise \in Segment
    BY <2>1 DEF Segment
  <2>4. \/ rejected' = rejected \union {noise} /\ chunks' = chunks
        \/ rejected' = rejected /\ chunks' = Append(chunks, chunk)
    BY <1>4 DEF CloseSegment
  <2> HIDE DEF chunk, noise
  <2>5. chunks' \in Seq(Chunk) /\ rejected' \subseteq Segment
    <3>1. chunks \in Seq(Chunk) /\ rejected \subseteq Segment
      BY DEF VadTypeOK
    <3>2. Append(chunks, chunk) \in Seq(Chunk)
      BY ONLY <2>2, <3>1
    <3>3. rejected \union {noise} \subseteq Segment
      BY ONLY <2>3, <3>1
    <3> QED BY ONLY <2>4, <3>1, <3>2, <3>3
  <2>6. speechBuf' = <<>> /\ speechBuf' \in Seq(Nat) /\ Len(speechBuf') = 0
    BY <1>4 DEF CloseSegment
  <2>7. /\ totalFrameCount' \in Nat /\ activeFrameCount' \in Nat /\ silentFrames' \in Nat
        /\ inSpeech' = FALSE
    BY <1>4, CountersTyped DEF CloseSegment, VadTypeOK
  <2>8. UNCHANGED <<onset, begun>>
    BY <1>4 DEF CloseSegment
  <2>9. VadTypeOK'
    BY <2>5, <2>6, <2>7, <2>8, HistoryTypes DEF VadTypeOK, onset
  <2> QED BY <1>4, <2>6, <2>9, ConstantTypes DEF CloseSegment, onset, Counted
<1>5. CASE FlushSegment(f, a, silence)
  <2> DEFINE chunk == [frames |-> Append(speechBuf, f), begun |-> begun, first |-> ~Flushed,
                       last |-> FALSE]
  <2>1. chunk \in Chunk
    BY CountersTyped DEF VadTypeOK, Chunk
  <2>2. chunks' = Append(chunks, chunk)
    BY <1>5 DEF FlushSegment
  <2> HIDE DEF chunk
  <2>3. chunks' \in Seq(Chunk)
    BY <2>1, <2>2 DEF VadTypeOK
  <2>4. speechBuf' = <<>> /\ speechBuf' \in Seq(Nat) /\ Len(speechBuf') = 0
    BY <1>5 DEF FlushSegment, AfterFlush
  <2>5. VadTypeOK'
    BY <1>5, <2>3, <2>4, HistoryTypes DEF FlushSegment, VadTypeOK, onset
  <2> QED BY <1>5, <2>4, <2>5, ConstantTypes DEF FlushSegment, onset, Counted
<1> QED BY <1>1, <1>2, <1>3, <1>4, <1>5 DEF ProcessFrame

THEOREM Inductive == VadSpec => []IInv
<1>1. IInv /\ [VadNext]_vadVars => IInv'
  <2> SUFFICES ASSUME IInv, [VadNext]_vadVars PROVE IInv'
    OBVIOUS
  <2>1. CASE VadNext
    <3>1. PICK a \in BOOLEAN, silence \in SilenceFrames : ProcessFrame(frame + 1, a, silence)
      BY <2>1 DEF VadNext
    <3>2. frame + 1 \in Nat
      BY DEF IInv, VadTypeOK
    <3> QED BY <3>1, <3>2, TypeStep
  <2>2. CASE UNCHANGED vadVars
    BY <2>2 DEF vadVars, onset, segment, vadHist, IInv, VadTypeOK, Counted, Buffers, BufferBounded
  <2> QED BY <2>1, <2>2
<1> QED BY <1>1, TypeInit, PTL DEF VadSpec

(* The types of the detector; the onset count stays within the window.          *)
THEOREM VadTypeCorrect == VadSpec => []VadTypeOK
<1>1. IInv => VadTypeOK
  BY DEF IInv
<1> QED BY <1>1, Inductive, PTL

(* No segment grows to MaxSpeechFrames without being flushed.                   *)
THEOREM TheBufferIsBounded == VadSpec => []BufferBounded
<1>1. IInv => BufferBounded
  BY DEF IInv
<1> QED BY <1>1, Inductive, PTL

-----------------------------------------------------------------------------
(* The order of what is sent.                                                  *)

Increasing(s) == \A k, l \in DOMAIN s : k < l => s[k] < s[l]
UpTo(s, n)    == \A k \in DOMAIN s : s[k] <= n
Before(s, t)  == \A k \in DOMAIN s, l \in DOMAIN t : s[k] < t[l]

(* The chunks, then what is in the buffers, then the frames to come.            *)
Ordered ==
    /\ Increasing(preRoll) /\ UpTo(preRoll, frame)
    /\ Increasing(speechBuf) /\ UpTo(speechBuf, frame)
    /\ \A i \in DOMAIN chunks :
         /\ Increasing(chunks[i].frames) /\ UpTo(chunks[i].frames, frame)
         /\ Before(chunks[i].frames, preRoll) /\ Before(chunks[i].frames, speechBuf)
    /\ \A i, j \in DOMAIN chunks : i < j => Before(chunks[i].frames, chunks[j].frames)

LEMMA AppendOrdered ==
    ASSUME NEW s \in Seq(Nat), NEW n \in Nat, NEW f \in Nat, n < f, Increasing(s), UpTo(s, n)
    PROVE  /\ Increasing(Append(s, f)) /\ UpTo(Append(s, f), f)
           /\ \A c \in Seq(Nat) : Before(c, s) /\ UpTo(c, n) => Before(c, Append(s, f))
<1>1. \A k \in DOMAIN s : s[k] \in Nat /\ s[k] < f
  BY DEF UpTo
<1>2. \A k \in DOMAIN Append(s, f) :
          (k \in DOMAIN s /\ Append(s, f)[k] = s[k]) \/ (k = Len(s) + 1 /\ Append(s, f)[k] = f)
  OBVIOUS
<1>3. DOMAIN s = 1..Len(s) /\ Len(s) \in Nat
  OBVIOUS
<1>4. Increasing(Append(s, f)) /\ UpTo(Append(s, f), f)
  BY <1>1, <1>2, <1>3 DEF Increasing, UpTo
<1>5. ASSUME NEW c \in Seq(Nat), Before(c, s), UpTo(c, n)
      PROVE  Before(c, Append(s, f))
  <2>1. \A k \in DOMAIN c : c[k] \in Nat /\ c[k] < f
    BY <1>5 DEF UpTo
  <2> QED BY <1>2, <1>5, <2>1 DEF Before
<1> QED BY <1>4, <1>5

(* A part of a sequence, from the place after d, keeps its order.              *)
LEMMA PartOrdered ==
    ASSUME NEW s \in Seq(Nat), NEW t \in Seq(Nat), NEW n \in Nat, NEW d \in Nat,
           Len(t) + d <= Len(s), \A i \in 1..Len(t) : t[i] = s[i + d],
           Increasing(s), UpTo(s, n)
    PROVE  /\ Increasing(t) /\ UpTo(t, n)
           /\ \A c \in Seq(Nat) : Before(c, s) => Before(c, t)
           /\ \A c \in Seq(Nat) : Before(s, c) => Before(t, c)
<1>1. \A i \in DOMAIN t : i \in Nat /\ i + d \in DOMAIN s /\ t[i] = s[i + d]
  <2>1. DOMAIN t = 1..Len(t) /\ Len(t) \in Nat /\ DOMAIN s = 1..Len(s) /\ Len(s) \in Nat
    OBVIOUS
  <2> QED BY <2>1
<1>2. Increasing(t)
  BY <1>1 DEF Increasing
<1>3. UpTo(t, n)
  BY <1>1 DEF UpTo
<1>4. \A c \in Seq(Nat) : (Before(c, s) => Before(c, t)) /\ (Before(s, c) => Before(t, c))
  BY <1>1 DEF Before
<1> QED BY <1>2, <1>3, <1>4

LEMMA EmptyOrdered ==
    /\ Increasing(<<>>) /\ \A n \in Nat : UpTo(<<>>, n)
    /\ \A c \in Seq(Nat) : Before(c, <<>>)
BY DEF Increasing, UpTo, Before

LEMMA ChunksTyped ==
    ASSUME chunks \in Seq(Chunk)
    PROVE  \A i \in DOMAIN chunks : chunks[i].frames \in Seq(Nat)
<1>1. \A i \in DOMAIN chunks : chunks[i] \in Chunk
  OBVIOUS
<1>2. \A c \in Chunk : c.frames \in Seq(Nat)
  BY DEF Chunk
<1> QED BY <1>1, <1>2

(* A chunk made of the start of the buffer with the new frame comes after all.  *)
LEMMA ChunkOrdered ==
    ASSUME IInv, Ordered, NEW f \in Nat, frame < f, NEW chunk \in Chunk,
           Len(chunk.frames) <= Len(Append(speechBuf, f)),
           \A i \in 1..Len(chunk.frames) : chunk.frames[i] = Append(speechBuf, f)[i],
           chunks' = Append(chunks, chunk),
           preRoll' = <<>>, speechBuf' = <<>>, frame' = f
    PROVE  Ordered'
<1> DEFINE s == Append(speechBuf, f)
<1>1. /\ speechBuf \in Seq(Nat) /\ frame \in Nat /\ chunks \in Seq(Chunk)
  BY DEF IInv, VadTypeOK
<1>2. s \in Seq(Nat) /\ chunk.frames \in Seq(Nat)
  BY <1>1 DEF Chunk
<1>3. \A i \in DOMAIN chunks : chunks[i].frames \in Seq(Nat)
  BY <1>1, ChunksTyped
<1>4. /\ Increasing(s) /\ UpTo(s, f)
      /\ \A c \in Seq(Nat) : Before(c, speechBuf) /\ UpTo(c, frame) => Before(c, s)
  BY <1>1, AppendOrdered DEF Ordered
<1>5. /\ Increasing(chunk.frames) /\ UpTo(chunk.frames, f)
      /\ \A c \in Seq(Nat) : Before(c, s) => Before(c, chunk.frames)
  <2> HIDE DEF s
  <2>1. Len(chunk.frames) + 0 <= Len(s) /\ \A i \in 1..Len(chunk.frames) : chunk.frames[i] = s[i + 0]
    BY <1>2 DEF s
  <2> QED BY <1>2, <1>4, <2>1, PartOrdered
<1>6. \A i \in DOMAIN chunks : Before(chunks[i].frames, chunk.frames) /\ UpTo(chunks[i].frames, f)
  <2> TAKE i \in DOMAIN chunks
  <2>1. Before(chunks[i].frames, chunk.frames)
    BY <1>3, <1>4, <1>5 DEF Ordered
  <2>2. UpTo(chunks[i].frames, f)
    BY <1>1, <1>3 DEF Ordered, UpTo
  <2> QED BY <2>1, <2>2
<1>7. \A i \in DOMAIN chunks' :
         \/ i \in DOMAIN chunks /\ chunks'[i] = chunks[i]
         \/ i = Len(chunks) + 1 /\ chunks'[i] = chunk
  BY <1>1
<1>8. DOMAIN chunks = 1..Len(chunks) /\ Len(chunks) \in Nat
  BY <1>1
<1>9. \A i \in DOMAIN chunks' :
         /\ Increasing(chunks'[i].frames) /\ UpTo(chunks'[i].frames, f)
         /\ Before(chunks'[i].frames, <<>>)
  BY <1>2, <1>3, <1>5, <1>6, <1>7, EmptyOrdered DEF Ordered
<1>10. \A i, j \in DOMAIN chunks' : i < j => Before(chunks'[i].frames, chunks'[j].frames)
  BY <1>6, <1>7, <1>8 DEF Ordered
<1> QED BY <1>9, <1>10, EmptyOrdered DEF Ordered

LEMMA OrderStep ==
    ASSUME IInv, Ordered, NEW f \in Nat, frame < f, NEW a \in BOOLEAN,
           NEW silence \in SilenceFrames, ProcessFrame(f, a, silence)
    PROVE  Ordered'
<1> DEFINE s == Append(speechBuf, f)
           p == Append(preRoll, f)
<1>1. frame' = f
  BY DEF ProcessFrame
<1>2. /\ speechBuf \in Seq(Nat) /\ preRoll \in Seq(Nat) /\ frame \in Nat /\ chunks \in Seq(Chunk)
  BY DEF IInv, VadTypeOK
<1>3. \A i \in DOMAIN chunks : chunks[i].frames \in Seq(Nat) /\ UpTo(chunks[i].frames, f)
  <2> TAKE i \in DOMAIN chunks
  <2>1. chunks[i].frames \in Seq(Nat)
    BY <1>2, ChunksTyped
  <2>2. UpTo(chunks[i].frames, frame)
    BY DEF Ordered
  <2> QED BY <1>2, <2>1, <2>2 DEF UpTo
<1>4. /\ Increasing(p) /\ UpTo(p, f)
      /\ \A i \in DOMAIN chunks : Before(chunks[i].frames, p)
  BY <1>2, <1>3, AppendOrdered DEF Ordered
<1>5. /\ RolledWith(f) \in Seq(Nat) /\ Increasing(RolledWith(f)) /\ UpTo(RolledWith(f), f)
      /\ \A i \in DOMAIN chunks : Before(chunks[i].frames, RolledWith(f))
  <2>1. p \in Seq(Nat) /\ Len(p) = Len(preRoll) + 1
    BY <1>2
  <2>2. RolledWith(f) \in Seq(Nat)
    BY <1>2, Rolled DEF IInv, Buffers
  <2>3. PICK d \in Nat : /\ Len(RolledWith(f)) + d = Len(p)
                         /\ \A i \in 1..Len(RolledWith(f)) : RolledWith(f)[i] = p[i + d]
    <3>1. Len(preRoll) <= PreRollFrames
      BY DEF IInv, Buffers
    <3>2. \E d \in Nat : /\ Len(RolledWith(f)) + d = Len(preRoll) + 1
                        /\ \A i \in 1..Len(RolledWith(f)) :
                             RolledWith(f)[i] = Append(preRoll, f)[i + d]
      BY <1>2, <3>1, Rolled
    <3> QED BY <2>1, <3>2
  <2>4. Len(RolledWith(f)) + d <= Len(p)
    BY <2>1, <2>3
  <2> HIDE DEF p
  <2> QED BY <1>3, <1>4, <2>1, <2>2, <2>3, <2>4, PartOrdered
<1>6. CASE StayIdle(f, a)
  BY <1>1, <1>2, <1>3, <1>5, <1>6, EmptyOrdered DEF StayIdle, segment, Ordered, IInv, Buffers
<1>7. CASE OpenSegment(f, a)
  BY <1>1, <1>2, <1>3, <1>5, <1>7, EmptyOrdered DEF OpenSegment, Ordered
<1>8. CASE Continue(f, a, silence)
  <2>1. /\ Increasing(s) /\ UpTo(s, f)
        /\ \A i \in DOMAIN chunks : Before(chunks[i].frames, s)
    BY <1>2, <1>3, AppendOrdered DEF Ordered
  <2>2. preRoll = <<>>
    BY <1>8 DEF Continue, IInv, Buffers
  <2> QED BY <1>1, <1>3, <1>8, <2>1, <2>2, EmptyOrdered DEF Continue, onset, Ordered
<1>9. CASE CloseSegment(f, a, silence) /\ TooLittle(a)
  <2>1. preRoll' = <<>> /\ speechBuf' = <<>> /\ chunks' = chunks
    BY <1>9 DEF CloseSegment, onset, IInv, Buffers
  <2> QED BY <1>1, <1>3, <2>1, EmptyOrdered DEF Ordered
<1>10. CASE CloseSegment(f, a, silence) /\ ~TooLittle(a)
  <2> DEFINE n == TrimFrames(a, silence)
             chunk == [frames |-> Trimmed(s, n), begun |-> begun, first |-> ~Flushed,
                       last |-> TRUE]
  <2>1. preRoll' = <<>> /\ speechBuf' = <<>> /\ chunks' = Append(chunks, chunk)
    BY <1>10 DEF CloseSegment, onset, IInv, Buffers
  <2>2. s \in Seq(Nat) /\ n \in Nat /\ Flushed \in BOOLEAN /\ begun \in Nat
    BY <1>2, CountersTyped DEF IInv, VadTypeOK
  <2>3. /\ Trimmed(s, n) \in Seq(Nat) /\ Len(Trimmed(s, n)) <= Len(s)
        /\ \A i \in 1..Len(Trimmed(s, n)) : Trimmed(s, n)[i] = s[i]
    BY <2>2, TrimmedPrefix
  <2>4. chunk \in Chunk /\ chunk.frames = Trimmed(s, n)
    BY <2>2, <2>3 DEF Chunk
  <2> HIDE DEF chunk, n
  <2> QED BY <1>1, <2>1, <2>3, <2>4, ChunkOrdered
<1>11. CASE FlushSegment(f, a, silence)
  <2> DEFINE chunk == [frames |-> s, begun |-> begun, first |-> ~Flushed, last |-> FALSE]
  <2>1. preRoll' = <<>> /\ speechBuf' = <<>> /\ chunks' = Append(chunks, chunk)
    BY <1>11 DEF FlushSegment, AfterFlush, onset, IInv, Buffers
  <2>2. s \in Seq(Nat) /\ Flushed \in BOOLEAN /\ begun \in Nat
    BY <1>2, CountersTyped DEF IInv, VadTypeOK
  <2>3. chunk \in Chunk /\ chunk.frames = s
    BY <2>2 DEF Chunk
  <2>4. Len(s) <= Len(s)
    BY <2>2
  <2> HIDE DEF chunk
  <2> QED BY <1>1, <2>1, <2>3, <2>4, ChunkOrdered
<1> QED BY <1>6, <1>7, <1>8, <1>9, <1>10, <1>11 DEF ProcessFrame

(* What is sent is in the order it was heard, and nothing is sent twice.         *)
THEOREM EverythingIsSentInOrder == VadSpec => []SentInOrder
<1>1. VadInit => Ordered
  BY EmptyOrdered DEF VadInit, Ordered
<1>2. IInv /\ Ordered /\ [VadNext]_vadVars => Ordered'
  <2> SUFFICES ASSUME IInv, Ordered, [VadNext]_vadVars PROVE Ordered'
    OBVIOUS
  <2>1. CASE VadNext
    <3>1. PICK a \in BOOLEAN, silence \in SilenceFrames : ProcessFrame(frame + 1, a, silence)
      BY <2>1 DEF VadNext
    <3>2. frame + 1 \in Nat /\ frame < frame + 1
      BY DEF IInv, VadTypeOK
    <3> QED BY <3>1, <3>2, OrderStep
  <2>2. CASE UNCHANGED vadVars
    BY <2>2 DEF vadVars, onset, segment, vadHist, Ordered
  <2> QED BY <2>1, <2>2
<1>3. IInv /\ Ordered => SentInOrder
  <2> SUFFICES ASSUME IInv, Ordered,
                      NEW i \in DOMAIN chunks, NEW j \in DOMAIN chunks, i <= j,
                      NEW k \in DOMAIN chunks[i].frames, NEW l \in DOMAIN chunks[j].frames,
                      i < j \/ k < l
               PROVE  chunks[i].frames[k] < chunks[j].frames[l]
    BY DEF SentInOrder
  <2>1. CASE i < j
    BY <2>1 DEF Ordered, Before
  <2>2. i \in Nat /\ j \in Nat
    BY DEF IInv, VadTypeOK
  <2>3. CASE i = j
    <3>1. k < l
      BY <2>2, <2>3
    <3> QED BY <2>3, <3>1 DEF Ordered, Increasing
  <2> QED BY <2>1, <2>2, <2>3
<1> QED BY <1>1, <1>2, <1>3, Inductive, PTL DEF VadSpec

-----------------------------------------------------------------------------
(* No speech is lost: the hangover that may be trimmed is silent.               *)

SilentTail ==
    /\ silentFrames <= Len(speechBuf)
    /\ \A k \in DOMAIN speechBuf : k > Len(speechBuf) - silentFrames => speechBuf[k] \notin active
    /\ spoken \subseteq active
    /\ \A x \in active : x <= frame

LEMMA FramesOfAppend ==
    ASSUME NEW s \in Seq(Nat), NEW f \in Nat
    PROVE  Frames(Append(s, f)) = Frames(s) \union {f}
<1>1. DOMAIN Append(s, f) = DOMAIN s \union {Len(s) + 1}
  OBVIOUS
<1>2. (\A k \in DOMAIN s : Append(s, f)[k] = s[k]) /\ Append(s, f)[Len(s) + 1] = f
  OBVIOUS
<1> QED BY <1>1, <1>2 DEF Frames

(* The tail of the buffer with the new frame is silent as well.                 *)
LEMMA TailGrows ==
    ASSUME IInv, Ordered, SilentTail, inSpeech, NEW f \in Nat, frame < f, NEW a \in BOOLEAN,
           active' = IF a THEN active \union {f} ELSE active
    PROVE  /\ SilentWith(a) <= Len(Append(speechBuf, f))
           /\ \A k \in DOMAIN Append(speechBuf, f) :
                k > Len(Append(speechBuf, f)) - SilentWith(a) => Append(speechBuf, f)[k] \notin active'
           /\ \A x \in active' : x <= f
<1> DEFINE s == Append(speechBuf, f)
<1>1. /\ speechBuf \in Seq(Nat) /\ silentFrames \in Nat /\ frame \in Nat /\ active \subseteq Nat
  BY DEF IInv, VadTypeOK
<1>2. Len(s) = Len(speechBuf) + 1 /\ Len(speechBuf) \in Nat /\ DOMAIN s = 1..Len(s)
  BY <1>1
<1>3. \A k \in DOMAIN s :
         \/ k \in DOMAIN speechBuf /\ s[k] = speechBuf[k]
         \/ k = Len(s) /\ s[k] = f
  BY <1>1
<1>4. \A x \in active' : x <= f
  BY <1>1 DEF SilentTail
<1>5. CASE a
  <2>1. SilentWith(a) = 0
    BY <1>5 DEF SilentWith
  <2> QED BY <1>2, <1>4, <2>1
<1>6. CASE ~a
  <2>1. SilentWith(a) = silentFrames + 1 /\ active' = active
    BY <1>6 DEF SilentWith
  <2>2. f \notin active
    BY <1>1 DEF SilentTail
  <2>3. SilentWith(a) <= Len(s)
    BY <1>1, <1>2, <2>1 DEF SilentTail
  <2>4. ASSUME NEW k \in DOMAIN s, k > Len(s) - SilentWith(a)
        PROVE  s[k] \notin active
    <3>1. CASE k \in DOMAIN speechBuf /\ s[k] = speechBuf[k]
      BY <1>1, <1>2, <2>1, <2>4, <3>1 DEF SilentTail
    <3>2. CASE s[k] = f
      BY <2>2, <3>2
    <3> QED BY <1>3, <3>1, <3>2
  <2> HIDE DEF s
  <2> QED BY <1>4, <2>1, <2>3, <2>4 DEF s
<1> QED BY <1>5, <1>6

LEMMA TailStep ==
    ASSUME IInv, Ordered, SilentTail, NEW f \in Nat, frame < f, NEW a \in BOOLEAN,
           NEW silence \in SilenceFrames, ProcessFrame(f, a, silence)
    PROVE  SilentTail'
<1>1. /\ frame' = f /\ active' = IF a THEN active \union {f} ELSE active
      /\ speechBuf \in Seq(Nat) /\ frame \in Nat /\ active \subseteq Nat
  BY DEF ProcessFrame, IInv, VadTypeOK
<1>2. spoken' \subseteq active'
  BY DEF ProcessFrame, SilentTail
<1>3. \A x \in active' : x <= f
  BY <1>1 DEF SilentTail
<1>4. IInv'
  BY TypeStep
<1>5. ASSUME silentFrames' = 0
      PROVE  SilentTail'
  <2>1. speechBuf' \in Seq(Nat)
    BY <1>4 DEF IInv, VadTypeOK
  <2>2. DOMAIN speechBuf' = 1..Len(speechBuf') /\ Len(speechBuf') \in Nat
    BY <2>1
  <2> QED BY <1>1, <1>2, <1>3, <1>5, <2>2 DEF SilentTail
<1>6. CASE StayIdle(f, a)
  <2>1. speechBuf = <<>> /\ speechBuf' = <<>> /\ silentFrames' = silentFrames
    BY <1>6 DEF StayIdle, segment, IInv, Buffers
  <2>2. silentFrames \in Nat /\ silentFrames <= 0
    BY <2>1 DEF SilentTail, IInv, VadTypeOK
  <2> QED BY <1>5, <2>1, <2>2
<1>7. CASE OpenSegment(f, a) \/ CloseSegment(f, a, silence) \/ FlushSegment(f, a, silence)
  BY <1>5, <1>7 DEF OpenSegment, CloseSegment, FlushSegment
<1>8. CASE Continue(f, a, silence)
  <2>1. speechBuf' = Append(speechBuf, f) /\ silentFrames' = SilentWith(a) /\ inSpeech
    BY <1>8 DEF Continue
  <2> QED BY <1>1, <1>2, <2>1, TailGrows DEF SilentTail
<1> QED BY <1>6, <1>7, <1>8 DEF ProcessFrame

(* What is trimmed of the hangover holds no active frame.                       *)
LEMMA TrimKeeps ==
    ASSUME IInv, Ordered, SilentTail, inSpeech, NEW f \in Nat, frame < f, NEW a \in BOOLEAN,
           NEW silence \in SilenceFrames,
           active' = IF a THEN active \union {f} ELSE active
    PROVE  LET s == Append(speechBuf, f)
           IN  active' \intersect Frames(s) \subseteq Frames(Trimmed(s, TrimFrames(a, silence)))
<1> DEFINE s == Append(speechBuf, f)
           n == TrimFrames(a, silence)
<1>1. s \in Seq(Nat) /\ n \in Nat /\ n <= SilentWith(a) /\ SilentWith(a) \in Nat
  BY CountersTyped DEF IInv, VadTypeOK
<1>2. /\ Trimmed(s, n) \in Seq(Nat) /\ Len(s) - Len(Trimmed(s, n)) <= n
      /\ \A i \in 1..Len(Trimmed(s, n)) : Trimmed(s, n)[i] = s[i]
  BY <1>1, TrimmedPrefix
<1>3. \A k \in DOMAIN s : k > Len(s) - SilentWith(a) => s[k] \notin active'
  BY TailGrows
<1>4. ASSUME NEW x \in Frames(s) \intersect active'
      PROVE  x \in Frames(Trimmed(s, n))
  <2>1. PICK k \in DOMAIN s : s[k] = x
    BY DEF Frames
  <2>2. k \in Nat /\ k >= 1 /\ k <= Len(s) - SilentWith(a)
    BY <1>1, <1>3, <2>1
  <2>3. k \in 1..Len(Trimmed(s, n))
    <3>1. Len(Trimmed(s, n)) \in Nat /\ Len(s) \in Nat
      BY <1>1, <1>2
    <3> HIDE DEF s, n
    <3> QED BY <1>1, <1>2, <2>2, <3>1
  <2>4. DOMAIN Trimmed(s, n) = 1..Len(Trimmed(s, n))
    BY <1>2
  <2> QED BY <1>2, <2>1, <2>3, <2>4 DEF Frames
<1> HIDE DEF s, n
<1>5. active' \intersect Frames(s) \subseteq Frames(Trimmed(s, n))
  BY <1>4
<1> QED BY <1>5 DEF s, n

LEMMA KeptStep ==
    ASSUME IInv, Ordered, SilentTail, SpeechKept, NEW f \in Nat, frame < f, NEW a \in BOOLEAN,
           NEW silence \in SilenceFrames, ProcessFrame(f, a, silence)
    PROVE  SpeechKept'
<1> DEFINE s == Append(speechBuf, f)
<1>1. /\ speechBuf \in Seq(Nat) /\ frame \in Nat /\ chunks \in Seq(Chunk)
      /\ Frames(s) = Frames(speechBuf) \union {f}
  BY FramesOfAppend DEF IInv, VadTypeOK
<1>2. spoken' = IF inSpeech \/ inSpeech'
                THEN spoken \union (active' \intersect ({f} \union Frames(speechBuf')))
                ELSE spoken
  BY DEF ProcessFrame
<1>3. ASSUME NEW c, chunks' = Append(chunks, c), rejected' = rejected,
             speechBuf' = <<>>, inSpeech,
             \A x \in Frames(s) \intersect active' : x \in Frames(c.frames)
      PROVE  SpeechKept'
  <2>1. /\ DOMAIN chunks' = DOMAIN chunks \union {Len(chunks) + 1}
        /\ \A i \in DOMAIN chunks : chunks'[i] = chunks[i]
        /\ chunks'[Len(chunks) + 1] = c
    BY <1>1, <1>3
  <2>2. Frames(speechBuf') = {}
    BY <1>3 DEF Frames
  <2>3. spoken \subseteq active'
    BY DEF SilentTail, ProcessFrame
  <2>4. \A x \in spoken' : x \in active' /\ (x \in spoken \/ x = f)
    BY <1>2, <2>2, <2>3
  <2> QED BY <1>1, <1>3, <2>1, <2>4 DEF SpeechKept
<1>4. CASE StayIdle(f, a)
  BY <1>2, <1>4 DEF StayIdle, segment, SpeechKept
<1>5. CASE OpenSegment(f, a)
  <2>1. f \in Frames(speechBuf')
    <3>1. preRoll \in Seq(Nat) /\ Len(preRoll) <= PreRollFrames
      BY DEF IInv, VadTypeOK, Buffers
    <3>2. RolledWith(f) \in Seq(Nat)
      BY <3>1, Rolled
    <3>3. PICK d \in Nat : /\ Len(RolledWith(f)) + d = Len(preRoll) + 1
                           /\ \A i \in 1..Len(RolledWith(f)) :
                                RolledWith(f)[i] = Append(preRoll, f)[i + d]
      BY <3>1, Rolled
    <3>4. Len(RolledWith(f)) \in 1..PreRollFrames
      BY <3>1, Rolled
    <3>5. RolledWith(f)[Len(RolledWith(f))] = f
      BY <3>1, <3>2, <3>3, <3>4
    <3> QED BY <1>5, <3>2, <3>4, <3>5 DEF OpenSegment, Frames
  <2>2. Frames(speechBuf) = {}
    BY <1>5 DEF OpenSegment, IInv, Buffers, Frames
  <2> QED BY <1>2, <1>5, <2>1, <2>2 DEF OpenSegment, SpeechKept
<1>6. CASE Continue(f, a, silence)
  BY <1>1, <1>2, <1>6 DEF Continue, SpeechKept
<1>7. CASE CloseSegment(f, a, silence) /\ TooLittle(a)
  <2> DEFINE noise == [frames |-> s, begun |-> begun, first |-> ~Flushed]
  <2>1. rejected' = rejected \union {noise} /\ chunks' = chunks /\ speechBuf' = <<>> /\ inSpeech
    BY <1>7 DEF CloseSegment
  <2>2. noise.frames = s
    OBVIOUS
  <2> HIDE DEF noise
  <2>3. Frames(speechBuf') = {}
    BY <2>1 DEF Frames
  <2> DEFINE K == UNION {Frames(chunks[i].frames) : i \in DOMAIN chunks}
             R == UNION {Frames(r.frames) : r \in rejected}
  <2>4. R' = R \union Frames(s)
    BY <2>1, <2>2
  <2>5. K' = K
    BY <2>1
  <2>6. spoken \subseteq Frames(speechBuf) \union K \union R
    BY DEF SpeechKept
  <2>7. spoken' \subseteq spoken \union {f}
    BY <1>2, <2>3
  <2>8. SpeechKept' <=> spoken' \subseteq Frames(speechBuf') \union K' \union R'
    BY DEF SpeechKept
  <2> HIDE DEF K, R, s
  <2> QED BY <1>1, <2>3, <2>4, <2>5, <2>6, <2>7, <2>8
<1>8. CASE CloseSegment(f, a, silence) /\ ~TooLittle(a)
  <2> DEFINE n == TrimFrames(a, silence)
             chunk == [frames |-> Trimmed(s, n), begun |-> begun, first |-> ~Flushed,
                       last |-> TRUE]
  <2>1. /\ speechBuf' = <<>> /\ chunks' = Append(chunks, chunk) /\ rejected' = rejected
        /\ inSpeech
    BY <1>8 DEF CloseSegment
  <2>2. active' \intersect Frames(s) \subseteq Frames(Trimmed(s, n))
    BY <2>1, TrimKeeps DEF ProcessFrame
  <2>3. chunk.frames = Trimmed(s, n)
    OBVIOUS
  <2> HIDE DEF chunk, n
  <2> QED BY <1>3, <2>1, <2>2, <2>3
<1>9. CASE FlushSegment(f, a, silence)
  <2> DEFINE chunk == [frames |-> s, begun |-> begun, first |-> ~Flushed, last |-> FALSE]
  <2>1. /\ speechBuf' = <<>> /\ chunks' = Append(chunks, chunk) /\ rejected' = rejected
        /\ inSpeech
    BY <1>9 DEF FlushSegment, AfterFlush
  <2>2. chunk.frames = s
    OBVIOUS
  <2> HIDE DEF chunk
  <2> QED BY <1>3, <2>1, <2>2
<1> QED BY <1>4, <1>5, <1>6, <1>7, <1>8, <1>9 DEF ProcessFrame

(* Whatever SilenceMs is changed to, no active frame of a segment is trimmed off  *)
(* or dropped by a flush.                                                        *)
THEOREM NoSpeechIsLost == VadSpec => []SpeechKept
<1> DEFINE KInv == Ordered /\ SilentTail /\ SpeechKept
<1>1. VadInit => KInv
  <2> SUFFICES ASSUME VadInit PROVE KInv
    OBVIOUS
  <2>1. Ordered
    BY EmptyOrdered DEF VadInit, Ordered
  <2>2. SilentTail
    BY DEF VadInit, SilentTail
  <2>3. SpeechKept
    BY DEF VadInit, SpeechKept
  <2> QED BY <2>1, <2>2, <2>3
<1>2. IInv /\ KInv /\ [VadNext]_vadVars => KInv'
  <2> SUFFICES ASSUME IInv, KInv, [VadNext]_vadVars PROVE KInv'
    OBVIOUS
  <2>1. CASE VadNext
    <3>1. PICK a \in BOOLEAN, silence \in SilenceFrames : ProcessFrame(frame + 1, a, silence)
      BY <2>1 DEF VadNext
    <3>2. frame + 1 \in Nat /\ frame < frame + 1
      BY DEF IInv, VadTypeOK
    <3> QED BY <3>1, <3>2, OrderStep, TailStep, KeptStep
  <2>2. CASE UNCHANGED vadVars
    BY <2>2 DEF vadVars, onset, segment, vadHist, Ordered, SilentTail, SpeechKept, Frames
  <2> QED BY <2>1, <2>2
<1>3. KInv => SpeechKept
  OBVIOUS
<1> QED BY <1>1, <1>2, <1>3, Inductive, PTL DEF VadSpec
-----------------------------------------------------------------------------
(* A segment opens on speech: every active verdict of the circle is of a frame    *)
(* that is still in the pre-roll.                                                 *)

(* How many frames ago the verdict at i was given, the next one going to p.       *)
Age(i, p) == IF i < p THEN p - 1 - i ELSE OnsetWindowFrames + p - 1 - i

(* The pre-roll ends with the last frame, and skips none.                         *)
Consecutive(s, f) == \A k \in DOMAIN s : s[k] + Len(s) = f + k

(* The verdicts w, with the next one due at p, are of frames of s.                *)
Heard(w, p, s, f, S) ==
    \A i \in 0..(OnsetWindowFrames - 1) :
        w[i] => Age(i, p) < Len(s) /\ f - Age(i, p) \in S

(* The active frames of S that can have opened a segment at b.                    *)
OnsetOf(S, b) == {d \in S : d <= b /\ d > b - OnsetWindowFrames}

Circle ==
    /\ Consecutive(preRoll, frame)
    /\ Heard(onsetWindow, onsetWindowPos, preRoll, frame, active)

Opened ==
    /\ begun <= frame /\ \A i \in DOMAIN chunks : chunks[i].begun <= frame
    /\ inSpeech /\ ~Flushed =>
           Cardinality(OnsetOf(active \intersect Frames(speechBuf), begun)) >= OnsetConfirmFrames

(* PushOnsetWindow and PushPreRoll keep the circle and the pre-roll in step.      *)
LEMMA AgesPass ==
    ASSUME IInv, NEW i \in 0..(OnsetWindowFrames - 1)
    PROVE  /\ Age(i, onsetWindowPos) \in 0..(OnsetWindowFrames - 1)
           /\ NextPos \in 0..(OnsetWindowFrames - 1)
           /\ i = onsetWindowPos => Age(i, NextPos) = 0
           /\ i # onsetWindowPos => /\ Age(i, NextPos) = Age(i, onsetWindowPos) + 1
                                    /\ Age(i, NextPos) < OnsetWindowFrames
<1>1. PICK W \in Nat \ {0} : W = OnsetWindowFrames
  BY ConstantTypes
<1>2. PICK p \in 0..(W - 1) : p = onsetWindowPos
  BY <1>1 DEF IInv, VadTypeOK
<1>3. NextPos = IF p = W - 1 THEN 0 ELSE p + 1
  BY <1>1, <1>2 DEF NextPos
<1>4. i \in 0..(W - 1)
  BY <1>1
<1> QED BY ONLY <1>1, <1>2, <1>3, <1>4 DEF Age

LEMMA PushedInStep ==
    ASSUME IInv, Circle, NEW a \in BOOLEAN, ~inSpeech,
           active' = IF a THEN active \union {frame + 1} ELSE active
    PROVE  LET f == frame + 1
               w == [onsetWindow EXCEPT ![onsetWindowPos] = a]
           IN  /\ Consecutive(RolledWith(f), f)
               /\ Heard(w, NextPos, RolledWith(f), f, active')
<1> DEFINE f == frame + 1
           w == [onsetWindow EXCEPT ![onsetWindowPos] = a]
           s == RolledWith(f)
<1>1. /\ preRoll \in Seq(Nat) /\ Len(preRoll) \in Nat /\ Len(preRoll) <= PreRollFrames
      /\ frame \in Nat /\ f \in Nat
      /\ onsetWindow \in [0..(OnsetWindowFrames - 1) -> BOOLEAN]
      /\ onsetWindowPos \in 0..(OnsetWindowFrames - 1)
  BY DEF IInv, VadTypeOK, Buffers
<1>2. s \in Seq(Nat) /\ Len(s) \in 1..PreRollFrames
  BY <1>1, Rolled
<1>3. PICK d \in Nat : /\ Len(s) + d = Len(preRoll) + 1
                       /\ \A i \in 1..Len(s) : s[i] = Append(preRoll, f)[i + d]
  BY <1>1, Rolled
<1>4. Len(s) = PreRollFrames \/ d = 0
  <2>1. Len(Append(preRoll, f)) = Len(preRoll) + 1
    BY <1>1
  <2>2. CASE Len(preRoll) + 1 <= PreRollFrames
    <3>1. Excess(Len(Append(preRoll, f)), PreRollFrames) = 0
      BY <1>1, <2>1, <2>2, ConstantTypes DEF Excess
    <3>2. s = SubSeq(Append(preRoll, f), 1, Len(Append(preRoll, f)))
      BY <3>1 DEF RolledWith
    <3>3. Len(s) = Len(preRoll) + 1
      BY <1>1, <2>1, <3>2
    <3> QED BY <1>1, <1>3, <3>3
  <2>3. CASE ~(Len(preRoll) + 1 <= PreRollFrames)
    <3>1. Len(preRoll) + 1 > PreRollFrames /\ Len(preRoll) = PreRollFrames
      BY <1>1, <2>3, ConstantTypes
    <3>2. Excess(Len(Append(preRoll, f)), PreRollFrames) = 1
      BY <1>1, <2>1, <3>1, ConstantTypes DEF Excess
    <3>3. s = SubSeq(Append(preRoll, f), 2, PreRollFrames + 1)
      BY <2>1, <3>1, <3>2, ConstantTypes DEF RolledWith
    <3>4. Append(preRoll, f) \in Seq(Nat) /\ Len(Append(preRoll, f)) = PreRollFrames + 1
      BY <1>1, <2>1, <3>1
    <3>5. Len(s) = PreRollFrames
      BY <3>3, <3>4, ConstantTypes
    <3> QED BY <3>5
  <2> QED BY <2>2, <2>3
<1>5. Consecutive(s, f)
  <2> SUFFICES ASSUME NEW k \in DOMAIN s PROVE s[k] + Len(s) = f + k
    BY DEF Consecutive
  <2>1. k \in 1..Len(s) /\ s[k] = Append(preRoll, f)[k + d] /\ k + d \in 1..(Len(preRoll) + 1)
    <3>1. DOMAIN s = 1..Len(s)
      BY <1>2
    <3> HIDE DEF s, f
    <3>2. PICK n \in Nat : n = Len(s)
      BY <1>2
    <3>3. PICK l \in Nat : l = Len(preRoll)
      BY <1>1
    <3>4. k \in 1..n /\ n + d = l + 1
      BY <1>3, <3>1, <3>2, <3>3
    <3>5. k + d \in 1..(l + 1)
      BY ONLY <3>4, n \in Nat, l \in Nat, d \in Nat
    <3> QED BY <1>3, <3>1, <3>3, <3>5
  <2>2. CASE k + d = Len(preRoll) + 1
    <3>1. s[k] = f
      BY <1>1, <2>1, <2>2
    <3> QED BY <1>1, <1>2, <1>3, <2>1, <2>2, <3>1
  <2>3. CASE k + d # Len(preRoll) + 1
    <3>1. k + d \in 1..Len(preRoll)
      BY <1>1, <2>1, <2>3
    <3>2. s[k] = preRoll[k + d] /\ k + d \in DOMAIN preRoll
      BY <1>1, <2>1, <3>1
    <3>3. preRoll[k + d] + Len(preRoll) = frame + (k + d) /\ preRoll[k + d] \in Nat
      BY <1>1, <3>2 DEF Circle, Consecutive
    <3>4. PICK x \in Nat : x = preRoll[k + d]
      BY <3>3
    <3>5. PICK n \in Nat : n = Len(s)
      BY <1>2
    <3>6. s[k] = x /\ x + Len(preRoll) = frame + (k + d) /\ n + d = Len(preRoll) + 1 /\ k \in Nat
      BY ONLY <1>3, <2>1, <3>2, <3>3, <3>4, <3>5
    <3>7. x + n = (frame + 1) + k
      BY ONLY <1>1, <3>6, x \in Nat, n \in Nat, d \in Nat
    <3> QED BY ONLY <3>5, <3>6, <3>7
  <2> QED BY <2>2, <2>3
<1>6. Heard(w, NextPos, s, f, active')
  <2> SUFFICES ASSUME NEW i \in 0..(OnsetWindowFrames - 1), w[i]
               PROVE  Age(i, NextPos) < Len(s) /\ f - Age(i, NextPos) \in active'
    BY DEF Heard
  <2>1. CASE i = onsetWindowPos
    <3>1. Age(i, NextPos) = 0 /\ a
      BY <1>1, <2>1, AgesPass
    <3> HIDE DEF s
    <3> QED BY <1>1, <1>2, <3>1
  <2>2. CASE i # onsetWindowPos
    <3>1. onsetWindow[i]
      BY <1>1, <2>2
    <3>2. PICK g \in Nat : g = Age(i, onsetWindowPos)
      BY AgesPass, ConstantTypes
    <3>3. Age(i, NextPos) = g + 1 /\ g + 1 < OnsetWindowFrames
      BY <2>2, <3>2, AgesPass
    <3>4. g < Len(preRoll) /\ frame - g \in active
      BY <3>1, <3>2 DEF Circle, Heard
    <3>5. g + 1 < Len(s)
      <4> HIDE DEF s, f
      <4>1. PICK n \in Nat : n = Len(s)
        BY <1>2
      <4>2. PICK l \in Nat : l = Len(preRoll)
        BY <1>1
      <4>3. g < l /\ n + d = l + 1 /\ (n = PreRollFrames \/ d = 0)
        BY <1>3, <1>4, <3>4, <4>1, <4>2
      <4>4. g + 1 < PreRollFrames
        BY <3>3, VadAssumption
      <4>5. g + 1 < n
        BY ONLY <4>3, <4>4, n \in Nat, l \in Nat, g \in Nat, d \in Nat
      <4> QED BY <4>1, <4>5
    <3>6. f - (g + 1) = frame - g
      BY <1>1
    <3> QED BY <3>3, <3>4, <3>5, <3>6
  <2> QED BY <2>1, <2>2
<1> QED BY <1>5, <1>6

(* The onset holds as many frames as there are active verdicts.                   *)
LEMMA AgeIsOneToOne ==
    ASSUME NEW p \in 0..(OnsetWindowFrames - 1),
           NEW i \in 0..(OnsetWindowFrames - 1), NEW j \in 0..(OnsetWindowFrames - 1),
           Age(i, p) = Age(j, p)
    PROVE  i = j
BY ConstantTypes DEF Age

LEMMA OnsetFinite ==
    ASSUME NEW S, S \subseteq Nat, NEW b \in Nat
    PROVE  IsFiniteSet(OnsetOf(S, b)) /\ Cardinality(OnsetOf(S, b)) \in Nat
<1>1. IsFiniteSet(0..b)
  BY FS_Interval
<1>2. ASSUME NEW d \in OnsetOf(S, b) PROVE d \in 0..b
  <2>1. d \in Nat /\ d <= b
    BY DEF OnsetOf
  <2> QED BY <2>1
<1> QED BY <1>1, <1>2, FS_Subset, FS_CardinalityType

LEMMA OnsetGrows ==
    ASSUME NEW S, NEW T, S \subseteq T, T \subseteq Nat, NEW b \in Nat
    PROVE  Cardinality(OnsetOf(S, b)) <= Cardinality(OnsetOf(T, b))
<1>1. OnsetOf(S, b) \subseteq OnsetOf(T, b)
  BY DEF OnsetOf
<1> QED BY <1>1, OnsetFinite, FS_Subset

LEMMA EnoughAtTheOnset ==
    ASSUME NEW w \in [0..(OnsetWindowFrames - 1) -> BOOLEAN], IsFiniteSet(Verdicts(w)),
           NEW p \in 0..(OnsetWindowFrames - 1),
           NEW s \in Seq(Nat), NEW f \in Nat, NEW S, S \subseteq Nat,
           Consecutive(s, f), Heard(w, p, s, f, S)
    PROVE  Cardinality(Verdicts(w)) <= Cardinality(OnsetOf(S \intersect Frames(s), f))
<1> DEFINE V == Verdicts(w)
           T == OnsetOf(S \intersect Frames(s), f)
           g == [i \in V |-> f - Age(i, p)]
<1>1. ASSUME NEW i \in V
      PROVE  g[i] \in T
  <2>1. i \in 0..(OnsetWindowFrames - 1) /\ w[i]
    BY DEF Verdicts
  <2>2. PICK x \in Nat : x = Age(i, p) /\ x < OnsetWindowFrames
    <3>1. Age(i, p) \in Nat /\ Age(i, p) < OnsetWindowFrames
      BY <2>1, ConstantTypes DEF Age
    <3> QED BY ONLY <3>1
  <2>3. x < Len(s) /\ f - x \in S
    BY <2>1, <2>2 DEF Heard
  <2>4. Len(s) - x \in DOMAIN s /\ s[Len(s) - x] \in Nat
    BY <2>3
  <2>5. s[Len(s) - x] + Len(s) = f + (Len(s) - x)
    BY <2>4 DEF Consecutive
  <2>6. s[Len(s) - x] = f - x
    BY <2>4, <2>5
  <2>7. f - x \in Frames(s)
    BY <2>4, <2>6 DEF Frames
  <2>8. f - x <= f /\ f - x > f - OnsetWindowFrames
    BY <2>2, ConstantTypes
  <2> QED BY <2>2, <2>3, <2>7, <2>8 DEF OnsetOf
<1>2. ASSUME NEW i \in V, NEW j \in V, g[i] = g[j]
      PROVE  i = j
  <2>1. i \in 0..(OnsetWindowFrames - 1) /\ j \in 0..(OnsetWindowFrames - 1)
    BY DEF Verdicts
  <2>2. Age(i, p) \in Int /\ Age(j, p) \in Int
    BY <2>1, ConstantTypes DEF Age
  <2>3. f - Age(i, p) = f - Age(j, p)
    BY <1>2
  <2>4. Age(i, p) = Age(j, p)
    BY <2>2, <2>3
  <2> QED BY <2>1, <2>4, AgeIsOneToOne
<1>3. g \in Injection(V, T)
  <2>1. g \in [V -> T]
    BY <1>1
  <2> QED BY <1>2, <2>1 DEF Injection, IsInjective
<1>4. S \intersect Frames(s) \subseteq Nat
  OBVIOUS
<1>5. IsFiniteSet(T)
  BY <1>4, OnsetFinite
<1> HIDE DEF T, V, g
<1>6. Cardinality(V) <= Cardinality(T)
  BY <1>3, <1>5, FS_Injection DEF V
<1> QED BY <1>6 DEF T, V

LEMMA CircleStep ==
    ASSUME IInv, Circle, NEW a \in BOOLEAN, NEW silence \in SilenceFrames,
           ProcessFrame(frame + 1, a, silence)
    PROVE  Circle'
<1> DEFINE f == frame + 1
<1>1. frame' = f /\ active' = IF a THEN active \union {f} ELSE active
  BY DEF ProcessFrame
<1>2. CASE StayIdle(f, a)
  <2>1. /\ ~inSpeech /\ preRoll' = RolledWith(f) /\ onsetWindowPos' = NextPos
        /\ onsetWindow' = [onsetWindow EXCEPT ![onsetWindowPos] = a]
    BY <1>2 DEF StayIdle
  <2> QED BY <1>1, <2>1, PushedInStep DEF Circle
<1>3. ASSUME preRoll' = <<>>, \A i \in 0..(OnsetWindowFrames - 1) : ~onsetWindow'[i]
      PROVE  Circle'
  BY <1>3 DEF Circle, Consecutive, Heard
<1>4. CASE OpenSegment(f, a)
  BY <1>3, <1>4 DEF OpenSegment, ClosedWindow
<1>5. CASE Continue(f, a, silence) \/ CloseSegment(f, a, silence) \/ FlushSegment(f, a, silence)
  <2>1. inSpeech /\ UNCHANGED onset
    BY <1>5 DEF Continue, CloseSegment, FlushSegment
  <2>2. preRoll = <<>>
    BY <2>1 DEF IInv, Buffers
  <2>3. ASSUME NEW i \in 0..(OnsetWindowFrames - 1) PROVE ~onsetWindow[i]
    <3>1. Age(i, onsetWindowPos) \in 0..(OnsetWindowFrames - 1) /\ Len(preRoll) = 0
      BY <2>2, AgesPass
    <3>2. ~(Age(i, onsetWindowPos) < Len(preRoll))
      BY <3>1
    <3> QED BY <3>2 DEF Circle, Heard
  <2> QED BY <1>3, <2>1, <2>2, <2>3 DEF onset
<1> QED BY <1>2, <1>4, <1>5 DEF ProcessFrame

(* OpensOnSpeech of the chunks, in the words of OnsetOf.                          *)
LEMMA OpensOnSpeechIs ==
    OpensOnSpeech <=>
        \A i \in DOMAIN chunks : chunks[i].first =>
            Cardinality(OnsetOf(active \intersect Frames(chunks[i].frames), chunks[i].begun))
                >= OnsetConfirmFrames
BY DEF OpensOnSpeech, OnsetOf

LEMMA OpenedStep ==
    ASSUME IInv, Ordered, SilentTail, Circle, Opened, OpensOnSpeech,
           NEW a \in BOOLEAN, NEW silence \in SilenceFrames,
           ProcessFrame(frame + 1, a, silence)
    PROVE  Opened' /\ OpensOnSpeech'
<1> DEFINE f == frame + 1
           s == Append(speechBuf, f)
           K(S, b) == Cardinality(OnsetOf(S, b)) >= OnsetConfirmFrames
<1>1. /\ frame' = f /\ active' = IF a THEN active \union {f} ELSE active
      /\ frame \in Nat /\ f \in Nat /\ frame < f /\ active \subseteq Nat /\ begun \in Nat
      /\ speechBuf \in Seq(Nat) /\ chunks \in Seq(Chunk)
  BY DEF ProcessFrame, IInv, VadTypeOK
<1>2. active' \subseteq Nat /\ active \subseteq active'
  BY <1>1
<1>3. ASSUME NEW S, NEW T, S \subseteq T, T \subseteq Nat, NEW b \in Nat, K(S, b)
      PROVE  K(T, b)
  <2>1. Cardinality(OnsetOf(S, b)) <= Cardinality(OnsetOf(T, b))
    BY <1>3, OnsetGrows
  <2>2. Cardinality(OnsetOf(S, b)) \in Nat /\ Cardinality(OnsetOf(T, b)) \in Nat
    BY <1>3, OnsetFinite
  <2> QED BY <1>3, <2>1, <2>2, ConstantTypes
<1>4. Frames(s) = Frames(speechBuf) \union {f}
  BY <1>1, FramesOfAppend
<1> HIDE DEF K
<1>5. ASSUME NEW i \in DOMAIN chunks, chunks[i].first
      PROVE  K(active' \intersect Frames(chunks[i].frames), chunks[i].begun)
  <2>1. K(active \intersect Frames(chunks[i].frames), chunks[i].begun)
    BY <1>5, OpensOnSpeechIs DEF K
  <2>2. chunks[i] \in Chunk
    BY <1>1
  <2>3. chunks[i].begun \in Nat
    BY <2>2 DEF Chunk
  <2> QED BY <1>2, <1>3, <2>1, <2>3
<1>6. OpensOnSpeech' <=> \A i \in DOMAIN chunks' : chunks'[i].first =>
                             K(active' \intersect Frames(chunks'[i].frames), chunks'[i].begun)
  BY DEF OpensOnSpeech, OnsetOf, K
<1>7. \A i \in DOMAIN chunks : chunks[i].begun \in Nat /\ chunks[i].begun <= f
  <2> SUFFICES ASSUME NEW i \in DOMAIN chunks
               PROVE  chunks[i].begun \in Nat /\ chunks[i].begun <= f
    OBVIOUS
  <2>1. chunks[i] \in Chunk
    BY <1>1
  <2>2. chunks[i].begun \in Nat
    BY <2>1 DEF Chunk
  <2>3. chunks[i].begun <= frame
    BY DEF Opened
  <2> QED BY <1>1, <2>2, <2>3
<1>8. ASSUME chunks' = chunks PROVE OpensOnSpeech'
  BY <1>5, <1>6, <1>8
<1>9. ASSUME NEW c, chunks' = Append(chunks, c), c.begun = begun, c.first = ~Flushed, inSpeech,
             active' \intersect Frames(s) \subseteq Frames(c.frames)
      PROVE  /\ OpensOnSpeech' /\ \A i \in DOMAIN chunks' : chunks'[i].begun <= f
             /\ chunks' # <<>> /\ chunks'[Len(chunks')] = c
  <2>1. /\ DOMAIN chunks' = DOMAIN chunks \union {Len(chunks) + 1}
        /\ \A i \in DOMAIN chunks : chunks'[i] = chunks[i]
        /\ chunks'[Len(chunks) + 1] = c /\ Len(chunks') = Len(chunks) + 1 /\ chunks' # <<>>
    BY <1>1, <1>9
  <2>2. ASSUME c.first PROVE K(active' \intersect Frames(c.frames), c.begun)
    <3>1. K(active \intersect Frames(speechBuf), begun)
      BY <1>9, <2>2 DEF Opened, K
    <3>2. active \intersect Frames(speechBuf) \subseteq active' \intersect Frames(c.frames)
      BY <1>2, <1>4, <1>9
    <3> QED BY <1>1, <1>2, <1>3, <1>9, <3>1, <3>2
  <2>3. begun <= f
    BY <1>1 DEF Opened
  <2> QED BY <1>5, <1>6, <1>7, <1>9, <2>1, <2>2, <2>3
<1>10. CASE StayIdle(f, a)
  <2>1. chunks' = chunks /\ begun' = begun /\ ~inSpeech'
    BY <1>10 DEF StayIdle, segment
  <2> QED BY <1>1, <1>7, <1>8, <2>1 DEF Opened
<1>11. CASE OpenSegment(f, a)
  <2> DEFINE w == [onsetWindow EXCEPT ![onsetWindowPos] = a]
  <2>1. /\ ~inSpeech /\ chunks' = chunks /\ begun' = f /\ speechBuf' = RolledWith(f)
        /\ CountWith(a) >= OnsetConfirmFrames
    BY <1>11 DEF OpenSegment
  <2>2. Consecutive(RolledWith(f), f) /\ Heard(w, NextPos, RolledWith(f), f, active')
    BY <1>1, <2>1, PushedInStep
  <2>3. /\ w \in [0..(OnsetWindowFrames - 1) -> BOOLEAN] /\ IsFiniteSet(Verdicts(w))
        /\ CountWith(a) = Cardinality(Verdicts(w))
    BY CountKept
  <2>4. RolledWith(f) \in Seq(Nat)
    BY <1>1, Rolled DEF IInv, VadTypeOK, Buffers
  <2>5. NextPos \in 0..(OnsetWindowFrames - 1)
    BY AgesPass, ClosedWindowType
  <2> HIDE DEF w
  <2>6. Cardinality(Verdicts(w)) <= Cardinality(OnsetOf(active' \intersect Frames(RolledWith(f)), f))
    BY <1>1, <1>2, <2>2, <2>3, <2>4, <2>5, EnoughAtTheOnset
  <2>7. /\ Cardinality(Verdicts(w)) \in Nat
        /\ Cardinality(OnsetOf(active' \intersect Frames(RolledWith(f)), f)) \in Nat
    BY <1>1, <1>2, <2>3, OnsetFinite, FS_CardinalityType
  <2>8. K(active' \intersect Frames(speechBuf'), begun')
    BY <2>1, <2>3, <2>6, <2>7, ConstantTypes DEF K
  <2> QED BY <1>1, <1>7, <1>8, <2>1, <2>8 DEF Opened, K
<1>12. CASE Continue(f, a, silence)
  <2>1. chunks' = chunks /\ begun' = begun /\ inSpeech /\ speechBuf' = s
    BY <1>12 DEF Continue
  <2>2. Flushed' <=> Flushed
    BY <2>1 DEF Flushed
  <2>3. ASSUME ~Flushed PROVE K(active' \intersect Frames(s), begun)
    <3>1. K(active \intersect Frames(speechBuf), begun)
      BY <2>1, <2>3 DEF Opened, K
    <3>2. active \intersect Frames(speechBuf) \subseteq active' \intersect Frames(s)
      BY <1>2, <1>4
    <3> QED BY <1>1, <1>2, <1>3, <3>1, <3>2
  <2>4. begun <= f
    BY <1>1 DEF Opened
  <2> HIDE DEF s
  <2> QED BY <1>1, <1>7, <1>8, <2>1, <2>2, <2>3, <2>4 DEF Opened, K
<1>13. CASE CloseSegment(f, a, silence)
  <2> DEFINE c == [frames |-> Trimmed(s, TrimFrames(a, silence)), begun |-> begun,
                   first |-> ~Flushed, last |-> TRUE]
  <2>1. inSpeech /\ ~inSpeech' /\ begun' = begun /\ (chunks' = chunks \/ chunks' = Append(chunks, c))
    BY <1>13 DEF CloseSegment
  <2>2. active' \intersect Frames(s) \subseteq Frames(c.frames)
    BY <1>1, <2>1, TrimKeeps
  <2>3. c.begun = begun /\ c.first = ~Flushed
    OBVIOUS
  <2>4. begun <= f
    BY <1>1 DEF Opened
  <2> HIDE DEF c, s
  <2> QED BY <1>1, <1>7, <1>8, <1>9, <2>1, <2>2, <2>3, <2>4 DEF Opened
<1>14. CASE FlushSegment(f, a, silence)
  <2> DEFINE c == [frames |-> s, begun |-> begun, first |-> ~Flushed, last |-> FALSE]
  <2>1. inSpeech /\ begun' = begun /\ chunks' = Append(chunks, c)
    BY <1>14 DEF FlushSegment
  <2>2. c.begun = begun /\ c.first = ~Flushed /\ c.last = FALSE /\ c.frames = s
    OBVIOUS
  <2> HIDE DEF c, s
  <2>3. /\ OpensOnSpeech' /\ \A i \in DOMAIN chunks' : chunks'[i].begun <= f
        /\ chunks' # <<>> /\ chunks'[Len(chunks')] = c
    BY <1>9, <2>1, <2>2
  <2>4. Flushed'
    BY <2>1, <2>2, <2>3 DEF Flushed
  <2>5. begun <= f
    BY <1>1 DEF Opened
  <2> QED BY <1>1, <2>1, <2>3, <2>4, <2>5 DEF Opened
<1> QED BY <1>10, <1>11, <1>12, <1>13, <1>14 DEF ProcessFrame

(* One click of the squelch never makes a chunk: the first chunk of every segment  *)
(* holds the active frames that opened it, whatever the pre-roll and the hangover.  *)
THEOREM SegmentsOpenOnSpeech == VadSpec => []OpensOnSpeech
<1> DEFINE OInv == Ordered /\ SilentTail /\ Circle /\ Opened /\ OpensOnSpeech
<1>1. VadInit => OInv
  <2> SUFFICES ASSUME VadInit PROVE OInv
    OBVIOUS
  <2>1. Ordered
    BY EmptyOrdered DEF VadInit, Ordered
  <2>2. SilentTail
    BY DEF VadInit, SilentTail
  <2>3. Circle
    BY DEF VadInit, Circle, Consecutive, Heard, ClosedWindow
  <2>4. Opened /\ OpensOnSpeech
    BY DEF VadInit, Opened, OpensOnSpeech
  <2> QED BY <2>1, <2>2, <2>3, <2>4
<1>2. IInv /\ OInv /\ [VadNext]_vadVars => OInv'
  <2> SUFFICES ASSUME IInv, OInv, [VadNext]_vadVars PROVE OInv'
    OBVIOUS
  <2>1. CASE VadNext
    <3>1. PICK a \in BOOLEAN, silence \in SilenceFrames : ProcessFrame(frame + 1, a, silence)
      BY <2>1 DEF VadNext
    <3>2. frame + 1 \in Nat /\ frame < frame + 1
      BY DEF IInv, VadTypeOK
    <3> QED BY <3>1, <3>2, OrderStep, TailStep, CircleStep, OpenedStep
  <2>2. CASE UNCHANGED vadVars
    <3>1. Ordered' /\ SilentTail'
      BY <2>2 DEF vadVars, onset, segment, vadHist, Ordered, SilentTail
    <3>2. Circle'
      BY <2>2 DEF vadVars, onset, vadHist, Circle
    <3>3. Opened' /\ OpensOnSpeech'
      BY <2>2 DEF vadVars, segment, vadHist, Opened, OpensOnSpeech, Flushed
    <3> QED BY <3>1, <3>2, <3>3
  <2> QED BY <2>1, <2>2
<1>3. OInv => OpensOnSpeech
  OBVIOUS
<1> QED BY <1>1, <1>2, <1>3, Inductive, PTL DEF VadSpec
-----------------------------------------------------------------------------
(* AudioPipeline.tla.                                                          *)

(* What the shape of the consumer's loop decides.                              *)
Shape ==
    /\ (raw # 0) <=> (consumerPc = "frame")
    /\ consumerPc \in {"take", "frame"} => pending = <<>>
    /\ lastVadOn => fixedWindow = <<>>
    /\ ~lastVadOn => speechBuf = <<>> /\ preRoll = <<>>
    /\ audioPc # "idle" => captured # 0
    /\ \A i \in DOMAIN queue : queue[i] # 0
    /\ audioPc = "add" => Len(queue) < QueueCapacity
    /\ consumerPc = "add" => Len(sendQueue) < SendQueueCapacity

Piped == IInv /\ PipeTypeOK /\ Shape
-----------------------------------------------------------------------------
LEMMA Capacities ==
    /\ QueueCapacity \in Nat \ {0} /\ SendQueueCapacity \in Nat \ {0}
    /\ FixedWindowFrames \in Nat \ {0} /\ MaxToggles \in Nat
BY QueueAssumption

LEMMA TailIs ==
    ASSUME NEW S, NEW s \in Seq(S), s # <<>>
    PROVE  /\ Head(s) \in S /\ Tail(s) \in Seq(S) /\ Len(Tail(s)) = Len(s) - 1
           /\ Len(s) \in Nat \ {0} /\ Head(s) = s[1] /\ 1 \in DOMAIN s
           /\ \A i \in DOMAIN Tail(s) : i \in Nat /\ i + 1 \in DOMAIN s /\ Tail(s)[i] = s[i + 1]
<1>1. Len(s) \in Nat \ {0}
  OBVIOUS
<1> QED BY <1>1

LEMMA AppendIs ==
    ASSUME NEW S, NEW s \in Seq(S), NEW e \in S
    PROVE  /\ Append(s, e) \in Seq(S) /\ Len(Append(s, e)) = Len(s) + 1
           /\ \A i \in DOMAIN Append(s, e) : \/ i \in DOMAIN s /\ Append(s, e)[i] = s[i]
                                             \/ i = Len(s) + 1 /\ Append(s, e)[i] = e
           /\ \A i \in DOMAIN s : i \in DOMAIN Append(s, e) /\ Append(s, e)[i] = s[i] /\ i <= Len(s)
           /\ Len(s) \in Nat
OBVIOUS

(* Reset leaves a detector that hears nothing.                                 *)
LEMMA ResetKeeps ==
    ASSUME IInv, VadReset
    PROVE  IInv' /\ speechBuf' = <<>> /\ preRoll' = <<>> /\ frame' = frame /\ chunks' = chunks
<1>1. VadTypeOK'
  <2>1. /\ <<>> \in Seq(Nat) /\ 0 \in 0..OnsetWindowFrames /\ FALSE \in BOOLEAN /\ 0 \in Nat
    BY ConstantTypes
  <2>2. onsetWindow' \in [0..(OnsetWindowFrames - 1) -> BOOLEAN] /\ onsetWindowPos' \in 0..(OnsetWindowFrames - 1)
    BY ClosedWindowType DEF VadReset
  <2>3. spoken' \subseteq Nat
    BY DEF IInv, VadTypeOK, VadReset
  <2>4. frame' \in Nat /\ active' \subseteq Nat /\ begun' \in Nat /\ chunks' \in Seq(Chunk) /\ rejected' \subseteq Segment
    BY DEF IInv, VadTypeOK, VadReset
  <2> QED BY <2>1, <2>2, <2>3, <2>4 DEF VadTypeOK, VadReset
<1>2. Counted'
  BY NoVerdicts DEF VadReset, Counted
<1>3. Buffers' /\ BufferBounded'
  BY ConstantTypes DEF VadReset, Buffers, BufferBounded
<1> QED BY <1>1, <1>2, <1>3 DEF IInv, VadReset

LEMMA VadStands ==
    ASSUME UNCHANGED vadVars
    PROVE  (IInv => IInv') /\ (VadTypeOK => VadTypeOK') /\ UNCHANGED <<speechBuf, preRoll, frame, chunks>>
BY DEF vadVars, onset, segment, vadHist, IInv, VadTypeOK, Counted, Buffers, BufferBounded

LEMMA PipedStarts == PipeInit => Piped
<1> SUFFICES ASSUME PipeInit PROVE Piped
  OBVIOUS
<1>1. IInv
  BY TypeInit DEF PipeInit
<1>2. vadOn \in BOOLEAN /\ lastVadOn \in BOOLEAN /\ crashed \in BOOLEAN
  BY Zenon DEF PipeInit
<1>3. /\ VadTypeOK /\ toggles = 0 /\ captured = 0 /\ raw = 0 /\ droppedFrames = 0 /\ droppedChunks = 0
      /\ queue = <<>> /\ audioPc = "idle" /\ consumerPc = "take" /\ fixedWindow = <<>> /\ pending = <<>>
      /\ sending = <<>> /\ sendQueue = <<>> /\ sent = <<>>
      /\ lostFrames = {} /\ lostChunks = {} /\ modes = {}
  BY <1>1, Zenon DEF PipeInit, IInv
<1>4. PipeTypeOK
  BY <1>2, <1>3, Capacities DEF PipeTypeOK
<1>5. Shape
  BY DEF PipeInit, VadInit, Shape
<1> QED BY <1>1, <1>4, <1>5 DEF Piped

LEMMA AudioTypes ==
    ASSUME Piped, Audio
    PROVE  Piped'
<1> USE DEF Piped
<1>1. /\ UNCHANGED <<vadVars, vadOn, toggles, consumer, sender>>
  BY DEF Audio, ProcessAdds, ProcessTakes, ProcessAddsAgain
<1>2. IInv' /\ VadTypeOK' /\ UNCHANGED <<speechBuf, preRoll>>
  BY <1>1, VadStands DEF IInv
<1>3. /\ captured \in Nat /\ captured + 1 \in Nat /\ captured + 1 # 0
      /\ droppedFrames \in Nat /\ droppedFrames + 1 \in Nat
      /\ queue \in Seq(Nat) /\ Len(queue) <= QueueCapacity /\ lostFrames \subseteq Nat
      /\ Len(queue) \in Nat /\ audioPc \in {"idle", "take", "add"}
  BY DEF PipeTypeOK
<1>4. ASSUME captured' \in Nat, queue' \in Seq(Nat), Len(queue') <= QueueCapacity, audioPc' \in {"idle", "take", "add"},
             droppedFrames' \in Nat, lostFrames' \subseteq Nat,
             audioPc' # "idle" => captured' # 0, \A i \in DOMAIN queue' : queue'[i] # 0,
             audioPc' = "add" => Len(queue') < QueueCapacity
      PROVE  Piped'
  BY <1>1, <1>2, <1>4 DEF PipeTypeOK, Shape, consumer, sender
<1>5. ASSUME NEW f \in Nat, f # 0, Len(queue) < QueueCapacity, queue' = Append(queue, f)
      PROVE  /\ queue' \in Seq(Nat) /\ Len(queue') <= QueueCapacity
             /\ \A i \in DOMAIN queue' : queue'[i] # 0
  <2>1. queue' \in Seq(Nat) /\ Len(queue') = Len(queue) + 1
    BY <1>3, <1>5
  <2>2. \A i \in DOMAIN queue' : queue'[i] # 0
    BY <1>3, <1>5, AppendIs DEF Shape
  <2> QED BY <1>3, <1>5, <2>1, <2>2, Capacities
<1>6. \A i \in DOMAIN queue : queue[i] # 0
  BY DEF Shape
<1>7. CASE ProcessAdds
  <2>1. captured' = captured + 1 /\ UNCHANGED <<droppedFrames, lostFrames>> /\ audioPc = "idle"
    BY <1>7 DEF ProcessAdds
  <2>2. CASE Len(queue) < QueueCapacity
    <3>1. queue' = Append(queue, captured + 1) /\ audioPc' = "idle"
      BY <1>7, <2>2 DEF ProcessAdds
    <3> QED BY <1>3, <1>4, <1>5, <2>1, <2>2, <3>1
  <2>3. CASE ~(Len(queue) < QueueCapacity)
    <3>1. queue' = queue /\ audioPc' = "take"
      BY <1>7, <2>3 DEF ProcessAdds
    <3> QED BY <1>3, <1>4, <1>6, <2>1, <3>1
  <2> QED BY <2>2, <2>3
<1>8. CASE ProcessTakes
  <2>1. audioPc = "take" /\ audioPc' = "add" /\ UNCHANGED <<captured, droppedFrames>> /\ captured # 0
    BY <1>8 DEF ProcessTakes, Shape
  <2>2. CASE queue = <<>>
    <3>1. queue' = queue /\ lostFrames' = lostFrames
      BY <1>8, <2>2 DEF ProcessTakes
    <3>2. Len(queue') < QueueCapacity
      BY <2>2, <3>1, Capacities
    <3> QED BY <1>3, <1>4, <1>6, <2>1, <3>1, <3>2
  <2>3. CASE queue # <<>>
    <3>1. queue' = Tail(queue) /\ lostFrames' = lostFrames \union {Head(queue)}
      BY <1>8, <2>3 DEF ProcessTakes
    <3>2. /\ Head(queue) \in Nat /\ Tail(queue) \in Seq(Nat) /\ Len(Tail(queue)) = Len(queue) - 1
          /\ \A i \in DOMAIN Tail(queue) : i + 1 \in DOMAIN queue /\ Tail(queue)[i] = queue[i + 1]
      BY <1>3, <2>3, TailIs
    <3>3. Len(queue') < QueueCapacity /\ Len(queue') <= QueueCapacity
      BY <1>3, <3>1, <3>2, Capacities
    <3>4. \A i \in DOMAIN queue' : queue'[i] # 0
      BY <1>6, <3>1, <3>2
    <3> QED BY <1>3, <1>4, <2>1, <3>1, <3>2, <3>3, <3>4
  <2> QED BY <2>2, <2>3
<1>9. CASE ProcessAddsAgain
  <2>1. /\ audioPc = "add" /\ audioPc' = "idle" /\ captured' = captured /\ droppedFrames' = droppedFrames + 1
        /\ captured # 0 /\ Len(queue) < QueueCapacity
    BY <1>9 DEF ProcessAddsAgain, Shape
  <2>2. queue' = Append(queue, captured) /\ lostFrames' = lostFrames
    BY <1>9, <2>1 DEF ProcessAddsAgain
  <2> QED BY <1>3, <1>4, <1>5, <2>1, <2>2
<1> QED BY <1>7, <1>8, <1>9 DEF Audio

(* The chunk ProcessFrame returns.                                             *)
LEMMA ChunkReturned ==
    ASSUME IInv, NEW f \in Nat, NEW a \in BOOLEAN, NEW silence \in SilenceFrames,
           ProcessFrame(f, a, silence), chunks' # chunks
    PROVE  /\ chunks' \in Seq(Chunk)
           /\ Len(chunks') \in DOMAIN chunks' /\ chunks'[Len(chunks')].frames \in Seq(Nat)
<1>1. IInv'
  BY TypeStep
<1>2. chunks' \in Seq(Chunk) /\ chunks \in Seq(Chunk)
  BY <1>1 DEF IInv, VadTypeOK
<1>3. PICK c : chunks' = Append(chunks, c)
  BY DEF ProcessFrame, StayIdle, OpenSegment, Continue, CloseSegment, FlushSegment
<1>4. Len(chunks') = Len(chunks) + 1 /\ Len(chunks) \in Nat
  BY <1>2, <1>3
<1>5. Len(chunks') \in DOMAIN chunks'
  BY <1>2, <1>4
<1>6. chunks'[Len(chunks')] \in Chunk
  BY <1>2, <1>5
<1> QED BY <1>2, <1>5, <1>6 DEF Chunk

LEMMA ConsumerTypes ==
    ASSUME Piped, Consumer
    PROVE  Piped'
<1> USE DEF Piped
<1>1. /\ raw \in Nat /\ fixedWindow \in Seq(Nat) /\ pending \in Seq(Nat)
      /\ queue \in Seq(Nat) /\ Len(queue) <= QueueCapacity /\ Len(queue) \in Nat
      /\ sendQueue \in Seq(Seq(Nat)) /\ Len(sendQueue) <= SendQueueCapacity /\ Len(sendQueue) \in Nat
      /\ lostChunks \subseteq Seq(Nat) /\ modes \subseteq Nat \X BOOLEAN /\ vadOn \in BOOLEAN
      /\ <<>> \in Seq(Nat) /\ droppedChunks \in Nat /\ droppedChunks + 1 \in Nat
  BY DEF PipeTypeOK
<1>2. UNCHANGED <<vadOn, toggles, captured, audioPc, droppedFrames, lostFrames, sending, crashed, sent>>
  BY DEF Consumer, ConsumerTakes, FixedWindow, Detect, EnqueueAdds, EnqueueTakes, EnqueueAddsAgain, audio, sender
<1>3. ASSUME UNCHANGED queue, IInv', raw' \in Nat, fixedWindow' \in Seq(Nat), pending' \in Seq(Nat),
             sendQueue' \in Seq(Seq(Nat)), Len(sendQueue') <= SendQueueCapacity, lostChunks' \subseteq Seq(Nat),
             droppedChunks' \in Nat, UNCHANGED <<modes, lastVadOn>>,
             consumerPc' \in {"take", "frame", "enqueue", "drop", "add"},
             raw' # 0 <=> consumerPc' = "frame",
             consumerPc' \in {"take", "frame"} => pending' = <<>>,
             lastVadOn => fixedWindow' = <<>>, ~lastVadOn => speechBuf' = <<>> /\ preRoll' = <<>>,
             consumerPc' = "add" => Len(sendQueue') < SendQueueCapacity
      PROVE  Piped'
  BY <1>2, <1>3 DEF PipeTypeOK, Shape, IInv
<1>4. CASE FixedWindow
  <2>1. IInv' /\ UNCHANGED <<speechBuf, preRoll>>
    BY <1>4, VadStands DEF FixedWindow
  <2>2. Append(fixedWindow, raw) \in Seq(Nat)
    BY <1>1
  <2>3. pending = <<>> /\ ~lastVadOn
    BY <1>4 DEF FixedWindow, Shape
  <2>4. /\ UNCHANGED <<queue, sendQueue, lostChunks, droppedChunks, modes, lastVadOn>> /\ raw' = 0
        /\ \/ pending' = Append(fixedWindow, raw) /\ fixedWindow' = <<>> /\ consumerPc' = "enqueue"
           \/ fixedWindow' = Append(fixedWindow, raw) /\ consumerPc' = "take" /\ pending' = pending
    BY <1>4 DEF FixedWindow, audio, sender
  <2>5. speechBuf' = <<>> /\ preRoll' = <<>> /\ Len(sendQueue') <= SendQueueCapacity
    BY <1>1, <2>1, <2>3, <2>4 DEF Shape
  <2>6. sendQueue' \in Seq(Seq(Nat)) /\ lostChunks' \subseteq Seq(Nat) /\ droppedChunks' \in Nat
    BY <1>1, <2>4
  <2> QED BY <1>1, <1>3, <2>1, <2>2, <2>3, <2>4, <2>5, <2>6
<1>5. CASE Detect
  <2>1. PICK a \in BOOLEAN, silence \in SilenceFrames : ProcessFrame(raw, a, silence)
    BY <1>5 DEF Detect
  <2>2. IInv'
    BY <1>1, <2>1, TypeStep
  <2>3. lastVadOn /\ fixedWindow = <<>> /\ pending = <<>>
    BY <1>5 DEF Detect, Shape
  <2>4. /\ UNCHANGED <<queue, sendQueue, lostChunks, droppedChunks, modes, lastVadOn, fixedWindow>> /\ raw' = 0
        /\ \/ chunks' # chunks /\ pending' = chunks'[Len(chunks')].frames /\ consumerPc' = "enqueue"
           \/ consumerPc' = "take" /\ pending' = pending
    BY <1>5 DEF Detect, audio, sender
  <2>5. pending' \in Seq(Nat)
    BY <1>1, <2>1, <2>4, ChunkReturned
  <2>6. sendQueue' \in Seq(Seq(Nat)) /\ lostChunks' \subseteq Seq(Nat) /\ droppedChunks' \in Nat
        /\ Len(sendQueue') <= SendQueueCapacity
    BY <1>1, <2>4
  <2> QED BY <1>1, <1>3, <2>2, <2>3, <2>4, <2>5, <2>6
<1>6. CASE ConsumerTakes
  <2>1. /\ queue # <<>> /\ queue' = Tail(queue) /\ raw' = Head(queue) /\ lastVadOn' = vadOn
        /\ modes' = modes \union {<<Head(queue), vadOn>>} /\ consumerPc' = "frame" /\ consumerPc = "take"
        /\ UNCHANGED <<pending, sender>>
    BY <1>6 DEF ConsumerTakes
  <2>2. /\ Head(queue) \in Nat /\ Tail(queue) \in Seq(Nat) /\ Len(Tail(queue)) = Len(queue) - 1
        /\ Head(queue) = queue[1] /\ 1 \in DOMAIN queue
        /\ \A i \in DOMAIN Tail(queue) : i + 1 \in DOMAIN queue /\ Tail(queue)[i] = queue[i + 1]
    BY <1>1, <2>1, TailIs
  <2>3. raw' # 0 /\ \A i \in DOMAIN queue' : queue'[i] # 0
    BY <2>1, <2>2 DEF Shape
  <2>4. IInv' /\ fixedWindow' \in Seq(Nat) /\ (lastVadOn' => fixedWindow' = <<>>)
        /\ (~lastVadOn' => speechBuf' = <<>> /\ preRoll' = <<>>)
    <3>1. CASE Switched
      BY <1>1, <1>6, <3>1, ResetKeeps DEF ConsumerTakes
    <3>2. CASE ~Switched
      <4>1. UNCHANGED <<vadVars, fixedWindow>> /\ vadOn = lastVadOn
        BY <1>6, <3>2 DEF ConsumerTakes, Switched
      <4> QED BY <1>1, <2>1, <4>1, VadStands DEF Shape
    <3> QED BY <3>1, <3>2
  <2>5. Len(queue') <= QueueCapacity /\ Len(queue') < Len(queue)
    BY <1>1, <2>1, <2>2, Capacities
  <2>6. audioPc' = "add" => Len(queue') < QueueCapacity
    BY <1>1, <1>2, <2>1, <2>2, Capacities DEF Shape
  <2>7. modes' \subseteq Nat \X BOOLEAN
    BY <1>1, <2>1, <2>2
  <2>8. Shape'
    BY <1>2, <2>1, <2>3, <2>4, <2>6 DEF Shape, sender
  <2>9. PipeTypeOK'
    BY <1>1, <1>2, <2>1, <2>2, <2>4, <2>5, <2>7 DEF PipeTypeOK, IInv, sender
  <2> QED BY <2>4, <2>8, <2>9
<1>7. ASSUME UNCHANGED <<vadVars, vadOn, toggles, audio, lastVadOn, raw, fixedWindow, modes>>,
             consumerPc \in {"enqueue", "drop", "add"}
      PROVE  /\ IInv' /\ raw' \in Nat /\ fixedWindow' \in Seq(Nat) /\ UNCHANGED <<queue, modes, lastVadOn, raw>>
             /\ raw' = 0
             /\ (lastVadOn => fixedWindow' = <<>>) /\ (~lastVadOn => speechBuf' = <<>> /\ preRoll' = <<>>)
  BY <1>1, <1>7, VadStands DEF audio, Shape
<1>8. ASSUME Len(sendQueue) < SendQueueCapacity, sendQueue' = Append(sendQueue, pending)
      PROVE  sendQueue' \in Seq(Seq(Nat)) /\ Len(sendQueue') <= SendQueueCapacity
  <2>1. sendQueue' \in Seq(Seq(Nat)) /\ Len(sendQueue') = Len(sendQueue) + 1
    BY <1>1, <1>8
  <2> QED BY <1>1, <1>8, <2>1, Capacities
<1>9. CASE EnqueueAdds
  <2>1. /\ consumerPc = "enqueue" /\ UNCHANGED <<vadVars, vadOn, toggles, audio, lastVadOn, raw, fixedWindow, modes>>
        /\ UNCHANGED <<droppedChunks, lostChunks>>
        /\ \/ /\ Len(sendQueue) < SendQueueCapacity /\ sendQueue' = Append(sendQueue, pending)
              /\ consumerPc' = "take" /\ pending' = <<>>
           \/ consumerPc' = "drop" /\ UNCHANGED <<sendQueue, pending>>
    BY <1>9 DEF EnqueueAdds
  <2>2. sendQueue' \in Seq(Seq(Nat)) /\ Len(sendQueue') <= SendQueueCapacity
    BY <1>1, <1>8, <2>1
  <2> QED BY <1>1, <1>3, <1>7, <2>1, <2>2
<1>10. CASE EnqueueTakes
  <2>1. /\ consumerPc = "drop" /\ UNCHANGED <<vadVars, vadOn, toggles, audio, lastVadOn, raw, fixedWindow, modes>>
        /\ UNCHANGED <<droppedChunks, pending>> /\ consumerPc' = "add"
    BY <1>10 DEF EnqueueTakes
  <2>2. /\ sendQueue' \in Seq(Seq(Nat)) /\ Len(sendQueue') < SendQueueCapacity
        /\ lostChunks' \subseteq Seq(Nat)
    <3>1. CASE sendQueue = <<>>
      BY <1>1, <1>10, <3>1, Capacities DEF EnqueueTakes
    <3>2. CASE sendQueue # <<>>
      <4>1. sendQueue' = Tail(sendQueue) /\ lostChunks' = lostChunks \union {Head(sendQueue)}
        BY <1>10, <3>2 DEF EnqueueTakes
      <4>2. Head(sendQueue) \in Seq(Nat) /\ Tail(sendQueue) \in Seq(Seq(Nat)) /\ Len(Tail(sendQueue)) = Len(sendQueue) - 1
        BY <1>1, <3>2, TailIs
      <4>3. Len(sendQueue') < SendQueueCapacity
        BY <1>1, <4>1, <4>2, Capacities
      <4> QED BY <1>1, <4>1, <4>2, <4>3
    <3> QED BY <3>1, <3>2
  <2>3. Len(sendQueue') <= SendQueueCapacity
    BY <2>2, Capacities
  <2> QED BY <1>1, <1>3, <1>7, <2>1, <2>2, <2>3
<1>11. CASE EnqueueAddsAgain
  <2>1. /\ consumerPc = "add" /\ UNCHANGED <<vadVars, vadOn, toggles, audio, lastVadOn, raw, fixedWindow, modes>>
        /\ droppedChunks' = droppedChunks + 1 /\ consumerPc' = "take" /\ pending' = <<>>
        /\ Len(sendQueue) < SendQueueCapacity
    BY <1>11 DEF EnqueueAddsAgain, Shape
  <2>2. sendQueue' = Append(sendQueue, pending) /\ lostChunks' = lostChunks
    BY <1>11, <2>1 DEF EnqueueAddsAgain
  <2> QED BY <1>1, <1>3, <1>7, <1>8, <2>1, <2>2
<1> QED BY <1>4, <1>5, <1>6, <1>9, <1>10, <1>11 DEF Consumer

LEMMA SenderTypes ==
    ASSUME Piped, Sender \/ ToggleVad
    PROVE  Piped'
<1> USE DEF Piped
<1>1. /\ sendQueue \in Seq(Seq(Nat)) /\ Len(sendQueue) <= SendQueueCapacity /\ Len(sendQueue) \in Nat
      /\ sending \in Seq(Nat) /\ sent \in Seq(Seq(Nat)) /\ <<>> \in Seq(Nat)
      /\ toggles \in Nat /\ toggles + 1 \in Nat
  BY DEF PipeTypeOK
<1>2. UNCHANGED vadVars
  BY DEF Sender, SenderTakes, SendEnds, SendLoopCrashes, ToggleVad
<1>3. IInv' /\ VadTypeOK' /\ UNCHANGED <<speechBuf, preRoll>>
  BY <1>2, VadStands DEF IInv
<1>4. CASE SenderTakes
  <2>1. /\ sendQueue # <<>> /\ sending' = Head(sendQueue) /\ sendQueue' = Tail(sendQueue)
        /\ UNCHANGED <<vadOn, toggles, audio, consumer, droppedChunks, crashed, sent, lostChunks>>
    BY <1>4 DEF SenderTakes
  <2>2. Head(sendQueue) \in Seq(Nat) /\ Tail(sendQueue) \in Seq(Seq(Nat)) /\ Len(Tail(sendQueue)) = Len(sendQueue) - 1
    BY <1>1, <2>1, TailIs
  <2>3. Len(sendQueue') <= SendQueueCapacity /\ (Len(sendQueue) < SendQueueCapacity => Len(sendQueue') < SendQueueCapacity)
    BY <1>1, <2>1, <2>2, Capacities
  <2> QED BY <1>3, <2>1, <2>2, <2>3 DEF PipeTypeOK, Shape, audio, consumer
<1>5. CASE SendEnds
  <2>1. Append(sent, sending) \in Seq(Seq(Nat))
    BY <1>1
  <2> QED BY <1>1, <1>3, <1>5, <2>1 DEF SendEnds, PipeTypeOK, Shape, audio, consumer
<1>6. CASE SendLoopCrashes
  BY <1>1, <1>3, <1>6 DEF SendLoopCrashes, PipeTypeOK, Shape, audio, consumer
<1>7. CASE ToggleVad
  BY <1>1, <1>3, <1>7 DEF ToggleVad, PipeTypeOK, Shape, audio, consumer, sender
<1> QED BY <1>4, <1>5, <1>6, <1>7 DEF Sender

LEMMA PipedStep == Piped /\ [PipeNext]_pipeVars => Piped'
<1> SUFFICES ASSUME Piped, [PipeNext]_pipeVars PROVE Piped'
  OBVIOUS
<1>1. CASE UNCHANGED pipeVars
  <2>1. UNCHANGED vadVars
    BY <1>1 DEF pipeVars
  <2>2. IInv' /\ VadTypeOK' /\ UNCHANGED <<speechBuf, preRoll>>
    BY <2>1, VadStands DEF Piped, IInv
  <2> QED BY <1>1, <2>2 DEF Piped, PipeTypeOK, Shape, pipeVars, audio, consumer, sender
<1> QED BY <1>1, AudioTypes, ConsumerTypes, SenderTypes DEF PipeNext

(* The types of the pipeline: both queues keep to their capacities.             *)
THEOREM PipelineTypes == PipeSpec => [](Piped /\ PipeTypeOK)
<1>1. Piped => PipeTypeOK
  BY DEF Piped
<1> QED BY <1>1, PipedStarts, PipedStep, PTL DEF PipeSpec

-----------------------------------------------------------------------------
(* What was thrown away, and the counters.                                     *)

Late(pc) == IF pc = "add" THEN 1 ELSE 0

Counts(lost, dropped, pc) == IsFiniteSet(lost) /\ Cardinality(lost) <= dropped + Late(pc)

LEMMA OneMore ==
    ASSUME NEW lost, NEW x, NEW dropped \in Nat, IsFiniteSet(lost), Cardinality(lost) <= dropped
    PROVE  /\ IsFiniteSet(lost \union {x}) /\ Cardinality(lost \union {x}) <= dropped + 1
<1>1. /\ IsFiniteSet(lost \union {x}) /\ Cardinality(lost) \in Nat
      /\ Cardinality(lost \union {x}) = Cardinality(lost) \/ Cardinality(lost \union {x}) = Cardinality(lost) + 1
  BY FS_AddElement, FS_CardinalityType
<1> QED BY <1>1

(* Whoever counts one thrown away, threw it away a step before; the second      *)
(* TryAdd always finds room, as only the thread at the other end runs between.  *)
LEMMA CountsStep ==
    ASSUME Piped, Counts(lostFrames, droppedFrames, audioPc),
           Counts(lostChunks, droppedChunks, consumerPc), [PipeNext]_pipeVars
    PROVE  /\ Counts(lostFrames', droppedFrames', audioPc')
           /\ Counts(lostChunks', droppedChunks', consumerPc')
<1> USE DEF Counts, Late
<1>1. /\ droppedFrames \in Nat /\ droppedChunks \in Nat
      /\ audioPc = "add" => Len(queue) < QueueCapacity
      /\ consumerPc = "add" => Len(sendQueue) < SendQueueCapacity
  BY DEF Piped, PipeTypeOK, Shape
<1>2. Cardinality(lostFrames) \in Nat /\ Cardinality(lostChunks) \in Nat
  BY FS_CardinalityType
<1>3. CASE UNCHANGED <<audio, lostChunks, droppedChunks>> /\ consumerPc # "add" /\ consumerPc' # "add"
  BY <1>3 DEF audio
<1>4. CASE UNCHANGED <<consumerPc, lostChunks, droppedChunks, audioPc, lostFrames, droppedFrames>>
  BY <1>4
<1>5. CASE ProcessAdds
  BY <1>1, <1>2, <1>5 DEF ProcessAdds, consumer, sender
<1>6. CASE ProcessTakes
  <2>1. /\ audioPc = "take" /\ audioPc' = "add" /\ droppedFrames' = droppedFrames
        /\ UNCHANGED <<consumerPc, lostChunks, droppedChunks>>
        /\ lostFrames' = lostFrames \/ lostFrames' = lostFrames \union {Head(queue)}
    BY <1>6 DEF ProcessTakes, consumer, sender
  <2>2. Cardinality(lostFrames) <= droppedFrames
    BY <1>1, <1>2, <2>1
  <2>3. IsFiniteSet(lostFrames') /\ Cardinality(lostFrames') <= droppedFrames + 1
    <3>1. CASE lostFrames' = lostFrames
      BY <1>1, <1>2, <2>2, <3>1
    <3>2. CASE lostFrames' = lostFrames \union {Head(queue)}
      <4>1. IsFiniteSet(lostFrames)
        OBVIOUS
      <4> HIDE DEF Counts, Late
      <4> QED BY <1>1, <2>2, <3>2, <4>1, OneMore
    <3> QED BY <2>1, <3>1, <3>2
  <2> QED BY <2>1, <2>3
<1>7. CASE ProcessAddsAgain
  BY <1>1, <1>2, <1>7 DEF ProcessAddsAgain, consumer, sender
<1>8. CASE EnqueueTakes
  <2>1. /\ consumerPc = "drop" /\ consumerPc' = "add" /\ droppedChunks' = droppedChunks
        /\ UNCHANGED <<audioPc, lostFrames, droppedFrames>>
        /\ lostChunks' = lostChunks \/ lostChunks' = lostChunks \union {Head(sendQueue)}
    BY <1>8 DEF EnqueueTakes, audio
  <2>2. Cardinality(lostChunks) <= droppedChunks
    BY <1>1, <1>2, <2>1
  <2>3. IsFiniteSet(lostChunks') /\ Cardinality(lostChunks') <= droppedChunks + 1
    <3>1. CASE lostChunks' = lostChunks
      BY <1>1, <1>2, <2>2, <3>1
    <3>2. CASE lostChunks' = lostChunks \union {Head(sendQueue)}
      <4>1. IsFiniteSet(lostChunks)
        OBVIOUS
      <4> HIDE DEF Counts, Late
      <4> QED BY <1>1, <2>2, <3>2, <4>1, OneMore
    <3> QED BY <2>1, <3>1, <3>2
  <2> QED BY <2>1, <2>3
<1>9. CASE EnqueueAddsAgain
  BY <1>1, <1>2, <1>9 DEF EnqueueAddsAgain, audio
<1>10. CASE EnqueueAdds \/ FixedWindow \/ Detect
  BY <1>3, <1>10 DEF EnqueueAdds, FixedWindow, Detect, sender
<1>11. CASE ConsumerTakes
  BY <1>2, <1>1, <1>11 DEF ConsumerTakes, sender
<1>12. CASE SenderTakes \/ SendEnds \/ SendLoopCrashes \/ ToggleVad
  BY <1>4, <1>12 DEF SenderTakes, SendEnds, SendLoopCrashes, ToggleVad, audio, consumer, sender
<1>13. CASE UNCHANGED pipeVars
  BY <1>4, <1>13 DEF pipeVars, audio, consumer, sender
<1> QED BY <1>5, <1>6, <1>7, <1>8, <1>9, <1>10, <1>11, <1>12, <1>13 DEF PipeNext, Audio, Consumer, Sender

(* "drop=" and "senddrop=" never report less than was thrown away, however the   *)
(* three steps of a full queue meet those of the thread at its other end.        *)
THEOREM LossesAreCounted == PipeSpec => []LossesCounted
<1> DEFINE C == Counts(lostFrames, droppedFrames, audioPc) /\ Counts(lostChunks, droppedChunks, consumerPc)
<1>1. PipeInit => Piped /\ C
  BY PipedStarts, FS_EmptySet DEF PipeInit, Counts, Late
<1>2. Piped /\ C /\ [PipeNext]_pipeVars => Piped' /\ C'
  BY PipedStep, CountsStep
<1>3. C => LossesCounted
  BY DEF Counts, Late, LossesCounted
<1> QED BY <1>1, <1>2, <1>3, PTL DEF PipeSpec

-----------------------------------------------------------------------------
(* The order of the frames, from the queue to the chunks.                      *)

(* Everything still to come from the radio is later than n.                    *)
Ahead(n) ==
    /\ n <= captured /\ (audioPc # "idle" => n < captured)
    /\ \A k \in DOMAIN queue : n < queue[k]

Passed(n) == Ahead(n) /\ (raw # 0 => n < raw)

Queued ==
    /\ Increasing(queue)
    /\ \A k \in DOMAIN queue : queue[k] <= captured /\ (audioPc # "idle" => queue[k] < captured)

(* What the consumer holds, of the mode it is in.                              *)
Buffered == Frames(fixedWindow) \union Frames(speechBuf) \union Frames(preRoll)

InHand == Buffered \union (IF raw = 0 THEN {} ELSE {raw})

InMode(x) == <<x, lastVadOn>> \in modes /\ \A m \in modes : m[1] >= x => m[2] = lastVadOn

Moving ==
    /\ Ordered /\ Queued /\ Passed(frame)
    /\ raw # 0 => Ahead(raw)
    /\ \A x \in Buffered : Passed(x)
    /\ \A x \in InHand : InMode(x)
    /\ \A m \in modes : Ahead(m[1])
    /\ Increasing(fixedWindow)

LEMMA QueuedStep ==
    ASSUME Piped, Queued, [PipeNext]_pipeVars
    PROVE  Queued'
<1>1. /\ captured \in Nat /\ queue \in Seq(Nat) /\ audioPc \in {"idle", "take", "add"}
  BY DEF Piped, PipeTypeOK
<1>2. CASE ProcessAdds
  <2>1. captured' = captured + 1 /\ audioPc = "idle"
        /\ (queue' = queue \/ (queue' = Append(queue, captured + 1) /\ audioPc' = "idle"))
    BY <1>2 DEF ProcessAdds
  <2>2. CASE queue' = queue
    BY <1>1, <2>1, <2>2 DEF Queued
  <2>3. CASE queue' = Append(queue, captured + 1) /\ audioPc' = "idle"
    <3>1. UpTo(queue, captured) /\ captured < captured + 1 /\ captured + 1 \in Nat
      BY <1>1 DEF Queued, UpTo
    <3>2. Increasing(queue') /\ UpTo(queue', captured + 1)
      BY <1>1, <2>3, <3>1, AppendOrdered DEF Queued
    <3> QED BY <2>1, <2>3, <3>2 DEF Queued, UpTo
  <2> QED BY <2>1, <2>2, <2>3
<1>3. CASE ProcessAddsAgain
  <2>1. captured' = captured /\ audioPc = "add" /\ audioPc' = "idle"
        /\ (queue' = queue \/ queue' = Append(queue, captured))
    BY <1>3 DEF ProcessAddsAgain
  <2>2. CASE queue' = queue
    BY <1>1, <2>1, <2>2 DEF Queued
  <2>3. CASE queue' = Append(queue, captured)
    <3>1. \A k \in DOMAIN queue : queue[k] \in Nat /\ queue[k] < captured
      BY <1>1, <2>1 DEF Queued
    <3>2. captured # 0
      BY <2>1 DEF Piped, Shape
    <3>3. captured - 1 \in Nat /\ captured - 1 < captured /\ UpTo(queue, captured - 1)
      BY <1>1, <3>1, <3>2 DEF UpTo
    <3>4. Increasing(queue') /\ UpTo(queue', captured)
      BY <1>1, <2>3, <3>3, AppendOrdered DEF Queued
    <3> QED BY <2>1, <3>4 DEF Queued, UpTo
  <2> QED BY <2>1, <2>2, <2>3
<1>4. CASE UNCHANGED captured /\ (audioPc' # "idle" => audioPc # "idle") /\ queue # <<>> /\ queue' = Tail(queue)
  <2>1. /\ Tail(queue) \in Seq(Nat)
        /\ \A i \in DOMAIN Tail(queue) : i \in Nat /\ i + 1 \in DOMAIN queue /\ Tail(queue)[i] = queue[i + 1]
    BY <1>1, <1>4, TailIs
  <2>2. Increasing(queue')
    BY <1>4, <2>1 DEF Queued, Increasing
  <2> QED BY <1>4, <2>1, <2>2 DEF Queued
<1>5. CASE UNCHANGED <<captured, audioPc, queue>>
  BY <1>5 DEF Queued
<1>6. CASE ProcessTakes
  <2>1. audioPc # "idle" /\ captured' = captured /\ (queue' = queue \/ (queue # <<>> /\ queue' = Tail(queue)))
    BY <1>6 DEF ProcessTakes
  <2> QED BY <1>4, <2>1 DEF Queued
<1>7. CASE ConsumerTakes
  BY <1>4, <1>7 DEF ConsumerTakes
<1>8. CASE FixedWindow \/ Detect \/ EnqueueAdds \/ EnqueueTakes \/ EnqueueAddsAgain \/ Sender \/ ToggleVad
  BY <1>5, <1>8 DEF FixedWindow, Detect, EnqueueAdds, EnqueueTakes, EnqueueAddsAgain, Sender, SenderTakes,
                    SendEnds, SendLoopCrashes, ToggleVad, audio
<1>9. CASE UNCHANGED pipeVars
  BY <1>5, <1>9 DEF pipeVars, audio
<1> QED BY <1>2, <1>3, <1>6, <1>7, <1>8, <1>9 DEF PipeNext, Audio, Consumer

(* What was ahead of the rest stays ahead of it.                               *)
LEMMA AheadStep ==
    ASSUME Piped, [PipeNext]_pipeVars, NEW n \in Nat, Ahead(n)
    PROVE  Ahead(n)' /\ (Passed(n) => Passed(n)')
<1>1. /\ captured \in Nat /\ queue \in Seq(Nat) /\ audioPc \in {"idle", "take", "add"} /\ raw \in Nat
  BY DEF Piped, PipeTypeOK
<1>2. ASSUME UNCHANGED <<raw, captured>>, queue # <<>>, queue' = Tail(queue), audioPc' # "idle" => audioPc # "idle"
      PROVE  Ahead(n)' /\ (Passed(n) => Passed(n)')
  <2>1. \A i \in DOMAIN Tail(queue) : i + 1 \in DOMAIN queue /\ Tail(queue)[i] = queue[i + 1]
    BY <1>1, <1>2, TailIs
  <2> QED BY <1>2, <2>1 DEF Ahead, Passed
<1>3. CASE ProcessAdds
  <2>1. captured' = captured + 1 /\ raw' = raw /\ (queue' = queue \/ queue' = Append(queue, captured + 1))
    BY <1>3 DEF ProcessAdds, consumer
  <2>2. \A i \in DOMAIN queue' : n < queue'[i]
    <3>1. CASE queue' = queue
      BY <3>1 DEF Ahead
    <3>2. CASE queue' = Append(queue, captured + 1)
      <4>1. \A i \in DOMAIN queue' : (i \in DOMAIN queue /\ queue'[i] = queue[i]) \/ queue'[i] = captured + 1
        BY <1>1, <3>2
      <4>2. n < captured + 1
        BY <1>1 DEF Ahead
      <4> QED BY <4>1, <4>2 DEF Ahead
    <3> QED BY <2>1, <3>1, <3>2
  <2> QED BY <1>1, <2>1, <2>2 DEF Ahead, Passed
<1>4. CASE ProcessAddsAgain
  <2>1. captured' = captured /\ raw' = raw /\ audioPc = "add" /\ audioPc' = "idle"
        /\ (queue' = queue \/ queue' = Append(queue, captured))
    BY <1>4 DEF ProcessAddsAgain, consumer
  <2>2. \A i \in DOMAIN queue' : n < queue'[i]
    <3>1. CASE queue' = queue
      BY <3>1 DEF Ahead
    <3>2. CASE queue' = Append(queue, captured)
      <4>1. \A i \in DOMAIN queue' : (i \in DOMAIN queue /\ queue'[i] = queue[i]) \/ queue'[i] = captured
        BY <1>1, <3>2
      <4> QED BY <2>1, <4>1 DEF Ahead
    <3> QED BY <2>1, <3>1, <3>2
  <2> QED BY <2>1, <2>2 DEF Ahead, Passed
<1>5. CASE ProcessTakes
  <2>1. captured' = captured /\ raw' = raw /\ audioPc # "idle" /\ (queue' = queue \/ (queue # <<>> /\ queue' = Tail(queue)))
    BY <1>5 DEF ProcessTakes, consumer
  <2> QED BY <1>2, <2>1 DEF Ahead, Passed
<1>6. CASE ConsumerTakes
  <2>1. UNCHANGED <<captured, audioPc>> /\ queue # <<>> /\ queue' = Tail(queue) /\ raw' = Head(queue)
    BY <1>6 DEF ConsumerTakes
  <2>2. /\ Head(queue) = queue[1] /\ 1 \in DOMAIN queue
        /\ \A i \in DOMAIN Tail(queue) : i + 1 \in DOMAIN queue /\ Tail(queue)[i] = queue[i + 1]
    BY <1>1, <2>1, TailIs
  <2> QED BY <2>1, <2>2 DEF Ahead, Passed
<1>7. CASE UNCHANGED <<captured, audioPc, queue>> /\ (raw' = raw \/ raw' = 0)
  BY <1>7 DEF Ahead, Passed
<1>8. CASE FixedWindow \/ Detect \/ EnqueueAdds \/ EnqueueTakes \/ EnqueueAddsAgain \/ Sender \/ ToggleVad
  BY <1>7, <1>8 DEF FixedWindow, Detect, EnqueueAdds, EnqueueTakes, EnqueueAddsAgain, Sender, SenderTakes,
                    SendEnds, SendLoopCrashes, ToggleVad, audio, consumer
<1>9. CASE UNCHANGED pipeVars
  BY <1>7, <1>9 DEF pipeVars, audio, consumer
<1> QED BY <1>3, <1>4, <1>5, <1>6, <1>8, <1>9 DEF PipeNext, Audio, Consumer

LEMMA FramesOfNone == Frames(<<>>) = {}
BY DEF Frames

LEMMA FramesOfPart ==
    ASSUME NEW s \in Seq(Nat), NEW t \in Seq(Nat), NEW d \in Nat,
           Len(t) + d <= Len(s), \A i \in 1..Len(t) : t[i] = s[i + d]
    PROVE  Frames(t) \subseteq Frames(s)
<1>1. \A i \in DOMAIN t : i + d \in DOMAIN s /\ t[i] = s[i + d]
  <2>1. DOMAIN t = 1..Len(t) /\ Len(t) \in Nat /\ DOMAIN s = 1..Len(s) /\ Len(s) \in Nat
    OBVIOUS
  <2> QED BY <2>1
<1> QED BY <1>1 DEF Frames

(* The detector makes its buffers and its chunks of the frames it had and the    *)
(* one it is given.                                                            *)
LEMMA Drawn ==
    ASSUME IInv, NEW f \in Nat, NEW a \in BOOLEAN, NEW silence \in SilenceFrames,
           ProcessFrame(f, a, silence)
    PROVE  LET had == Frames(speechBuf) \union Frames(preRoll) \union {f}
           IN  /\ Frames(speechBuf') \subseteq had /\ Frames(preRoll') \subseteq had
               /\ chunks' # chunks =>
                    /\ chunks'[Len(chunks')].frames \in Seq(Nat)
                    /\ Frames(chunks'[Len(chunks')].frames) \subseteq had
<1> DEFINE s == Append(speechBuf, f)
<1>1. /\ speechBuf \in Seq(Nat) /\ preRoll \in Seq(Nat) /\ chunks \in Seq(Chunk) /\ Len(preRoll) <= PreRollFrames
  BY DEF IInv, VadTypeOK, Buffers
<1>2. s \in Seq(Nat) /\ Frames(s) = Frames(speechBuf) \union {f}
  BY <1>1, FramesOfAppend
<1>3. Frames(RolledWith(f)) \subseteq Frames(preRoll) \union {f}
  <2>1. RolledWith(f) \in Seq(Nat)
    BY <1>1, Rolled
  <2>2. PICK d \in Nat : /\ Len(RolledWith(f)) + d = Len(preRoll) + 1
                         /\ \A i \in 1..Len(RolledWith(f)) : RolledWith(f)[i] = Append(preRoll, f)[i + d]
    BY <1>1, Rolled
  <2>3. Append(preRoll, f) \in Seq(Nat) /\ Len(Append(preRoll, f)) = Len(preRoll) + 1
        /\ Frames(Append(preRoll, f)) = Frames(preRoll) \union {f}
    BY <1>1, FramesOfAppend
  <2>4. Len(RolledWith(f)) + d <= Len(Append(preRoll, f))
    BY <1>1, <2>2, <2>3
  <2> QED BY <2>1, <2>2, <2>3, <2>4, FramesOfPart
<1>4. ASSUME NEW c, chunks' = Append(chunks, c)
      PROVE  chunks'[Len(chunks')] = c
  BY <1>1, <1>4
<1>5. CASE StayIdle(f, a)
  BY <1>3, <1>5 DEF StayIdle, segment
<1>6. CASE OpenSegment(f, a)
  BY <1>3, <1>6, FramesOfNone DEF OpenSegment
<1>7. CASE Continue(f, a, silence)
  BY <1>2, <1>7 DEF Continue, onset
<1>8. CASE CloseSegment(f, a, silence)
  <2>1. speechBuf' = <<>> /\ preRoll' = preRoll
    BY <1>8 DEF CloseSegment, onset
  <2>2. CASE TooLittle(a)
    BY <1>8, <2>1, <2>2, FramesOfNone DEF CloseSegment
  <2>3. CASE ~TooLittle(a)
    <3> DEFINE n == TrimFrames(a, silence)
               chunk == [frames |-> Trimmed(s, n), begun |-> begun, first |-> ~Flushed, last |-> TRUE]
    <3>1. chunks' = Append(chunks, chunk)
      BY <1>8, <2>3 DEF CloseSegment
    <3>2. n \in Nat
      BY CountersTyped DEF IInv
    <3>3. /\ Trimmed(s, n) \in Seq(Nat) /\ Len(Trimmed(s, n)) <= Len(s)
          /\ \A i \in 1..Len(Trimmed(s, n)) : Trimmed(s, n)[i] = s[i]
      BY <1>2, <3>2, TrimmedPrefix
    <3>4. Frames(Trimmed(s, n)) \subseteq Frames(s)
      <4> HIDE DEF s, n
      <4>1. Len(Trimmed(s, n)) + 0 <= Len(s) /\ \A i \in 1..Len(Trimmed(s, n)) : Trimmed(s, n)[i] = s[i + 0]
        BY <1>2, <3>3
      <4> QED BY <1>2, <3>3, <4>1, FramesOfPart
    <3>5. chunk.frames = Trimmed(s, n)
      OBVIOUS
    <3> HIDE DEF chunk, n, s
    <3> QED BY <1>2, <1>4, <2>1, <3>1, <3>3, <3>4, <3>5, FramesOfNone
  <2> QED BY <2>2, <2>3
<1>9. CASE FlushSegment(f, a, silence)
  <2> DEFINE chunk == [frames |-> s, begun |-> begun, first |-> ~Flushed, last |-> FALSE]
  <2>1. chunks' = Append(chunks, chunk) /\ speechBuf' = <<>> /\ preRoll' = preRoll
    BY <1>9 DEF FlushSegment, AfterFlush, onset
  <2>2. chunk.frames = s
    OBVIOUS
  <2> HIDE DEF chunk, s
  <2> QED BY <1>2, <1>4, <2>1, <2>2, FramesOfNone
<1> QED BY <1>5, <1>6, <1>7, <1>8, <1>9 DEF ProcessFrame

(* What a step of the consumer makes of the frame in its hands.                *)
Given == IF raw = 0 THEN {} ELSE {raw}

LEMMA Feeds ==
    ASSUME Piped, Moving, FixedWindow \/ Detect
    PROVE  /\ raw # 0 /\ raw' = 0 /\ pending = <<>>
           /\ UNCHANGED <<captured, audioPc, queue, modes, lastVadOn, sending, sendQueue, sent>>
           /\ Buffered' \subseteq Buffered \union {raw}
           /\ frame' \in {frame, raw} /\ Ordered' /\ Increasing(fixedWindow')
           /\ pending' \in Seq(Nat) /\ Increasing(pending')
           /\ Frames(pending') \subseteq Buffered \union {raw}
           /\ \A x \in Frames(pending'), y \in Buffered' : x < y
<1>1. /\ raw \in Nat /\ raw # 0 /\ fixedWindow \in Seq(Nat) /\ pending = <<>> /\ IInv /\ frame \in Nat
      /\ <<>> \in Seq(Nat)
  BY DEF Piped, PipeTypeOK, Shape, FixedWindow, Detect, IInv, VadTypeOK
<1>2. /\ raw' = 0
      /\ UNCHANGED <<captured, audioPc, queue, modes, lastVadOn, sending, sendQueue, sent>>
  BY DEF FixedWindow, Detect, audio, sender
<1>3. Increasing(<<>>) /\ Frames(<<>>) = {}
  BY EmptyOrdered, FramesOfNone
<1>4. CASE FixedWindow
  <2>1. UNCHANGED <<speechBuf, preRoll, frame, chunks>> /\ speechBuf = <<>> /\ preRoll = <<>>
    BY <1>4, VadStands DEF FixedWindow, Piped, Shape
  <2>2. /\ Append(fixedWindow, raw) \in Seq(Nat) /\ Frames(Append(fixedWindow, raw)) = Frames(fixedWindow) \union {raw}
    BY <1>1, FramesOfAppend
  <2>3. Increasing(Append(fixedWindow, raw))
    <3>1. \A k \in DOMAIN fixedWindow : fixedWindow[k] \in Nat /\ fixedWindow[k] < raw
      BY <1>1 DEF Moving, Buffered, Frames, Passed
    <3>2. raw - 1 \in Nat /\ raw - 1 < raw /\ UpTo(fixedWindow, raw - 1)
      BY <1>1, <3>1 DEF UpTo
    <3> QED BY <1>1, <3>2, AppendOrdered DEF Moving
  <2>4. Ordered'
    BY <2>1 DEF Moving, Ordered
  <2>5. \/ pending' = Append(fixedWindow, raw) /\ fixedWindow' = <<>>
        \/ pending' = <<>> /\ fixedWindow' = Append(fixedWindow, raw)
    BY <1>1, <1>4 DEF FixedWindow
  <2>6. Buffered' = Frames(fixedWindow') /\ Buffered = Frames(fixedWindow)
    BY <1>3, <2>1 DEF Buffered
  <2> QED BY <1>1, <1>2, <1>3, <2>1, <2>2, <2>3, <2>4, <2>5, <2>6
<1>5. CASE Detect
  <2>1. PICK a \in BOOLEAN, silence \in SilenceFrames : ProcessFrame(raw, a, silence)
    BY <1>5 DEF Detect
  <2>2. fixedWindow = <<>> /\ fixedWindow' = <<>>
    BY <1>5 DEF Detect, Piped, Shape
  <2>3. frame' = raw /\ frame < raw
    BY <1>1, <2>1 DEF ProcessFrame, Moving, Passed
  <2>4. Ordered'
    BY <1>1, <2>1, <2>3, OrderStep DEF Moving
  <2>5. /\ Frames(speechBuf') \subseteq Buffered \union {raw} /\ Frames(preRoll') \subseteq Buffered \union {raw}
        /\ chunks' # chunks => /\ chunks'[Len(chunks')].frames \in Seq(Nat)
                               /\ Frames(chunks'[Len(chunks')].frames) \subseteq Buffered \union {raw}
    BY <1>1, <2>1, Drawn DEF Buffered
  <2>6. Buffered' = Frames(speechBuf') \union Frames(preRoll')
    BY <1>3, <2>2 DEF Buffered
  <2>7. CASE chunks' # chunks
    <3>1. pending' = chunks'[Len(chunks')].frames
      BY <1>5, <2>7 DEF Detect
    <3>2. Len(chunks') \in DOMAIN chunks'
      BY <1>1, <2>1, <2>7, ChunkReturned
    <3>3. Increasing(pending') /\ Before(pending', speechBuf') /\ Before(pending', preRoll')
      BY <2>4, <3>1, <3>2 DEF Ordered
    <3>4. \A x \in Frames(pending'), y \in Buffered' : x < y
      BY <2>6, <3>3 DEF Before, Frames
    <3> QED BY <1>1, <1>2, <1>3, <2>2, <2>3, <2>4, <2>5, <2>6, <2>7, <3>1, <3>3, <3>4
  <2>8. CASE chunks' = chunks
    <3>1. pending' = <<>>
      BY <1>1, <1>5, <2>8 DEF Detect
    <3> QED BY <1>1, <1>2, <1>3, <2>2, <2>3, <2>4, <2>5, <2>6, <3>1
  <2> QED BY <2>7, <2>8
<1> QED BY <1>4, <1>5

LEMMA ModesStep ==
    ASSUME Piped, Moving, ConsumerTakes
    PROVE  /\ \A x \in InHand' : InMode(x)'
           /\ \A m \in modes' : Ahead(m[1])'
           /\ raw' # 0 => Ahead(raw)'
           /\ Ordered' /\ Increasing(fixedWindow') /\ Buffered' \subseteq Buffered /\ frame' = frame
           /\ raw = 0 /\ raw' \in Nat /\ modes' = modes \union {<<raw', lastVadOn'>>}
<1>1. /\ queue \in Seq(Nat) /\ queue # <<>> /\ queue' = Tail(queue) /\ raw' = Head(queue)
      /\ lastVadOn' = vadOn /\ modes' = modes \union {<<Head(queue), vadOn>>}
      /\ consumerPc = "take" /\ raw = 0 /\ UNCHANGED <<captured, audioPc>>
      /\ modes \subseteq Nat \X BOOLEAN
  BY DEF ConsumerTakes, Piped, PipeTypeOK, Shape
<1>2. /\ Head(queue) \in Nat /\ Head(queue) = queue[1] /\ 1 \in DOMAIN queue
      /\ \A i \in DOMAIN Tail(queue) : i \in Nat /\ i + 1 \in DOMAIN queue /\ Tail(queue)[i] = queue[i + 1]
      /\ \A i \in DOMAIN Tail(queue) : 1 < i + 1
  BY <1>1, TailIs
<1>3. raw' \in Nat /\ \A m \in modes : m[1] \in Nat /\ m[1] < raw' /\ m \in Nat \X BOOLEAN
  BY <1>1, <1>2 DEF Moving, Ahead
<1>4. Ahead(raw)'
  <2>1. raw' <= captured /\ (audioPc # "idle" => raw' < captured)
    BY <1>1, <1>2 DEF Moving, Queued
  <2>2. \A k \in DOMAIN queue' : raw' < queue'[k]
    BY <1>1, <1>2 DEF Moving, Queued, Increasing
  <2> QED BY <1>1, <2>1, <2>2 DEF Ahead
<1>5. \A m \in modes' : Ahead(m[1])'
  <2>1. \A k \in DOMAIN queue' : \E j \in DOMAIN queue : queue'[k] = queue[j]
    BY <1>1, <1>2
  <2>2. ASSUME NEW m \in modes PROVE Ahead(m[1])'
    BY <1>1, <2>1 DEF Moving, Ahead
  <2>3. <<Head(queue), vadOn>>[1] = raw'
    BY <1>1
  <2> QED BY <1>1, <1>4, <2>2, <2>3
<1>6. InMode(raw)'
  <2>1. <<raw', lastVadOn'>> \in modes'
    BY <1>1
  <2>2. ASSUME NEW m \in modes', m[1] >= raw' PROVE m[2] = lastVadOn'
    <3>1. CASE m \in modes
      BY <1>3, <2>2, <3>1
    <3>2. CASE m = <<Head(queue), vadOn>>
      BY <1>1, <3>2
    <3> QED BY <1>1, <3>1, <3>2
  <2> QED BY <2>1, <2>2 DEF InMode
<1>7. CASE Switched
  <2>1. VadReset /\ fixedWindow' = <<>> /\ IInv
    BY <1>7 DEF ConsumerTakes, Piped
  <2>2. speechBuf' = <<>> /\ preRoll' = <<>> /\ frame' = frame /\ chunks' = chunks
    BY <2>1, ResetKeeps
  <2>3. Buffered' = {}
    BY <2>1, <2>2, FramesOfNone DEF Buffered
  <2>4. Ordered'
    <3>1. \A i \in DOMAIN chunks : chunks[i].frames \in Seq(Nat)
      BY <2>1, ChunksTyped DEF IInv, VadTypeOK
    <3>2. frame \in Nat
      BY <2>1 DEF IInv, VadTypeOK
    <3> QED BY <2>2, <3>1, <3>2, EmptyOrdered DEF Moving, Ordered
  <2>5. \A x \in InHand' : x = raw'
    BY <2>3 DEF InHand
  <2> QED BY <1>1, <1>3, <1>4, <1>5, <1>6, <2>1, <2>2, <2>3, <2>4, <2>5, EmptyOrdered
<1>8. CASE ~Switched
  <2>1. UNCHANGED <<vadVars, fixedWindow>> /\ lastVadOn' = lastVadOn
    BY <1>1, <1>8 DEF ConsumerTakes, Switched
  <2>2. UNCHANGED <<speechBuf, preRoll, frame, chunks>>
    BY <2>1, VadStands
  <2>3. Buffered' = Buffered /\ Ordered'
    BY <2>1, <2>2 DEF Buffered, Moving, Ordered
  <2>4. ASSUME NEW x \in Buffered PROVE InMode(x)'
    <3>1. InMode(x)
      BY DEF Moving, InHand
    <3>2. ASSUME NEW m \in modes', m[1] >= x PROVE m[2] = lastVadOn'
      <4>1. CASE m \in modes
        BY <2>1, <3>1, <3>2, <4>1 DEF InMode
      <4>2. CASE m = <<Head(queue), vadOn>>
        BY <1>1, <4>2
      <4> QED BY <1>1, <4>1, <4>2
    <3> QED BY <1>1, <2>1, <3>1, <3>2 DEF InMode
  <2>5. \A x \in InHand' : x = raw' \/ x \in Buffered
    BY <2>3 DEF InHand
  <2> QED BY <1>1, <1>3, <1>4, <1>5, <1>6, <2>1, <2>2, <2>3, <2>4, <2>5 DEF Moving
<1> QED BY <1>7, <1>8

LEMMA BufferedAreFrames ==
    ASSUME Piped
    PROVE  /\ Buffered \subseteq Nat /\ raw \in Nat /\ frame \in Nat
           /\ \A m \in modes : m[1] \in Nat
<1>1. /\ fixedWindow \in Seq(Nat) /\ speechBuf \in Seq(Nat) /\ preRoll \in Seq(Nat)
      /\ raw \in Nat /\ frame \in Nat /\ modes \subseteq Nat \X BOOLEAN
  BY DEF Piped, PipeTypeOK, VadTypeOK
<1> QED BY <1>1 DEF Buffered, Frames

LEMMA MovingStep ==
    ASSUME Piped, Moving, [PipeNext]_pipeVars
    PROVE  Moving'
<1>1. Queued'
  BY QueuedStep DEF Moving
<1>2. /\ Buffered \subseteq Nat /\ raw \in Nat /\ frame \in Nat /\ \A m \in modes : m[1] \in Nat
  BY BufferedAreFrames
<1>3. /\ Passed(frame)' \/ frame' # frame
      /\ \A x \in Buffered : Passed(x)'
  <2>1. ASSUME NEW x \in Nat, Passed(x) PROVE Passed(x)'
    BY <2>1, AheadStep DEF Passed
  <2>2. frame' = frame => Passed(frame)'
    <3>1. PICK x \in Nat : x = frame
      BY <1>2
    <3>2. Passed(x)'
      BY <2>1, <3>1 DEF Moving
    <3> QED BY <3>1, <3>2 DEF Passed, Ahead
  <2> QED BY <1>2, <2>1, <2>2 DEF Moving
<1>4. \A m \in modes : Ahead(m[1])'
  <2>1. ASSUME NEW m \in modes PROVE Ahead(m[1])'
    <3>1. PICK x \in Nat : x = m[1]
      BY <1>2
    <3>2. Ahead(x)'
      BY <3>1, AheadStep DEF Moving
    <3> QED BY <3>1, <3>2
  <2> QED BY <2>1
<1>5. raw # 0 => \A x \in Nat : x = raw => Ahead(x)'
  BY AheadStep DEF Moving
<1>6. CASE FixedWindow \/ Detect
  <2>1. /\ raw # 0 /\ raw' = 0 /\ Buffered' \subseteq Buffered \union {raw}
        /\ UNCHANGED <<captured, audioPc, queue, modes, lastVadOn>>
        /\ frame' \in {frame, raw} /\ Ordered' /\ Increasing(fixedWindow')
    BY <1>6, Feeds
  <2>2. \A x \in Nat : x = raw => Passed(x)'
    BY <1>5, <2>1 DEF Passed, Ahead
  <2>3. \A x \in Buffered' : Passed(x)'
    BY <1>2, <1>3, <2>1, <2>2
  <2>4. Passed(frame)'
    <3>1. PICK x \in Nat : x = raw
      BY <1>2
    <3>2. CASE frame' = raw
      <4>1. Passed(x)'
        BY <2>2, <3>1
      <4> QED BY <3>1, <3>2, <4>1 DEF Passed, Ahead
    <3> QED BY <1>3, <2>1, <3>2
  <2>5. InHand' \subseteq InHand
    BY <2>1 DEF InHand
  <2>6. \A x \in InHand' : InMode(x)'
    BY <2>1, <2>5 DEF Moving, InMode
  <2> QED BY <1>1, <1>4, <2>1, <2>3, <2>4, <2>6 DEF Moving
<1>7. CASE ConsumerTakes
  BY <1>1, <1>3, <1>7, ModesStep DEF Moving
<1>8. CASE UNCHANGED <<vadVars, fixedWindow, raw, modes, lastVadOn>>
  <2>1. UNCHANGED <<speechBuf, preRoll, frame, chunks>>
    BY <1>8, VadStands
  <2>2. Buffered' = Buffered /\ InHand' = InHand /\ Ordered' /\ Increasing(fixedWindow')
    BY <1>8, <2>1 DEF Buffered, InHand, Moving, Ordered
  <2>3. raw' # 0 => Ahead(raw)'
    <3>1. PICK x \in Nat : x = raw
      BY <1>2
    <3>2. raw # 0 => Ahead(x)'
      BY <1>5, <3>1
    <3> QED BY <1>8, <3>1, <3>2 DEF Ahead
  <2> QED BY <1>1, <1>3, <1>4, <1>8, <2>1, <2>2, <2>3 DEF Moving, InMode
<1>9. CASE Audio \/ EnqueueAdds \/ EnqueueTakes \/ EnqueueAddsAgain \/ Sender \/ ToggleVad
  BY <1>8, <1>9 DEF Audio, ProcessAdds, ProcessTakes, ProcessAddsAgain, EnqueueAdds, EnqueueTakes,
                    EnqueueAddsAgain, Sender, SenderTakes, SendEnds, SendLoopCrashes, ToggleVad, consumer
<1>10. CASE UNCHANGED pipeVars
  BY <1>8, <1>10 DEF pipeVars, consumer
<1> QED BY <1>6, <1>7, <1>9, <1>10 DEF PipeNext, Consumer

-----------------------------------------------------------------------------
(* The chunks on their way.                                                    *)

Elements(s) == {s[i] : i \in DOMAIN s}

Outgoing == Elements(sent) \union {sending} \union Elements(sendQueue) \union {pending}

OneMode(c) ==
    \A f, g \in Frames(c), m \in modes : f <= m[1] /\ m[1] <= g => <<f, m[2]>> \in modes

Sound(c) ==
    /\ c \in Seq(Nat) /\ Increasing(c) /\ OneMode(c)
    /\ \A x \in Frames(c) : Passed(x) /\ \A y \in Buffered : x < y

InTurn(s) == \A i, j \in DOMAIN s : i < j => Before(s[i], s[j])

Lined ==
    /\ InTurn(sent) /\ InTurn(sendQueue)
    /\ \A c \in Elements(sent) :
         /\ Before(c, sending) /\ Before(c, pending)
         /\ \A d \in Elements(sendQueue) : Before(c, d)
    /\ \A d \in Elements(sendQueue) : Before(sending, d) /\ Before(d, pending)
    /\ Before(sending, pending)

Flowing == Moving /\ (\A c \in Outgoing : Sound(c)) /\ Lined

(* A chunk stays what it is.                                                   *)
LEMMA SoundStep ==
    ASSUME Piped, Moving, [PipeNext]_pipeVars, NEW c, Sound(c)
    PROVE  Sound(c)'
<1>1. /\ Buffered \subseteq Nat /\ raw \in Nat /\ frame \in Nat /\ \A m \in modes : m[1] \in Nat
  BY BufferedAreFrames
<1>2. c \in Seq(Nat) /\ Increasing(c) /\ Frames(c) \subseteq Nat
  BY DEF Sound, Frames
<1>3. \A x \in Frames(c) : Passed(x) /\ Passed(x)' /\ Ahead(x)
  BY <1>2, AheadStep DEF Sound, Passed
<1>4. Buffered' \subseteq Buffered \union Given
      /\ \/ modes' = modes
         \/ modes' = modes \union {<<raw', lastVadOn'>>} /\ raw' # 0 /\ raw' \in Nat
  <2>1. CASE FixedWindow \/ Detect
    BY <2>1, Feeds DEF Given
  <2>2. CASE ConsumerTakes
    <3>1. consumerPc' = "frame"
      BY <2>2 DEF ConsumerTakes
    <3>2. Consumer
      BY <2>2 DEF Consumer
    <3>3. raw' # 0
      BY <3>1, <3>2, ConsumerTypes DEF Piped, Shape
    <3> QED BY <2>2, <3>3, ModesStep
  <2>3. CASE UNCHANGED <<vadVars, fixedWindow, modes>>
    <3>1. UNCHANGED <<speechBuf, preRoll>>
      BY <2>3, VadStands
    <3> QED BY <2>3, <3>1 DEF Buffered
  <2>4. CASE Audio \/ EnqueueAdds \/ EnqueueTakes \/ EnqueueAddsAgain \/ Sender \/ ToggleVad
    BY <2>3, <2>4 DEF Audio, ProcessAdds, ProcessTakes, ProcessAddsAgain, EnqueueAdds, EnqueueTakes,
                      EnqueueAddsAgain, Sender, SenderTakes, SendEnds, SendLoopCrashes, ToggleVad, consumer
  <2>5. CASE UNCHANGED pipeVars
    BY <2>3, <2>5 DEF pipeVars, consumer
  <2> QED BY <2>1, <2>2, <2>4, <2>5 DEF PipeNext, Consumer
<1>5. \A x \in Frames(c) : \A y \in Buffered' : x < y
  BY <1>3, <1>4 DEF Given, Passed, Sound
<1>6. OneMode(c)'
  <2>1. OneMode(c)
    BY DEF Sound
  <2>2. CASE modes' = modes
    BY <2>1, <2>2 DEF OneMode
  <2>3. CASE modes' = modes \union {<<raw', lastVadOn'>>} /\ raw' # 0 /\ raw' \in Nat
    <3>1. \A g \in Frames(c) : g < raw'
      BY <1>3, <2>3 DEF Passed
    <3>2. ASSUME NEW f \in Frames(c), NEW g \in Frames(c), NEW m \in modes', f <= m[1], m[1] <= g
          PROVE  <<f, m[2]>> \in modes'
      <4>1. m # <<raw', lastVadOn'>>
        BY <1>2, <2>3, <3>1, <3>2
      <4>2. m \in modes
        BY <2>3, <4>1
      <4> QED BY <2>1, <2>3, <3>2, <4>2 DEF OneMode
    <3> QED BY <3>2 DEF OneMode
  <2> QED BY <1>4, <2>2, <2>3
<1> QED BY <1>2, <1>3, <1>5, <1>6 DEF Sound

(* The chunk that is made of what the consumer held.                           *)
LEMMA NewIsSound ==
    ASSUME Piped, Moving, FixedWindow \/ Detect
    PROVE  Sound(pending)'
<1>1. /\ raw # 0 /\ raw' = 0
      /\ UNCHANGED <<captured, audioPc, queue, modes, lastVadOn>>
      /\ pending' \in Seq(Nat) /\ Increasing(pending')
      /\ Frames(pending') \subseteq Buffered \union {raw}
      /\ \A x \in Frames(pending'), y \in Buffered' : x < y
  BY Feeds
<1>2. /\ Buffered \subseteq Nat /\ raw \in Nat /\ \A m \in modes : m[1] \in Nat
  BY BufferedAreFrames
<1>3. \A x \in Frames(pending') : x \in InHand
  BY <1>1 DEF InHand
<1>4. OneMode(pending)'
  <2>1. ASSUME NEW f \in Frames(pending'), NEW g \in Frames(pending'), NEW m \in modes', f <= m[1], m[1] <= g
        PROVE  <<f, m[2]>> \in modes'
    <3>1. InMode(f) /\ m \in modes
      BY <1>1, <1>3 DEF Moving
    <3>2. m[2] = lastVadOn
      BY <1>2, <1>3, <2>1, <3>1 DEF InMode, InHand
    <3> QED BY <1>1, <3>1, <3>2 DEF InMode
  <2> QED BY <2>1 DEF OneMode
<1>5. \A x \in Frames(pending') : Ahead(x)
  BY <1>1 DEF Moving, Passed
<1>6. \A x \in Frames(pending') : Passed(x)'
  BY <1>1, <1>5 DEF Passed, Ahead
<1> QED BY <1>1, <1>4, <1>6 DEF Sound

LEMMA TailInTurn ==
    ASSUME NEW s \in Seq(Seq(Nat)), s # <<>>, InTurn(s)
    PROVE  /\ InTurn(Tail(s)) /\ Elements(Tail(s)) \subseteq Elements(s) /\ Head(s) \in Elements(s)
           /\ \A d \in Elements(Tail(s)) : Before(Head(s), d)
<1>1. /\ Head(s) = s[1] /\ 1 \in DOMAIN s
      /\ \A i \in DOMAIN Tail(s) : i \in Nat /\ 1 < i + 1 /\ i + 1 \in DOMAIN s /\ Tail(s)[i] = s[i + 1]
  BY TailIs
<1> QED BY <1>1 DEF InTurn, Elements

LEMMA AppendInTurn ==
    ASSUME NEW s \in Seq(Seq(Nat)), NEW e \in Seq(Nat), InTurn(s), \A d \in Elements(s) : Before(d, e)
    PROVE  InTurn(Append(s, e)) /\ Elements(Append(s, e)) = Elements(s) \union {e}
<1>1. /\ \A i \in DOMAIN Append(s, e) : \/ i \in DOMAIN s /\ Append(s, e)[i] = s[i]
                                        \/ i = Len(s) + 1 /\ Append(s, e)[i] = e
      /\ \A i \in DOMAIN s : i \in DOMAIN Append(s, e) /\ Append(s, e)[i] = s[i] /\ i <= Len(s) /\ i \in Nat
      /\ Len(s) + 1 \in DOMAIN Append(s, e) /\ Append(s, e)[Len(s) + 1] = e /\ Len(s) \in Nat
  OBVIOUS
<1>2. \A x : x \in Elements(Append(s, e)) <=> x \in Elements(s) \/ x = e
  BY <1>1 DEF Elements
<1>3. ASSUME NEW i \in DOMAIN Append(s, e), NEW j \in DOMAIN Append(s, e), i < j
      PROVE  Before(Append(s, e)[i], Append(s, e)[j])
  <2>1. i \in DOMAIN s /\ Append(s, e)[i] = s[i]
    BY <1>1, <1>3
  <2> QED BY <1>1, <1>3, <2>1 DEF InTurn, Elements
<1> QED BY <1>2, <1>3 DEF InTurn

LEMMA NoneBefore == \A c : Before(c, <<>>) /\ Before(<<>>, c)
BY DEF Before

(* Where a step moves the chunks.                                              *)
Places == <<sent, sending, sendQueue, pending>>

LEMMA ChunksMove ==
    ASSUME Piped, [PipeNext]_pipeVars
    PROVE  \/ UNCHANGED Places
           \/ (FixedWindow \/ Detect) /\ UNCHANGED <<sent, sending, sendQueue>>
           \/ sendQueue' = Append(sendQueue, pending) /\ pending' = <<>> /\ UNCHANGED <<sent, sending>>
           \/ sendQueue # <<>> /\ sendQueue' = Tail(sendQueue) /\ UNCHANGED <<sent, sending, pending>>
           \/ /\ sendQueue # <<>> /\ sendQueue' = Tail(sendQueue) /\ sending = <<>> /\ sending' = Head(sendQueue)
              /\ UNCHANGED <<sent, pending>>
           \/ sent' = Append(sent, sending) /\ sending' = <<>> /\ UNCHANGED <<sendQueue, pending>>
<1> USE DEF Places, consumer, sender
<1>1. CASE Audio \/ SendLoopCrashes \/ ToggleVad
  BY <1>1 DEF Audio, ProcessAdds, ProcessTakes, ProcessAddsAgain, SendLoopCrashes, ToggleVad
<1>2. CASE FixedWindow \/ Detect \/ ConsumerTakes
  BY <1>2 DEF FixedWindow, Detect, ConsumerTakes
<1>3. CASE EnqueueAdds
  BY <1>3 DEF EnqueueAdds
<1>4. CASE EnqueueTakes
  BY <1>4 DEF EnqueueTakes
<1>5. CASE EnqueueAddsAgain
  BY <1>5 DEF EnqueueAddsAgain, Piped, Shape
<1>6. CASE SenderTakes
  BY <1>6 DEF SenderTakes
<1>7. CASE SendEnds
  BY <1>7 DEF SendEnds
<1>8. CASE UNCHANGED pipeVars
  BY <1>8 DEF pipeVars
<1> QED BY <1>1, <1>2, <1>3, <1>4, <1>5, <1>6, <1>7, <1>8 DEF PipeNext, Consumer, Sender

LEMMA ChunksTypes ==
    ASSUME Piped
    PROVE  sent \in Seq(Seq(Nat)) /\ sending \in Seq(Nat) /\ sendQueue \in Seq(Seq(Nat)) /\ pending \in Seq(Nat)
BY DEF Piped, PipeTypeOK

LEMMA FlowingStep ==
    ASSUME Piped, Flowing, [PipeNext]_pipeVars
    PROVE  Flowing'
<1>1. sent \in Seq(Seq(Nat)) /\ sending \in Seq(Nat) /\ sendQueue \in Seq(Seq(Nat)) /\ pending \in Seq(Nat)
  BY ChunksTypes
<1>2. \A c \in Outgoing : Sound(c) /\ Sound(c)'
  BY SoundStep DEF Flowing
<1>3. Sound(<<>>)'
  BY EmptyOrdered, FramesOfNone DEF Sound, OneMode
<1>4. Moving'
  BY MovingStep DEF Flowing
<1>5. ASSUME \A c \in Outgoing' : c \in Outgoing \/ c = <<>> \/ ((FixedWindow \/ Detect) /\ c = pending')
      PROVE  \A c \in Outgoing' : Sound(c)'
  <2>1. ASSUME FixedWindow \/ Detect
        PROVE  \A c : c = pending' => Sound(c)'
    <3>1. Sound(pending)'
      BY <2>1, NewIsSound DEF Flowing
    <3> QED BY <3>1 DEF Sound, OneMode, Passed, Ahead
  <2> QED BY <1>2, <1>3, <1>5, <2>1
<1>6. CASE UNCHANGED Places
  BY <1>4, <1>5, <1>6 DEF Flowing, Places, Outgoing, Lined
<1>7. CASE (FixedWindow \/ Detect) /\ UNCHANGED <<sent, sending, sendQueue>>
  <2>1. ASSUME NEW c \in Outgoing
        PROVE  Before(c, pending')
    <3>1. Frames(pending') \subseteq Buffered \union {raw} /\ raw # 0
      BY <1>7, Feeds DEF Flowing
    <3>2. \A x \in Frames(c), y \in Frames(pending') : x < y
      BY <1>2, <3>1 DEF Sound, Passed
    <3> QED BY <3>2 DEF Before, Frames
  <2>2. Lined'
    BY <1>7, <2>1 DEF Flowing, Lined, Outgoing
  <2>3. \A c \in Outgoing' : Sound(c)'
    BY <1>5, <1>7 DEF Outgoing
  <2> QED BY <1>4, <2>2, <2>3 DEF Flowing
<1>8. CASE sendQueue' = Append(sendQueue, pending) /\ pending' = <<>> /\ UNCHANGED <<sent, sending>>
  <2>1. InTurn(sendQueue') /\ Elements(sendQueue') = Elements(sendQueue) \union {pending}
    BY <1>1, <1>8, AppendInTurn DEF Flowing, Lined
  <2>2. Lined'
    BY <1>8, <2>1, NoneBefore DEF Flowing, Lined
  <2>3. \A c \in Outgoing' : Sound(c)'
    BY <1>5, <1>8, <2>1 DEF Outgoing
  <2> QED BY <1>4, <2>2, <2>3 DEF Flowing
<1>9. CASE sendQueue # <<>> /\ sendQueue' = Tail(sendQueue) /\ UNCHANGED <<sent, sending, pending>>
  <2>1. InTurn(sendQueue') /\ Elements(sendQueue') \subseteq Elements(sendQueue)
    BY <1>1, <1>9, TailInTurn DEF Flowing, Lined
  <2>2. Lined'
    BY <1>9, <2>1 DEF Flowing, Lined
  <2>3. \A c \in Outgoing' : Sound(c)'
    BY <1>5, <1>9, <2>1 DEF Outgoing
  <2> QED BY <1>4, <2>2, <2>3 DEF Flowing
<1>10. CASE /\ sendQueue # <<>> /\ sendQueue' = Tail(sendQueue) /\ sending = <<>> /\ sending' = Head(sendQueue)
            /\ UNCHANGED <<sent, pending>>
  <2>1. /\ InTurn(sendQueue') /\ Elements(sendQueue') \subseteq Elements(sendQueue)
        /\ sending' \in Elements(sendQueue) /\ \A d \in Elements(sendQueue') : Before(sending', d)
    BY <1>1, <1>10, TailInTurn DEF Flowing, Lined
  <2>2. Lined'
    BY <1>10, <2>1 DEF Flowing, Lined
  <2>3. \A c \in Outgoing' : Sound(c)'
    BY <1>5, <1>10, <2>1 DEF Outgoing
  <2> QED BY <1>4, <2>2, <2>3 DEF Flowing
<1>11. CASE sent' = Append(sent, sending) /\ sending' = <<>> /\ UNCHANGED <<sendQueue, pending>>
  <2>1. InTurn(sent') /\ Elements(sent') = Elements(sent) \union {sending}
    BY <1>1, <1>11, AppendInTurn DEF Flowing, Lined
  <2>2. Lined'
    BY <1>11, <2>1, NoneBefore DEF Flowing, Lined
  <2>3. \A c \in Outgoing' : Sound(c)'
    BY <1>5, <1>11, <2>1 DEF Outgoing
  <2> QED BY <1>4, <2>2, <2>3 DEF Flowing
<1> QED BY <1>6, <1>7, <1>8, <1>9, <1>10, <1>11, ChunksMove

LEMMA FlowingStarts == PipeInit => Flowing
<1> SUFFICES ASSUME PipeInit PROVE Flowing
  OBVIOUS
<1>1. /\ preRoll = <<>> /\ speechBuf = <<>> /\ chunks = <<>> /\ frame = 0 /\ captured = 0 /\ queue = <<>>
      /\ audioPc = "idle" /\ raw = 0 /\ fixedWindow = <<>> /\ modes = {} /\ sent = <<>> /\ sending = <<>>
      /\ sendQueue = <<>> /\ pending = <<>>
  BY DEF PipeInit, VadInit
<1>2. Increasing(<<>>) /\ UpTo(<<>>, 0) /\ Frames(<<>>) = {}
  BY EmptyOrdered, FramesOfNone
<1>3. Buffered = {} /\ InHand = {}
  BY <1>1, <1>2 DEF Buffered, InHand
<1>4. Moving
  BY <1>1, <1>2, <1>3 DEF Moving, Ordered, Queued, Passed, Ahead
<1>5. Outgoing = {<<>>}
  BY <1>1 DEF Outgoing, Elements
<1>6. \A c \in Outgoing : Sound(c)
  BY <1>2, <1>5 DEF Sound, OneMode
<1>7. Lined
  BY <1>1, NoneBefore DEF Lined, InTurn, Elements
<1> QED BY <1>4, <1>6, <1>7 DEF Flowing

-----------------------------------------------------------------------------
(* All pieces in one line.                                                     *)

LEMMA ConcatInTurn ==
    ASSUME NEW s \in Seq(Seq(Nat)), NEW t \in Seq(Seq(Nat)), InTurn(s), InTurn(t),
           \A c \in Elements(s), d \in Elements(t) : Before(c, d)
    PROVE  /\ s \o t \in Seq(Seq(Nat)) /\ InTurn(s \o t)
           /\ Elements(s \o t) = Elements(s) \union Elements(t)
<1>1. /\ s \o t \in Seq(Seq(Nat)) /\ Len(s \o t) = Len(s) + Len(t) /\ Len(s) \in Nat /\ Len(t) \in Nat
      /\ DOMAIN s = 1..Len(s) /\ DOMAIN t = 1..Len(t) /\ DOMAIN (s \o t) = 1..(Len(s) + Len(t))
  OBVIOUS
<1>2. /\ \A i \in 1..Len(s) : (s \o t)[i] = s[i]
      /\ \A i \in 1..Len(t) : (s \o t)[i + Len(s)] = t[i]
  OBVIOUS
<1>3. \A i \in DOMAIN (s \o t) :
         \/ i \in DOMAIN s /\ (s \o t)[i] = s[i]
         \/ i > Len(s) /\ i - Len(s) \in DOMAIN t /\ (s \o t)[i] = t[i - Len(s)]
  <2> TAKE i \in DOMAIN (s \o t)
  <2>1. i \in 1..Len(s) \/ (i > Len(s) /\ i - Len(s) \in 1..Len(t) /\ (i - Len(s)) + Len(s) = i)
    BY <1>1
  <2>2. ASSUME NEW k \in 1..Len(t), k + Len(s) = i
        PROVE  (s \o t)[i] = t[k]
    BY <1>2, <2>2
  <2> QED BY <1>1, <1>2, <2>1, <2>2
<1>4. ASSUME NEW i \in DOMAIN (s \o t), NEW j \in DOMAIN (s \o t), i < j
      PROVE  Before((s \o t)[i], (s \o t)[j])
  <2>1. CASE i \in DOMAIN s /\ (s \o t)[i] = s[i] /\ j \in DOMAIN s /\ (s \o t)[j] = s[j]
    BY <1>4, <2>1 DEF InTurn
  <2>2. CASE i \in DOMAIN s /\ (s \o t)[i] = s[i] /\ j - Len(s) \in DOMAIN t /\ (s \o t)[j] = t[j - Len(s)]
    BY <2>2 DEF Elements
  <2>3. CASE i > Len(s) /\ i - Len(s) \in DOMAIN t /\ (s \o t)[i] = t[i - Len(s)]
    <3>1. i \in Nat /\ j \in Nat /\ j > Len(s) /\ i - Len(s) < j - Len(s)
      BY <1>1, <1>4, <2>3
    <3>2. j - Len(s) \in DOMAIN t /\ (s \o t)[j] = t[j - Len(s)]
      BY <1>1, <1>3, <3>1
    <3> QED BY <2>3, <3>1, <3>2 DEF InTurn
  <2> QED BY <1>3, <2>1, <2>2, <2>3
<1>5. \A x : x \in Elements(s \o t) <=> x \in Elements(s) \/ x \in Elements(t)
  <2>1. \A x : x \in Elements(s \o t) => x \in Elements(s) \/ x \in Elements(t)
    BY <1>3 DEF Elements
  <2>2. \A x : x \in Elements(s) => x \in Elements(s \o t)
    BY <1>1, <1>2 DEF Elements
  <2>3. \A i \in DOMAIN t : i + Len(s) \in DOMAIN (s \o t) /\ (s \o t)[i + Len(s)] = t[i]
    BY <1>1, <1>2
  <2>4. \A x : x \in Elements(t) => x \in Elements(s \o t)
    BY <2>3 DEF Elements
  <2> QED BY <2>1, <2>2, <2>4
<1>6. InTurn(s \o t)
  BY <1>4 DEF InTurn
<1> QED BY <1>1, <1>5, <1>6

LEMMA OneInTurn ==
    ASSUME NEW c \in Seq(Nat)
    PROVE  <<c>> \in Seq(Seq(Nat)) /\ InTurn(<<c>>) /\ Elements(<<c>>) = {c}
BY DEF InTurn, Elements

LEMMA OutboxInTurn ==
    ASSUME Piped, Flowing
    PROVE  Outbox \in Seq(Seq(Nat)) /\ InTurn(Outbox) /\ Elements(Outbox) = Outgoing
<1>1. sent \in Seq(Seq(Nat)) /\ sending \in Seq(Nat) /\ sendQueue \in Seq(Seq(Nat)) /\ pending \in Seq(Nat)
  BY ChunksTypes
<1> DEFINE A == sent \o <<sending>>
           B == A \o sendQueue
<1>2. A \in Seq(Seq(Nat)) /\ InTurn(A) /\ Elements(A) = Elements(sent) \union {sending}
  <2>1. <<sending>> \in Seq(Seq(Nat)) /\ InTurn(<<sending>>) /\ Elements(<<sending>>) = {sending}
    BY <1>1, OneInTurn
  <2>2. InTurn(sent) /\ \A c \in Elements(sent), d \in {sending} : Before(c, d)
    BY DEF Flowing, Lined
  <2>3. PICK one \in Seq(Seq(Nat)) : one = <<sending>>
    BY <2>1
  <2>4. InTurn(one) /\ \A c \in Elements(sent), d \in Elements(one) : Before(c, d)
    BY <2>1, <2>2, <2>3
  <2>5. sent \o one \in Seq(Seq(Nat)) /\ InTurn(sent \o one)
        /\ Elements(sent \o one) = Elements(sent) \union Elements(one)
    BY <1>1, <2>2, <2>4, ConcatInTurn
  <2> QED BY <2>1, <2>3, <2>5
<1>3. Outbox = B \o <<pending>>
  BY DEF Outbox
<1> HIDE DEF A
<1>4. B \in Seq(Seq(Nat)) /\ InTurn(B) /\ Elements(B) = Elements(A) \union Elements(sendQueue)
  <2>1. InTurn(sendQueue) /\ \A c \in Elements(A), d \in Elements(sendQueue) : Before(c, d)
    BY <1>2 DEF Flowing, Lined
  <2> QED BY <1>1, <1>2, <2>1, ConcatInTurn
<1> HIDE DEF B
<1>5. \A c \in Elements(B) : Before(c, pending)
  BY <1>2, <1>4 DEF Flowing, Lined
<1>6. /\ B \o <<pending>> \in Seq(Seq(Nat)) /\ InTurn(B \o <<pending>>)
      /\ Elements(B \o <<pending>>) = Elements(B) \union {pending}
  <2>1. <<pending>> \in Seq(Seq(Nat)) /\ InTurn(<<pending>>) /\ Elements(<<pending>>) = {pending}
    BY <1>1, OneInTurn
  <2>2. PICK one \in Seq(Seq(Nat)) : one = <<pending>>
    BY <2>1
  <2>3. InTurn(one) /\ \A c \in Elements(B), d \in Elements(one) : Before(c, d)
    BY <1>5, <2>1, <2>2
  <2>4. B \o one \in Seq(Seq(Nat)) /\ InTurn(B \o one)
        /\ Elements(B \o one) = Elements(B) \union Elements(one)
    BY <1>4, <2>3, ConcatInTurn
  <2> QED BY <2>1, <2>2, <2>4
<1> QED BY <1>2, <1>3, <1>4, <1>6 DEF Outgoing

Rest == <<fixedWindow, speechBuf, preRoll, Held(raw # 0, raw), queue, Held(audioPc # "idle", captured)>>

LEMMA RestInTurn ==
    ASSUME Piped, Moving
    PROVE  /\ Rest \in Seq(Seq(Nat)) /\ InTurn(Rest)
           /\ \A d \in Elements(Rest) : Increasing(d)
           /\ \A c : Sound(c) => \A d \in Elements(Rest) : Before(c, d)
<1> DEFINE h == Held(raw # 0, raw)
           n == Held(audioPc # "idle", captured)
<1>1. /\ fixedWindow \in Seq(Nat) /\ speechBuf \in Seq(Nat) /\ preRoll \in Seq(Nat) /\ queue \in Seq(Nat)
      /\ raw \in Nat /\ captured \in Nat
  BY DEF Piped, PipeTypeOK, VadTypeOK
<1>2. h \in Seq(Nat) /\ n \in Seq(Nat) /\ Increasing(h) /\ Increasing(n)
      /\ (\A i \in DOMAIN h : h[i] = raw /\ raw # 0)
      /\ (\A i \in DOMAIN n : n[i] = captured /\ audioPc # "idle")
  BY <1>1 DEF Held, Increasing
<1>3. /\ \A i \in DOMAIN fixedWindow : fixedWindow[i] \in Buffered
      /\ \A i \in DOMAIN speechBuf : speechBuf[i] \in Buffered
      /\ \A i \in DOMAIN preRoll : preRoll[i] \in Buffered
  BY DEF Buffered, Frames
<1> DEFINE Three == {fixedWindow, speechBuf, preRoll}
<1>4. \A b \in Three : \A i \in DOMAIN b : b[i] \in Buffered
  BY <1>3
<1>5. \A b \in Three : Before(b, h) /\ Before(b, queue) /\ Before(b, n)
  BY <1>2, <1>4 DEF Moving, Passed, Ahead, Before
<1>6. Before(h, queue) /\ Before(h, n) /\ Before(queue, n)
  BY <1>2 DEF Moving, Queued, Ahead, Before
<1>7. Before(fixedWindow, speechBuf) /\ Before(fixedWindow, preRoll) /\ Before(speechBuf, preRoll)
  BY NoneBefore DEF Piped, Shape, IInv, Buffers
<1>8. Increasing(fixedWindow) /\ Increasing(speechBuf) /\ Increasing(preRoll) /\ Increasing(queue)
  BY DEF Moving, Ordered, Queued
<1>9. ASSUME NEW c, Sound(c), NEW d \in Three \union {h, queue, n}
      PROVE  Before(c, d)
  <2>1. \A i \in DOMAIN c : Passed(c[i]) /\ \A y \in Buffered : c[i] < y
    BY <1>9 DEF Sound, Frames
  <2> QED BY <1>2, <1>4, <2>1 DEF Before, Passed, Ahead
<1> HIDE DEF h, n
<1>10. Rest = <<fixedWindow, speechBuf, preRoll, h, queue, n>>
  BY DEF Rest, h, n
<1>11. /\ Rest \in Seq(Seq(Nat)) /\ DOMAIN Rest = 1..6
       /\ Rest[1] = fixedWindow /\ Rest[2] = speechBuf /\ Rest[3] = preRoll
       /\ Rest[4] = h /\ Rest[5] = queue /\ Rest[6] = n
  BY <1>1, <1>2, <1>10
<1>12. \A i, j \in 1..6 : i < j => Before(Rest[i], Rest[j])
  <2>1. \A i \in 1..6 : i = 1 \/ i = 2 \/ i = 3 \/ i = 4 \/ i = 5 \/ i = 6
    OBVIOUS
  <2>2. \A j \in 1..6 : /\ 1 < j => Before(Rest[1], Rest[j])
                        /\ 2 < j => Before(Rest[2], Rest[j])
                        /\ 3 < j => Before(Rest[3], Rest[j])
                        /\ 4 < j => Before(Rest[4], Rest[j])
                        /\ 5 < j => Before(Rest[5], Rest[j])
    BY <1>5, <1>6, <1>7, <1>11, <2>1
  <2> QED BY <2>1, <2>2
<1>13. Elements(Rest) \subseteq Three \union {h, queue, n}
  BY <1>11 DEF Elements
<1> QED BY <1>2, <1>8, <1>9, <1>11, <1>12, <1>13 DEF InTurn

(* Audio stays in order and no frame is used twice, from the audio thread to the  *)
(* server, whatever the two drop-oldest queues throw away.                        *)
THEOREM AudioStaysInOrder == PipeSpec => []InOrder
<1>1. Piped /\ Flowing => InOrder
  <2> SUFFICES ASSUME Piped, Flowing PROVE InOrder
    OBVIOUS
  <2>1. Pieces = Outbox \o Rest
    BY DEF Pieces, Rest
  <2>2. Outbox \in Seq(Seq(Nat)) /\ InTurn(Outbox) /\ \A c \in Elements(Outbox) : Sound(c)
    BY OutboxInTurn DEF Flowing
  <2>3. /\ Rest \in Seq(Seq(Nat)) /\ InTurn(Rest) /\ \A d \in Elements(Rest) : Increasing(d)
        /\ \A c : Sound(c) => \A d \in Elements(Rest) : Before(c, d)
    BY RestInTurn DEF Flowing
  <2>4. /\ Outbox \o Rest \in Seq(Seq(Nat)) /\ InTurn(Outbox \o Rest)
        /\ Elements(Outbox \o Rest) = Elements(Outbox) \union Elements(Rest)
    BY <2>2, <2>3, ConcatInTurn
  <2>5. \A c \in Elements(Pieces) : Increasing(c)
    BY <2>1, <2>2, <2>3, <2>4 DEF Sound
  <2>6. Pieces \in Seq(Seq(Nat)) /\ InTurn(Pieces)
    BY <2>1, <2>4
  <2>7. \A p \in DOMAIN Pieces : p \in Nat /\ Increasing(Pieces[p])
    BY <2>5, <2>6 DEF Elements
  <2> SUFFICES ASSUME NEW p \in DOMAIN Pieces, NEW q \in DOMAIN Pieces,
                      NEW i \in DOMAIN Pieces[p], NEW j \in DOMAIN Pieces[q], p < q \/ (p = q /\ i < j)
               PROVE  Pieces[p][i] < Pieces[q][j]
    BY DEF InOrder
  <2>8. CASE p < q
    BY <2>6, <2>8 DEF InTurn, Before
  <2>9. CASE p = q /\ i < j
    BY <2>7, <2>9 DEF Increasing
  <2> QED BY <2>8, <2>9
<1> QED BY <1>1, PipedStarts, PipedStep, FlowingStarts, FlowingStep, PTL DEF PipeSpec

(* No chunk spans a switch of VAD, for any number of switches.                    *)
THEOREM ModesAreNotMixed == PipeSpec => []NoMixedModes
<1>1. Piped /\ Flowing => NoMixedModes
  <2> SUFFICES ASSUME Piped, Flowing,
                      NEW i \in DOMAIN Outbox, NEW f \in Frames(Outbox[i]), NEW g \in Frames(Outbox[i]),
                      NEW m \in modes, <<f, m[2]>> \notin modes
               PROVE  ~(f <= m[1] /\ m[1] <= g)
    BY DEF NoMixedModes
  <2>1. Outbox[i] \in Outgoing
    BY OutboxInTurn DEF Elements
  <2>2. OneMode(Outbox[i])
    BY <2>1 DEF Flowing, Sound
  <2> QED BY <2>2 DEF OneMode
<1> QED BY <1>1, PipedStarts, PipedStep, FlowingStarts, FlowingStep, PTL DEF PipeSpec
-----------------------------------------------------------------------------
(* What is thrown away is the oldest.                                          *)

(* A segment with active frames does not end in silence alone.                 *)
HeardSome == inSpeech /\ activeFrameCount > 0 => silentFrames < Len(speechBuf)

(* A later chunk is still in the outbox.                                       *)
Later(c, d) == d # <<>> /\ Head(d) > Head(c)

Dropped ==
    /\ HeardSome
    /\ \A f \in lostFrames : f < captured
    /\ consumerPc \in {"enqueue", "drop", "add"} => pending # <<>>
    /\ <<>> \notin Elements(sendQueue)
    /\ \A c \in lostChunks : c # <<>> /\ \E d \in Outgoing : Later(c, d)

(* The detector returns no empty chunk: what is trimmed is less than there is.  *)
LEMMA HeardStep ==
    ASSUME IInv, HeardSome, NEW f \in Nat, NEW a \in BOOLEAN, NEW silence \in SilenceFrames,
           ProcessFrame(f, a, silence)
    PROVE  HeardSome' /\ (chunks' # chunks => chunks'[Len(chunks')].frames # <<>>)
<1> DEFINE s == Append(speechBuf, f)
<1>1. /\ speechBuf \in Seq(Nat) /\ Len(speechBuf) \in Nat /\ chunks \in Seq(Chunk)
      /\ silentFrames \in Nat /\ activeFrameCount \in Nat
      /\ s \in Seq(Nat) /\ Len(s) = Len(speechBuf) + 1
  BY DEF IInv, VadTypeOK
<1>2. ASSUME NEW c, chunks' = Append(chunks, c), c.frames # <<>>
      PROVE  chunks'[Len(chunks')].frames # <<>>
  BY <1>1, <1>2
<1>3. ASSUME inSpeech, ActiveWith(a) > 0
      PROVE  SilentWith(a) < Len(s)
  BY <1>1, <1>3 DEF HeardSome, ActiveWith, SilentWith
<1>4. CASE StayIdle(f, a)
  BY <1>4 DEF StayIdle, segment, HeardSome
<1>5. CASE OpenSegment(f, a)
  <2>1. Len(RolledWith(f)) \in 1..PreRollFrames
    BY Rolled DEF IInv, VadTypeOK, Buffers
  <2>2. silentFrames' = 0 /\ speechBuf' = RolledWith(f) /\ chunks' = chunks
    BY <1>5 DEF OpenSegment
  <2> QED BY <2>1, <2>2, ConstantTypes DEF HeardSome
<1>6. CASE Continue(f, a, silence)
  <2>1. /\ inSpeech /\ speechBuf' = s /\ activeFrameCount' = ActiveWith(a)
        /\ silentFrames' = SilentWith(a) /\ chunks' = chunks
    BY <1>6 DEF Continue
  <2> HIDE DEF s
  <2> QED BY <1>3, <2>1 DEF HeardSome
<1>7. CASE CloseSegment(f, a, silence)
  <2> DEFINE n == TrimFrames(a, silence)
             c == [frames |-> Trimmed(s, n), begun |-> begun, first |-> ~Flushed, last |-> TRUE]
  <2>1. HeardSome'
    BY <1>7 DEF CloseSegment, HeardSome
  <2>2. CASE TooLittle(a)
    BY <1>7, <2>1, <2>2 DEF CloseSegment
  <2>3. CASE ~TooLittle(a)
    <3>1. inSpeech /\ chunks' = Append(chunks, c)
      BY <1>7, <2>3 DEF CloseSegment
    <3>2. n \in Nat /\ n <= SilentWith(a) /\ SilentWith(a) \in Nat /\ ActiveWith(a) \in Nat
      BY CountersTyped DEF IInv
    <3>3. ActiveWith(a) > 0
      <4>1. ActiveWith(a) >= MinSpeechFrames
        BY <2>3, <3>2, VadAssumption DEF TooLittle
      <4> QED BY <3>2, <4>1, VadAssumption, QueueAssumption
    <3>4. n < Len(s)
      <4> HIDE DEF n, s
      <4> QED BY <1>1, <1>3, <3>1, <3>2, <3>3
    <3>5. Trimmed(s, n) \in Seq(Nat) /\ Len(s) - Len(Trimmed(s, n)) <= n
      BY <1>1, <3>2, TrimmedPrefix
    <3>6. Trimmed(s, n) # <<>>
      <4> HIDE DEF n, s
      <4>1. Len(Trimmed(s, n)) \in Nat /\ Len(Trimmed(s, n)) # 0
        BY <1>1, <3>2, <3>4, <3>5
      <4> QED BY <4>1
    <3>7. c.frames = Trimmed(s, n)
      OBVIOUS
    <3> HIDE DEF c, n, s
    <3>8. c.frames # <<>>
      BY ONLY <3>6, <3>7
    <3>9. chunks'[Len(chunks')].frames # <<>>
      BY ONLY <1>2, <3>1, <3>8
    <3> QED BY ONLY <2>1, <3>9
  <2> QED BY <2>2, <2>3
<1>8. CASE FlushSegment(f, a, silence)
  <2> DEFINE c == [frames |-> s, begun |-> begun, first |-> ~Flushed, last |-> FALSE]
  <2>1. chunks' = Append(chunks, c) /\ activeFrameCount' = 0
    BY <1>8 DEF FlushSegment
  <2>2. s # <<>>
    <3>1. Len(s) = Len(speechBuf) + 1 /\ Len(speechBuf) \in Nat
      BY <1>1
    <3> HIDE DEF c, s
    <3>2. Len(s) # 0
      BY ONLY <3>1
    <3> QED BY ONLY <3>2
  <2>3. c.frames = s
    OBVIOUS
  <2> HIDE DEF c, s
  <2>4. c.frames # <<>>
    BY ONLY <2>2, <2>3
  <2> QED BY <1>2, <2>1, <2>4 DEF HeardSome
<1> QED BY <1>4, <1>5, <1>6, <1>7, <1>8 DEF ProcessFrame

(* A frame is lost only while a later one is in the hands of the audio thread.  *)
LEMMA FramesDropped ==
    ASSUME Piped, Flowing, Dropped, [PipeNext]_pipeVars
    PROVE  \A f \in lostFrames' : f < captured'
<1>1. captured \in Nat /\ lostFrames \subseteq Nat /\ queue \in Seq(Nat)
  BY DEF Piped, PipeTypeOK
<1>2. \A f \in lostFrames : f < captured
  BY DEF Dropped
<1>3. CASE ProcessAdds
  <2>1. captured' = captured + 1 /\ lostFrames' = lostFrames
    BY <1>3 DEF ProcessAdds
  <2> QED BY <1>1, <1>2, <2>1
<1>4. CASE ProcessTakes
  <2>1. captured' = captured /\ audioPc = "take"
    BY <1>4 DEF ProcessTakes
  <2>2. CASE queue = <<>>
    BY <1>2, <1>4, <2>1, <2>2 DEF ProcessTakes
  <2>3. CASE queue # <<>>
    <3>1. lostFrames' = lostFrames \union {Head(queue)}
      BY <1>4, <2>3 DEF ProcessTakes
    <3>2. Head(queue) = queue[1] /\ 1 \in DOMAIN queue
      BY <1>1, <2>3, TailIs
    <3>3. Head(queue) < captured
      BY <2>1, <3>2 DEF Flowing, Moving, Queued
    <3> QED BY <1>2, <2>1, <3>1, <3>3
  <2> QED BY <2>2, <2>3
<1>5. CASE ProcessAddsAgain
  <2>1. captured' = captured /\ lostFrames' = lostFrames
    BY <1>5 DEF ProcessAddsAgain, Piped, Shape
  <2> QED BY <1>2, <2>1
<1>6. CASE UNCHANGED <<captured, lostFrames>>
  BY <1>2, <1>6
<1>7. CASE Consumer \/ Sender \/ ToggleVad
  BY <1>6, <1>7 DEF Consumer, ConsumerTakes, FixedWindow, Detect, EnqueueAdds, EnqueueTakes,
                    EnqueueAddsAgain, Sender, SenderTakes, SendEnds, SendLoopCrashes, ToggleVad, audio
<1>8. CASE UNCHANGED pipeVars
  BY <1>6, <1>8 DEF pipeVars, audio
<1> QED BY <1>3, <1>4, <1>5, <1>7, <1>8 DEF PipeNext, Audio

(* No empty chunk is on its way.                                                *)
LEMMA NoneIsEmpty ==
    ASSUME Piped, Flowing, Dropped, [PipeNext]_pipeVars
    PROVE  /\ HeardSome'
           /\ consumerPc' \in {"enqueue", "drop", "add"} => pending' # <<>>
           /\ <<>> \notin Elements(sendQueue')
<1>1. sent \in Seq(Seq(Nat)) /\ sending \in Seq(Nat) /\ sendQueue \in Seq(Seq(Nat)) /\ pending \in Seq(Nat)
  BY ChunksTypes
<1>2. /\ HeardSome /\ <<>> \notin Elements(sendQueue)
      /\ consumerPc \in {"enqueue", "drop", "add"} => pending # <<>>
  BY DEF Dropped
<1>3. ASSUME UNCHANGED vadVars PROVE HeardSome'
  BY <1>2, <1>3 DEF vadVars, segment, HeardSome
<1>4. ASSUME UNCHANGED sendQueue PROVE <<>> \notin Elements(sendQueue')
  BY <1>2, <1>4 DEF Elements
<1>5. ASSUME sendQueue # <<>>, sendQueue' = Tail(sendQueue) PROVE <<>> \notin Elements(sendQueue')
  <2>1. Elements(sendQueue') \subseteq Elements(sendQueue)
    BY <1>1, <1>5, TailInTurn DEF Flowing, Lined
  <2> QED BY <1>2, <2>1
<1>6. ASSUME pending # <<>>, sendQueue' = Append(sendQueue, pending)
      PROVE  <<>> \notin Elements(sendQueue')
  <2>1. Elements(sendQueue') = Elements(sendQueue) \union {pending}
    BY <1>1, <1>6, AppendInTurn DEF Flowing, Lined
  <2> QED BY <1>2, <1>6, <2>1
<1>7. CASE Audio \/ ToggleVad
  <2>1. UNCHANGED <<vadVars, consumer, sender>>
    BY <1>7 DEF Audio, ProcessAdds, ProcessTakes, ProcessAddsAgain, ToggleVad
  <2> QED BY <1>2, <1>3, <1>4, <2>1 DEF consumer, sender
<1>8. CASE FixedWindow
  <2>1. UNCHANGED <<vadVars, sendQueue>>
    BY <1>8 DEF FixedWindow, sender
  <2>2. consumerPc' = "take" \/ pending' = Append(fixedWindow, raw)
    BY <1>8 DEF FixedWindow
  <2>3. Append(fixedWindow, raw) # <<>>
    <3>1. fixedWindow \in Seq(Nat) /\ raw \in Nat
      BY DEF Piped, PipeTypeOK
    <3>2. Len(Append(fixedWindow, raw)) = Len(fixedWindow) + 1 /\ Len(fixedWindow) \in Nat
      BY ONLY <3>1
    <3> QED BY <3>2
  <2> QED BY <1>3, <1>4, <2>1, <2>2, <2>3
<1>9. CASE Detect
  <2>1. PICK a \in BOOLEAN, silence \in SilenceFrames : ProcessFrame(raw, a, silence)
    BY <1>9 DEF Detect
  <2>2. raw \in Nat /\ IInv /\ sendQueue' = sendQueue
    BY <1>9 DEF Detect, Piped, PipeTypeOK, sender
  <2>3. HeardSome' /\ (chunks' # chunks => chunks'[Len(chunks')].frames # <<>>)
    BY <1>2, <2>1, <2>2, HeardStep
  <2>4. consumerPc' = "take" \/ (chunks' # chunks /\ pending' = chunks'[Len(chunks')].frames)
    BY <1>9 DEF Detect
  <2> QED BY <1>4, <2>2, <2>3, <2>4
<1>10. CASE ConsumerTakes
  <2>1. consumerPc' = "frame" /\ sendQueue' = sendQueue
    BY <1>10 DEF ConsumerTakes, sender
  <2>2. HeardSome'
    <3>1. CASE Switched
      BY <1>10, <3>1 DEF ConsumerTakes, VadReset, HeardSome
    <3>2. CASE ~Switched
      BY <1>3, <1>10, <3>2 DEF ConsumerTakes
    <3> QED BY <3>1, <3>2
  <2> QED BY <1>4, <2>1, <2>2
<1>11. CASE EnqueueAdds
  <2>1. /\ UNCHANGED vadVars /\ pending # <<>>
        /\ \/ sendQueue' = Append(sendQueue, pending) /\ consumerPc' = "take"
           \/ UNCHANGED <<sendQueue, pending>>
    BY <1>2, <1>11 DEF EnqueueAdds
  <2> QED BY <1>3, <1>4, <1>6, <2>1
<1>12. CASE EnqueueTakes
  <2>1. /\ UNCHANGED vadVars /\ pending # <<>> /\ pending' = pending
        /\ UNCHANGED sendQueue \/ (sendQueue # <<>> /\ sendQueue' = Tail(sendQueue))
    BY <1>2, <1>12 DEF EnqueueTakes
  <2> QED BY <1>3, <1>4, <1>5, <2>1
<1>13. CASE EnqueueAddsAgain
  <2>1. /\ UNCHANGED vadVars /\ pending # <<>> /\ consumerPc' = "take"
        /\ sendQueue' = Append(sendQueue, pending)
    BY <1>2, <1>13 DEF EnqueueAddsAgain, Piped, Shape
  <2> QED BY <1>3, <1>6, <2>1
<1>14. CASE Sender
  <2>1. /\ UNCHANGED <<vadVars, consumerPc, pending>>
        /\ UNCHANGED sendQueue \/ (sendQueue # <<>> /\ sendQueue' = Tail(sendQueue))
    BY <1>14 DEF Sender, SenderTakes, SendEnds, SendLoopCrashes, consumer
  <2> QED BY <1>2, <1>3, <1>4, <1>5, <2>1
<1>15. CASE UNCHANGED pipeVars
  BY <1>2, <1>3, <1>4, <1>15 DEF pipeVars, consumer, sender
<1> QED BY <1>7, <1>8, <1>9, <1>10, <1>11, <1>12, <1>13, <1>14, <1>15 DEF PipeNext, Consumer

(* A chunk that is not empty and comes before another begins before it.         *)
LEMMA BeforeIsEarlier ==
    ASSUME NEW c \in Seq(Nat), NEW d \in Seq(Nat), c # <<>>, d # <<>>, Before(c, d)
    PROVE  Later(c, d) /\ Head(c) \in Nat /\ Head(d) \in Nat
<1>1. /\ Head(c) = c[1] /\ 1 \in DOMAIN c /\ Head(c) \in Nat
      /\ Head(d) = d[1] /\ 1 \in DOMAIN d /\ Head(d) \in Nat
  BY TailIs
<1>2. Head(c) < Head(d)
  BY <1>1 DEF Before
<1> QED BY <1>1, <1>2 DEF Later

LEMMA HeadOrTail ==
    ASSUME NEW s \in Seq(Seq(Nat)), s # <<>>
    PROVE  \A d \in Elements(s) : d = Head(s) \/ d \in Elements(Tail(s))
<1> SUFFICES ASSUME NEW i \in DOMAIN s PROVE s[i] = Head(s) \/ s[i] \in Elements(Tail(s))
  BY DEF Elements
<1>1. i = 1 \/ (i - 1 \in DOMAIN Tail(s) /\ Tail(s)[i - 1] = s[i])
  OBVIOUS
<1>2. Head(s) = s[1]
  OBVIOUS
<1> QED BY <1>1, <1>2 DEF Elements

LEMMA ChunksDropped ==
    ASSUME Piped, Flowing, Dropped, [PipeNext]_pipeVars
    PROVE  \A c \in lostChunks' : c # <<>> /\ \E d \in Outgoing' : Later(c, d)
<1>1. sent \in Seq(Seq(Nat)) /\ sending \in Seq(Nat) /\ sendQueue \in Seq(Seq(Nat)) /\ pending \in Seq(Nat)
  BY ChunksTypes
<1>2. /\ lostChunks \subseteq Seq(Nat)
      /\ \A c \in lostChunks : c # <<>> /\ \E d \in Outgoing : Later(c, d)
  BY DEF Dropped, Piped, PipeTypeOK
<1>3. ASSUME lostChunks' = lostChunks, \A d \in Outgoing : d # <<>> => d \in Outgoing'
      PROVE  \A c \in lostChunks' : c # <<>> /\ \E d \in Outgoing' : Later(c, d)
  <2> SUFFICES ASSUME NEW c \in lostChunks PROVE c # <<>> /\ \E d \in Outgoing' : Later(c, d)
    BY <1>3
  <2>1. PICK d \in Outgoing : Later(c, d)
    BY <1>2
  <2>2. d \in Outgoing'
    BY <1>3, <2>1 DEF Later
  <2> QED BY <1>2, <2>1, <2>2
<1>4. CASE EnqueueTakes /\ sendQueue # <<>>
  <2>1. /\ sendQueue' = Tail(sendQueue) /\ lostChunks' = lostChunks \union {Head(sendQueue)}
        /\ UNCHANGED <<sent, sending, pending>> /\ consumerPc = "drop"
    BY <1>4 DEF EnqueueTakes
  <2>2. pending # <<>> /\ <<>> \notin Elements(sendQueue)
    BY <2>1 DEF Dropped
  <2>3. PICK h \in Seq(Nat) : h = Head(sendQueue) /\ h \in Elements(sendQueue)
    BY <1>1, <1>4, TailInTurn, TailIs DEF Flowing, Lined
  <2>4. Later(h, pending) /\ h # <<>> /\ Head(h) \in Nat /\ Head(pending) \in Nat
    BY <1>1, <2>2, <2>3, BeforeIsEarlier DEF Flowing, Lined
  <2>5. \A d \in Elements(sendQueue) : d = h \/ d \in Elements(sendQueue')
    BY <1>1, <1>4, <2>1, <2>3, HeadOrTail
  <2>6. pending \in Outgoing' /\ \A d \in Outgoing : d = h \/ d \in Outgoing'
    BY <2>1, <2>5 DEF Outgoing
  <2>7. ASSUME NEW c \in lostChunks PROVE c # <<>> /\ \E d \in Outgoing' : Later(c, d)
    <3>1. PICK d \in Outgoing : Later(c, d)
      BY <1>2
    <3>2. CASE d = h
      <4>1. c \in Seq(Nat) /\ c # <<>>
        BY <1>2
      <4>2. Head(c) \in Nat
        BY <4>1
      <4>3. Later(c, pending)
        BY <2>4, <3>1, <3>2, <4>2 DEF Later
      <4> QED BY <2>6, <4>1, <4>3
    <3>3. CASE d \in Outgoing'
      BY <1>2, <3>1, <3>3
    <3> QED BY <2>6, <3>1, <3>2, <3>3
  <2> QED BY <2>1, <2>3, <2>4, <2>6, <2>7
<1>5. CASE UNCHANGED Places /\ lostChunks' = lostChunks
  BY <1>3, <1>5 DEF Places, Outgoing
<1>6. CASE EnqueueTakes /\ sendQueue = <<>>
  BY <1>5, <1>6 DEF EnqueueTakes, Places
<1>7. CASE FixedWindow \/ Detect
  <2>1. UNCHANGED <<sent, sending, sendQueue, lostChunks>> /\ pending = <<>>
    BY <1>7, Feeds DEF Flowing, FixedWindow, Detect, sender
  <2> QED BY <1>3, <2>1 DEF Outgoing
<1>8. ASSUME sendQueue' = Append(sendQueue, pending), UNCHANGED <<sent, sending, lostChunks>>
      PROVE  \A c \in lostChunks' : c # <<>> /\ \E d \in Outgoing' : Later(c, d)
  <2>1. Elements(sendQueue') = Elements(sendQueue) \union {pending}
    BY <1>1, <1>8, AppendInTurn DEF Flowing, Lined
  <2> QED BY <1>3, <1>8, <2>1 DEF Outgoing
<1>9. CASE EnqueueAdds
  <2>1. \/ sendQueue' = Append(sendQueue, pending) /\ UNCHANGED <<sent, sending, lostChunks>>
        \/ UNCHANGED Places /\ lostChunks' = lostChunks
    BY <1>9 DEF EnqueueAdds, Places
  <2> QED BY <1>5, <1>8, <2>1
<1>10. CASE EnqueueAddsAgain
  BY <1>8, <1>10 DEF EnqueueAddsAgain, Piped, Shape
<1>11. CASE SenderTakes
  <2>1. /\ sendQueue # <<>> /\ sendQueue' = Tail(sendQueue) /\ sending = <<>>
        /\ sending' = Head(sendQueue) /\ UNCHANGED <<sent, pending, lostChunks>>
    BY <1>11 DEF SenderTakes, consumer
  <2>2. \A d \in Elements(sendQueue) : d = Head(sendQueue) \/ d \in Elements(sendQueue')
    BY <1>1, <2>1, HeadOrTail
  <2> QED BY <1>3, <2>1, <2>2 DEF Outgoing
<1>12. CASE SendEnds
  <2>1. sent' = Append(sent, sending) /\ UNCHANGED <<sendQueue, pending, lostChunks>>
    BY <1>12 DEF SendEnds, consumer
  <2>2. Elements(sent') = Elements(sent) \union {sending}
    BY <1>1, <2>1, AppendInTurn DEF Flowing, Lined
  <2> QED BY <1>3, <2>1, <2>2 DEF Outgoing
<1>13. CASE Audio \/ SendLoopCrashes \/ ToggleVad \/ ConsumerTakes
  BY <1>5, <1>13 DEF Audio, ProcessAdds, ProcessTakes, ProcessAddsAgain, SendLoopCrashes, ToggleVad,
                     ConsumerTakes, consumer, sender, Places
<1>14. CASE UNCHANGED pipeVars
  BY <1>5, <1>14 DEF pipeVars, consumer, sender, Places
<1> QED BY <1>4, <1>6, <1>7, <1>9, <1>10, <1>11, <1>12, <1>13, <1>14 DEF PipeNext, Consumer, Sender

(* A server that is too slow costs the oldest audio: whatever is thrown out of the  *)
(* two queues, a later frame and a later chunk were kept.                         *)
THEOREM TheOldestIsDropped == PipeSpec => []DropsOldest
<1>1. PipeInit => Dropped
  BY DEF PipeInit, VadInit, Dropped, HeardSome, Elements
<1>2. Piped /\ Flowing /\ Dropped /\ [PipeNext]_pipeVars => Dropped'
  <2> SUFFICES ASSUME Piped, Flowing, Dropped, [PipeNext]_pipeVars PROVE Dropped'
    OBVIOUS
  <2> QED BY FramesDropped, NoneIsEmpty, ChunksDropped DEF Dropped, Elements
<1>3. Piped /\ Flowing /\ Dropped => DropsOldest
  <2> SUFFICES ASSUME Piped, Flowing, Dropped PROVE DropsOldest
    OBVIOUS
  <2>1. captured \notin lostFrames
    BY DEF Dropped, Piped, PipeTypeOK
  <2>2. \A c \in lostChunks : \E i \in DOMAIN Outbox : Outbox[i] # <<>> /\ Head(Outbox[i]) > Head(c)
    BY OutboxInTurn DEF Dropped, Elements, Later
  <2> QED BY <2>1, <2>2 DEF DropsOldest
<1> QED BY <1>1, <1>2, <1>3, PipedStarts, PipedStep, FlowingStarts, FlowingStep, PTL DEF PipeSpec
-----------------------------------------------------------------------------
(* The detector in the pipeline: frames it never gets, and switches in between.   *)

Kept == SilentTail /\ SpeechKept

LEMMA KeptOnItsWay ==
    ASSUME Piped, Moving, Kept, [PipeNext]_pipeVars
    PROVE  Kept'
<1>1. IInv /\ Ordered /\ raw \in Nat /\ frame \in Nat
  BY DEF Piped, Moving, PipeTypeOK, IInv, VadTypeOK
<1>2. CASE Detect
  <2>1. PICK a \in BOOLEAN, silence \in SilenceFrames : ProcessFrame(raw, a, silence)
    BY <1>2 DEF Detect
  <2>2. frame < raw
    BY <1>2 DEF Detect, Piped, Shape, Moving, Passed
  <2> QED BY <1>1, <2>1, <2>2, TailStep, KeptStep DEF Kept
<1>3. CASE UNCHANGED vadVars
  BY <1>3 DEF vadVars, segment, vadHist, Kept, SilentTail, SpeechKept, Frames
<1>4. CASE VadReset
  <2>1. /\ silentFrames' = 0 /\ speechBuf' = <<>> /\ spoken' = spoken \ Frames(speechBuf)
        /\ UNCHANGED <<frame, active, chunks, rejected>>
    BY <1>4 DEF VadReset
  <2>2. SilentTail'
    BY <2>1 DEF Kept, SilentTail
  <2>3. SpeechKept'
    BY <2>1 DEF Kept, SpeechKept
  <2> QED BY <2>2, <2>3 DEF Kept
<1>5. CASE ConsumerTakes
  BY <1>3, <1>4, <1>5 DEF ConsumerTakes
<1>6. CASE \/ Audio \/ FixedWindow \/ EnqueueAdds \/ EnqueueTakes \/ EnqueueAddsAgain
           \/ Sender \/ ToggleVad \/ UNCHANGED pipeVars
  BY <1>3, <1>6 DEF Audio, ProcessAdds, ProcessTakes, ProcessAddsAgain, FixedWindow, EnqueueAdds,
                    EnqueueTakes, EnqueueAddsAgain, Sender, SenderTakes, SendEnds, SendLoopCrashes, ToggleVad, pipeVars
<1> QED BY <1>2, <1>5, <1>6 DEF PipeNext, Consumer

(* Frames dropped on the way to the detector cost it no speech that it heard, and     *)
(* a switch of VAD only what it had not sent.                                        *)
THEOREM NoHeardSpeechIsLost == PipeSpec => []SpeechKept
<1>1. PipeInit => Kept
  BY DEF PipeInit, VadInit, Kept, SilentTail, SpeechKept
<1>2. Piped /\ Flowing /\ Kept /\ [PipeNext]_pipeVars => Kept'
  BY KeptOnItsWay DEF Flowing
<1>3. Kept => SpeechKept
  BY DEF Kept
<1> QED BY <1>1, <1>2, <1>3, PipedStarts, PipedStep, FlowingStarts, FlowingStep, PTL DEF PipeSpec
===============================================================================
