----------------------------------- MODULE Vad -----------------------------------
(***************************************************************************)
(* Dsp/VoiceActivityDetector.cs: the detector that cuts the frames of the    *)
(* audio stream into chunks of speech.                                       *)
(*                                                                          *)
(* A frame is its number in the stream.  Whether it counts as active (SDR#'s *)
(* squelch, or its level against the noise floor: a threshold to open and a  *)
(* lower one to stay open) is chosen freely for every frame, so the levels    *)
(* and the noise floor themselves are left out.  Durations are in frames of  *)
(* FrameMs; SilenceMs may be changed from the panel before any frame.        *)
(***************************************************************************)
EXTENDS Integers, Sequences, FiniteSets

CONSTANTS OnsetConfirmFrames,   \* active frames, of the last OnsetWindowFrames,
          OnsetWindowFrames,    \*   that open a segment
          PreRollFrames,        \* frames kept from before the onset
          SilenceFrames,        \* the values of SilenceMs: silence that closes it
          TrailingKeepFrames,   \* silence left at the end of a chunk
          MaxSpeechFrames,      \* frames after which a segment is flushed
          MinSpeechFrames,      \* active frames a chunk needs
          MinActivePercent,     \* and their share of its frames
          MaxFrames             \* bound: frames of a behaviour

ASSUME VadAssumption ==
    /\ OnsetWindowFrames \in Nat \ {0}
    /\ OnsetConfirmFrames \in 1..OnsetWindowFrames
    /\ PreRollFrames \in Nat /\ PreRollFrames >= OnsetWindowFrames
    /\ SilenceFrames \subseteq Nat \ {0}
    /\ TrailingKeepFrames \in Nat
    /\ MaxSpeechFrames \in Nat /\ MaxSpeechFrames > PreRollFrames
    /\ MinSpeechFrames \in Nat
    /\ MinActivePercent \in 0..100
    /\ MaxFrames \in Nat

VARIABLES
    preRoll,            \* _preRoll
    onsetWindow,        \* _onsetWindow, a circle of verdicts
    onsetWindowPos,     \* _onsetWindowPos
    onsetActiveCount,   \* _onsetActiveCount
    inSpeech,           \* _inSpeech
    silentFrames,       \* _silentFrames
    activeFrameCount,   \* _activeFrameCount
    totalFrameCount,    \* _totalFrameCount
    speechBuf,          \* _speechBuf
    frame,              \* history: the last frame processed
    active,             \* history: the frames that counted as active
    spoken,             \* history: those that got into a speech buffer
    begun,              \* history: the first frame after the onset of the segment
    chunks,             \* history: the chunks returned, with how they came about
    rejected            \* history: the segments FinalizeChunk returned null for

onset   == <<preRoll, onsetWindow, onsetWindowPos, onsetActiveCount>>
segment == <<inSpeech, silentFrames, activeFrameCount, totalFrameCount, speechBuf>>
vadHist == <<frame, active, spoken, begun, chunks, rejected>>
vadVars == <<onset, segment, vadHist>>

AtMost(a, b) == IF a <= b THEN a ELSE b
Excess(a, b) == IF a > b THEN a - b ELSE 0

ClosedWindow == [i \in 0..(OnsetWindowFrames - 1) |-> FALSE]

Frames(s) == {s[i] : i \in DOMAIN s}

VadInit ==
    /\ preRoll = <<>> /\ onsetWindow = ClosedWindow /\ onsetWindowPos = 0
    /\ onsetActiveCount = 0
    /\ inSpeech = FALSE /\ silentFrames = 0 /\ activeFrameCount = 0 /\ totalFrameCount = 0
    /\ speechBuf = <<>>
    /\ frame = 0 /\ active = {} /\ spoken = {} /\ begun = 0 /\ chunks = <<>> /\ rejected = {}

(* PushPreRoll: the queue with f at its end, cut to its capacity.             *)
RolledWith(f) ==
    LET s == Append(preRoll, f) IN SubSeq(s, Excess(Len(s), PreRollFrames) + 1, Len(s))

NextPos == (onsetWindowPos + 1) % OnsetWindowFrames

(* PushOnsetWindow, its count.                                                *)
CountWith(a) ==
    onsetActiveCount - (IF onsetWindow[onsetWindowPos] THEN 1 ELSE 0) + (IF a THEN 1 ELSE 0)

(* ProcessIdleFrame without an onset ...                                      *)
StayIdle(f, a) ==
    /\ ~inSpeech
    /\ CountWith(a) < OnsetConfirmFrames
    /\ onsetWindow' = [onsetWindow EXCEPT ![onsetWindowPos] = a]
    /\ onsetWindowPos' = NextPos
    /\ onsetActiveCount' = CountWith(a)
    /\ preRoll' = RolledWith(f)
    /\ UNCHANGED <<segment, begun, chunks, rejected>>

(* ... and with one: the pre-roll becomes the start of the speech buffer.     *)
OpenSegment(f, a) ==
    /\ ~inSpeech
    /\ CountWith(a) >= OnsetConfirmFrames
    /\ inSpeech' = TRUE
    /\ silentFrames' = 0
    /\ speechBuf' = RolledWith(f)
    /\ totalFrameCount' = Len(RolledWith(f))
    /\ activeFrameCount' = CountWith(a)
    /\ preRoll' = <<>>
    /\ onsetWindow' = ClosedWindow /\ onsetWindowPos' = 0 /\ onsetActiveCount' = 0
    /\ begun' = f
    /\ UNCHANGED <<chunks, rejected>>

(* The counters of ProcessSpeechFrame once the frame is in the buffer.        *)
SilentWith(a)  == IF a THEN 0 ELSE silentFrames + 1
ActiveWith(a)  == activeFrameCount + (IF a THEN 1 ELSE 0)

EndOfSpeech(a, silence) == SilentWith(a) >= silence

TooLong == Len(speechBuf) + 1 >= MaxSpeechFrames

(* Mutant of TrimFrames: what is kept is not subtracted, but added.           *)
TrimTooMuch(a, silence) == AtMost(SilentWith(a), silence) + TrailingKeepFrames

(* FinalizeChunk: the frames of the hangover that are not sent.               *)
TrimFrames(a, silence) == Excess(AtMost(SilentWith(a), silence), TrailingKeepFrames)

Trimmed(s, n) == SubSeq(s, 1, Len(s) - AtMost(n, Len(s)))

(* Not enough speech, or too thinly spread.                                   *)
TooLittle(a) ==
    \/ ActiveWith(a) < MinSpeechFrames
    \/ ActiveWith(a) * 100 < MinActivePercent * (totalFrameCount + 1)

(* History: a chunk of this segment is already out.                           *)
Flushed == chunks # <<>> /\ chunks[Len(chunks)].begun = begun /\ ~chunks[Len(chunks)].last

Continue(f, a, silence) ==
    /\ inSpeech
    /\ ~EndOfSpeech(a, silence) /\ ~TooLong
    /\ speechBuf' = Append(speechBuf, f)
    /\ totalFrameCount' = totalFrameCount + 1
    /\ activeFrameCount' = ActiveWith(a)
    /\ silentFrames' = SilentWith(a)
    /\ UNCHANGED <<onset, inSpeech, begun, chunks, rejected>>

(* The hangover is over: the segment is sent or rejected, and closed.         *)
CloseSegment(f, a, silence) ==
    /\ inSpeech
    /\ EndOfSpeech(a, silence)
    /\ IF TooLittle(a)
       THEN /\ rejected' = rejected \union {[frames |-> Append(speechBuf, f), begun |-> begun,
                                             first |-> ~Flushed]}
            /\ UNCHANGED chunks
       ELSE /\ chunks' = Append(chunks,
                    [frames |-> Trimmed(Append(speechBuf, f), TrimFrames(a, silence)),
                     begun |-> begun, first |-> ~Flushed, last |-> TRUE])
            /\ UNCHANGED rejected
    /\ inSpeech' = FALSE
    /\ silentFrames' = 0
    /\ speechBuf' = <<>>
    /\ activeFrameCount' = ActiveWith(a)
    /\ totalFrameCount' = totalFrameCount + 1
    /\ UNCHANGED <<onset, begun>>

(* Mutant of AfterFlush: the flush keeps the last frame for the next chunk.   *)
KeptByFlush(f) == <<f>>

(* What a flush leaves of the buffer.                                         *)
AfterFlush(f) == <<>>

(* A long transmission: what there is is sent and the segment stays open.     *)
FlushSegment(f, a, silence) ==
    /\ inSpeech
    /\ ~EndOfSpeech(a, silence) /\ TooLong
    /\ chunks' = Append(chunks, [frames |-> Append(speechBuf, f), begun |-> begun,
                                 first |-> ~Flushed, last |-> FALSE])
    /\ speechBuf' = AfterFlush(f)
    /\ silentFrames' = 0 /\ activeFrameCount' = 0 /\ totalFrameCount' = 0
    /\ UNCHANGED <<onset, inSpeech, begun, rejected>>

(* ProcessFrame.                                                              *)
ProcessFrame(f, a, silence) ==
    /\ \/ StayIdle(f, a) \/ OpenSegment(f, a)
       \/ Continue(f, a, silence) \/ CloseSegment(f, a, silence) \/ FlushSegment(f, a, silence)
    /\ frame' = f
    /\ active' = IF a THEN active \union {f} ELSE active
    /\ spoken' = IF inSpeech \/ inSpeech'
                 THEN spoken \union (active' \intersect ({f} \union Frames(speechBuf')))
                 ELSE spoken

(* Reset, without the noise floor; the speech it throws away is not spoken.    *)
VadReset ==
    /\ preRoll' = <<>> /\ onsetWindow' = ClosedWindow /\ onsetWindowPos' = 0
    /\ onsetActiveCount' = 0
    /\ inSpeech' = FALSE /\ silentFrames' = 0 /\ activeFrameCount' = 0 /\ totalFrameCount' = 0
    /\ speechBuf' = <<>>
    /\ spoken' = spoken \ Frames(speechBuf)
    /\ UNCHANGED <<frame, active, begun, chunks, rejected>>

VadNext ==
    /\ frame < MaxFrames
    /\ \E a \in BOOLEAN, silence \in SilenceFrames : ProcessFrame(frame + 1, a, silence)

VadSpec == VadInit /\ [][VadNext]_vadVars
-----------------------------------------------------------------------------
Chunk   == [frames : Seq(Nat), begun : Nat, first : BOOLEAN, last : BOOLEAN]
Segment == [frames : Seq(Nat), begun : Nat, first : BOOLEAN]

(* Every variable has its type.                                               *)
VadTypeOK ==
    /\ preRoll \in Seq(Nat) /\ speechBuf \in Seq(Nat)
    /\ onsetWindow \in [0..(OnsetWindowFrames - 1) -> BOOLEAN]
    /\ onsetWindowPos \in 0..(OnsetWindowFrames - 1)
    /\ onsetActiveCount \in 0..OnsetWindowFrames
    /\ inSpeech \in BOOLEAN
    /\ silentFrames \in Nat /\ activeFrameCount \in Nat /\ totalFrameCount \in Nat
    /\ frame \in Nat /\ active \subseteq Nat /\ spoken \subseteq Nat /\ begun \in Nat
    /\ chunks \in Seq(Chunk) /\ rejected \subseteq Segment

(* A segment opens on OnsetConfirmFrames active frames among the last          *)
(* OnsetWindowFrames, and all of them are sent with it: one click of the       *)
(* squelch never makes a chunk, and the pre-roll never cuts the onset off.     *)
OpensOnSpeech ==
    \A i \in DOMAIN chunks : chunks[i].first =>
        Cardinality({d \in active \intersect Frames(chunks[i].frames) :
                        d <= chunks[i].begun /\ d > chunks[i].begun - OnsetWindowFrames})
            >= OnsetConfirmFrames

(* The frames of the chunks sent are in the order they were heard and none is  *)
(* sent twice, across onsets, flushes and rejected segments.                   *)
SentInOrder ==
    \A i, j \in DOMAIN chunks : i <= j =>
        \A k \in DOMAIN chunks[i].frames, l \in DOMAIN chunks[j].frames :
            i < j \/ k < l => chunks[i].frames[k] < chunks[j].frames[l]

(* No active frame of an open segment gets lost: neither the trimming of the   *)
(* hangover nor a flush in the middle of the speech cuts one off, whatever     *)
(* SilenceMs is changed to meanwhile.                                          *)
SpeechKept ==
    spoken \subseteq Frames(speechBuf)
                \union (UNION {Frames(chunks[i].frames) : i \in DOMAIN chunks})
                \union (UNION {Frames(r.frames) : r \in rejected})

(* The buffer never holds MaxSpeechFrames after a frame: nobody waits longer   *)
(* than that for the text of a transmission that does not end.                 *)
BufferBounded == Len(speechBuf) < MaxSpeechFrames

(* VoiceActivityDetector.cs:203, what FinalizeChunk rejects is a "squelch      *)
(* click / noise burst, not real speech": never the speech that ends a         *)
(* transmission of which the first part has been sent.                         *)
RejectsOnlyNoise ==
    \A r \in rejected : ~r.first => active \intersect Frames(r.frames) = {}
===============================================================================
