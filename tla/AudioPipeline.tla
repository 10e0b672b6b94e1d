------------------------------ MODULE AudioPipeline ------------------------------
(***************************************************************************)
(* AudioProcessor.cs: SDR#'s real-time audio thread puts frames into a       *)
(* bounded queue, the consumer thread feeds them to the detector (Vad.tla)   *)
(* or, with VAD off, into fixed windows, and puts the chunks into a second   *)
(* bounded queue, from which the send loop posts them one at a time.  Both   *)
(* queues drop their oldest element when full, in three steps between which  *)
(* the thread on the other side may run.                                     *)
(*                                                                          *)
(* A buffer of SDR#'s is one frame of the detector here, and the sample rate *)
(* does not change.  Dispose is left out.                                    *)
(***************************************************************************)
EXTENDS Vad

CONSTANTS QueueCapacity,       \* _queue
          SendQueueCapacity,   \* _sendQueue
          FixedWindowFrames,   \* the five seconds of a chunk with VAD off
          MaxToggles           \* bound: changes of VadLevel from or to 0

ASSUME QueueAssumption ==
    /\ QueueCapacity \in Nat \ {0} /\ SendQueueCapacity \in Nat \ {0}
    /\ FixedWindowFrames \in Nat \ {0}
    /\ MinSpeechFrames > 0          \* a chunk is never empty
    /\ MaxToggles \in Nat

VARIABLES
    vadOn,           \* _vadLevel # 0
    toggles,         \* bound
    captured,        \* history: frames Process was called with
    queue,           \* _queue
    audioPc,         \* where Process is: "idle", "take", "add"
    droppedFrames,   \* _droppedFrames
    consumerPc,      \* "take", "frame", "enqueue", "drop", "add"
    lastVadOn,       \* lastVadLevel # 0
    raw,             \* the frame in the consumer's hands
    fixedWindow,     \* fixedWindowBuf
    pending,         \* the chunk EnqueueForSend is called with
    sendQueue,       \* _sendQueue
    droppedChunks,   \* _droppedChunks
    sending,         \* what the send loop is posting, <<>> when it waits
    crashed,         \* the send loop has ended, "send loop crashed"
    sent,            \* history: the chunks the send loop is done with
    lostFrames,      \* history: frames taken out of the queue and thrown away
    lostChunks,      \* history: chunks taken out of the send queue and thrown away
    modes            \* history: the frames consumed, and whether VAD was on

audio    == <<captured, queue, audioPc, droppedFrames, lostFrames>>
consumer == <<consumerPc, lastVadOn, raw, fixedWindow, pending, modes>>
sender   == <<sendQueue, droppedChunks, sending, crashed, sent, lostChunks>>
pipeVars == <<vadVars, vadOn, toggles, audio, consumer, sender>>

PipeInit ==
    /\ VadInit
    /\ vadOn \in BOOLEAN /\ toggles = 0
    /\ captured = 0 /\ queue = <<>> /\ audioPc = "idle" /\ droppedFrames = 0
    /\ consumerPc = "take" /\ lastVadOn = vadOn /\ raw = 0 /\ fixedWindow = <<>>
    /\ pending = <<>>
    /\ sendQueue = <<>> /\ droppedChunks = 0 /\ sending = <<>> /\ crashed = FALSE /\ sent = <<>>
    /\ lostFrames = {} /\ lostChunks = {} /\ modes = {}

-----------------------------------------------------------------------------
(* Process, on the audio thread.                                              *)

(* _queue.TryAdd of a new frame.                                              *)
ProcessAdds ==
    /\ audioPc = "idle"
    /\ captured < MaxFrames
    /\ captured' = captured + 1
    /\ IF Len(queue) < QueueCapacity
       THEN queue' = Append(queue, captured + 1) /\ UNCHANGED audioPc
       ELSE audioPc' = "take" /\ UNCHANGED queue
    /\ UNCHANGED <<vadVars, vadOn, toggles, droppedFrames, lostFrames, consumer, sender>>

(* Mutant of ProcessTakes: everything is taken out to make room.               *)
ProcessEmpties ==
    /\ audioPc = "take"
    /\ queue' = <<>>
    /\ lostFrames' = lostFrames \union Frames(queue)
    /\ audioPc' = "add"
    /\ UNCHANGED <<vadVars, vadOn, toggles, captured, droppedFrames, consumer, sender>>

(* The queue was full: TryTake of the oldest, which the consumer may have      *)
(* taken by now.                                                              *)
ProcessTakes ==
    /\ audioPc = "take"
    /\ queue' = IF queue = <<>> THEN queue ELSE Tail(queue)
    /\ lostFrames' = IF queue = <<>> THEN lostFrames ELSE lostFrames \union {Head(queue)}
    /\ audioPc' = "add"
    /\ UNCHANGED <<vadVars, vadOn, toggles, captured, droppedFrames, consumer, sender>>

(* The second TryAdd, and _droppedFrames++.                                    *)
ProcessAddsAgain ==
    /\ audioPc = "add"
    /\ IF Len(queue) < QueueCapacity
       THEN queue' = Append(queue, captured) /\ UNCHANGED lostFrames
       ELSE lostFrames' = lostFrames \union {captured} /\ UNCHANGED queue
    /\ droppedFrames' = droppedFrames + 1
    /\ audioPc' = "idle"
    /\ UNCHANGED <<vadVars, vadOn, toggles, captured, consumer, sender>>

-----------------------------------------------------------------------------
(* ConsumeAsync.                                                              *)

(* Mutant of Switched: the switch goes unnoticed.                              *)
NeverSwitched == FALSE

(* VAD was switched on or off since the last frame.                           *)
Switched == vadOn # lastVadOn

(* Mutant of ConsumerTakes: the frame is read and not taken.                   *)
ConsumerPeeks ==
    /\ consumerPc = "take"
    /\ queue # <<>>
    /\ raw' = Head(queue)
    /\ lastVadOn' = vadOn
    /\ consumerPc' = "frame"
    /\ modes' = modes \union {<<Head(queue), vadOn>>}
    /\ UNCHANGED <<vadVars, vadOn, toggles, audio, fixedWindow, pending, sender>>

(* Take, then VadLevel is read, once for this frame: after a switch _vad.Reset *)
(* and the buffers are cleared before the frame is used.                       *)
ConsumerTakes ==
    /\ consumerPc = "take"
    /\ queue # <<>>
    /\ raw' = Head(queue)
    /\ queue' = Tail(queue)
    /\ lastVadOn' = vadOn
    /\ consumerPc' = "frame"
    /\ IF Switched
       THEN VadReset /\ fixedWindow' = <<>>
       ELSE UNCHANGED <<vadVars, fixedWindow>>
    /\ modes' = modes \union {<<Head(queue), vadOn>>}
    /\ UNCHANGED <<vadOn, toggles, captured, audioPc, droppedFrames, lostFrames, pending, sender>>

(* The branch of VadLevel 0: five seconds at a time.                           *)
FixedWindow ==
    /\ consumerPc = "frame"
    /\ ~lastVadOn
    /\ IF Len(fixedWindow) + 1 >= FixedWindowFrames
       THEN /\ pending' = Append(fixedWindow, raw)
            /\ fixedWindow' = <<>>
            /\ consumerPc' = "enqueue"
       ELSE /\ fixedWindow' = Append(fixedWindow, raw)
            /\ consumerPc' = "take"
            /\ UNCHANGED pending
    /\ raw' = 0
    /\ UNCHANGED <<vadVars, vadOn, toggles, audio, lastVadOn, modes, sender>>

(* The branch of the detector.                                                *)
Detect ==
    /\ consumerPc = "frame"
    /\ lastVadOn
    /\ \E a \in BOOLEAN, silence \in SilenceFrames : ProcessFrame(raw, a, silence)
    /\ IF chunks' # chunks
       THEN pending' = chunks'[Len(chunks')].frames /\ consumerPc' = "enqueue"
       ELSE consumerPc' = "take" /\ UNCHANGED pending
    /\ raw' = 0
    /\ UNCHANGED <<vadOn, toggles, audio, lastVadOn, fixedWindow, modes, sender>>

(* Mutant of EnqueueAdds: Add, which waits for room.                           *)
EnqueueWaits ==
    /\ consumerPc = "enqueue"
    /\ Len(sendQueue) < SendQueueCapacity
    /\ sendQueue' = Append(sendQueue, pending)
    /\ consumerPc' = "take" /\ pending' = <<>>
    /\ UNCHANGED <<vadVars, vadOn, toggles, audio, lastVadOn, raw, fixedWindow, modes,
                   droppedChunks, sending, crashed, sent, lostChunks>>

(* EnqueueForSend: TryAdd, then for a full queue TryTake and TryAdd.           *)
EnqueueAdds ==
    /\ consumerPc = "enqueue"
    /\ IF Len(sendQueue) < SendQueueCapacity
       THEN /\ sendQueue' = Append(sendQueue, pending)
            /\ consumerPc' = "take" /\ pending' = <<>>
       ELSE consumerPc' = "drop" /\ UNCHANGED <<sendQueue, pending>>
    /\ UNCHANGED <<vadVars, vadOn, toggles, audio, lastVadOn, raw, fixedWindow, modes,
                   droppedChunks, sending, crashed, sent, lostChunks>>

EnqueueTakes ==
    /\ consumerPc = "drop"
    /\ sendQueue' = IF sendQueue = <<>> THEN sendQueue ELSE Tail(sendQueue)
    /\ lostChunks' = IF sendQueue = <<>> THEN lostChunks ELSE lostChunks \union {Head(sendQueue)}
    /\ consumerPc' = "add"
    /\ UNCHANGED <<vadVars, vadOn, toggles, audio, lastVadOn, raw, fixedWindow, pending,
                   modes, droppedChunks, sending, crashed, sent>>

EnqueueAddsAgain ==
    /\ consumerPc = "add"
    /\ IF Len(sendQueue) < SendQueueCapacity
       THEN sendQueue' = Append(sendQueue, pending) /\ UNCHANGED lostChunks
       ELSE lostChunks' = lostChunks \union {pending} /\ UNCHANGED sendQueue
    /\ droppedChunks' = droppedChunks + 1
    /\ consumerPc' = "take" /\ pending' = <<>>
    /\ UNCHANGED <<vadVars, vadOn, toggles, audio, lastVadOn, raw, fixedWindow, modes,
                   sending, crashed, sent>>

-----------------------------------------------------------------------------
(* SendLoopAsync.                                                             *)

SenderTakes ==
    /\ sending = <<>>
    /\ sendQueue # <<>>
    /\ sending' = Head(sendQueue)
    /\ sendQueue' = Tail(sendQueue)
    /\ UNCHANGED <<vadVars, vadOn, toggles, audio, consumer, droppedChunks, crashed, sent,
                   lostChunks>>

(* SendChunk: the text, "" or an exception that is swallowed; in any case the  *)
(* chunk is done with, after at most WhisperClient's two timeouts.             *)
SendEnds ==
    /\ sending # <<>>
    /\ ~crashed
    /\ sent' = Append(sent, sending)
    /\ sending' = <<>>
    /\ UNCHANGED <<vadVars, vadOn, toggles, audio, consumer, sendQueue, droppedChunks, crashed,
                   lostChunks>>

(* An exception in what SendChunk does outside its try blocks (conditioning,   *)
(* decimation, normalising) leaves the loop: nothing is posted again, and the  *)
(* chunk in hand stays where it was.  The consumer and the audio thread go on. *)
SendLoopCrashes ==
    /\ sending # <<>>
    /\ ~crashed
    /\ crashed' = TRUE
    /\ UNCHANGED <<vadVars, vadOn, toggles, audio, consumer, sendQueue, droppedChunks, sending,
                   sent, lostChunks>>

(* The panel's VAD level box, on the UI thread.                                *)
ToggleVad ==
    /\ toggles < MaxToggles
    /\ toggles' = toggles + 1
    /\ vadOn' = ~vadOn
    /\ UNCHANGED <<vadVars, audio, consumer, sender>>

Audio    == ProcessAdds \/ ProcessTakes \/ ProcessAddsAgain
Consumer == \/ ConsumerTakes \/ FixedWindow \/ Detect
            \/ EnqueueAdds \/ EnqueueTakes \/ EnqueueAddsAgain
Sender   == SenderTakes \/ SendEnds \/ SendLoopCrashes

PipeNext == Audio \/ Consumer \/ Sender \/ ToggleVad

PipeSpec == PipeInit /\ [][PipeNext]_pipeVars

(* The consumer runs on a thread of its own, and none of its steps waits.      *)
PipeFairSpec == PipeSpec /\ WF_pipeVars(Consumer)
-----------------------------------------------------------------------------
(* What the send loop has, had or will get, oldest first.                      *)
Outbox == sent \o <<sending>> \o sendQueue \o <<pending>>

Held(inHand, f) == IF inHand THEN <<f>> ELSE <<>>

(* Everything between the radio and the server, oldest first, piece by piece.  *)
Pieces ==
    Outbox \o <<fixedWindow, speechBuf, preRoll, Held(raw # 0, raw), queue,
                Held(audioPc # "idle", captured)>>

(* Every variable has its type; the queues keep to their capacities.           *)
PipeTypeOK ==
    /\ VadTypeOK
    /\ vadOn \in BOOLEAN /\ lastVadOn \in BOOLEAN /\ toggles \in Nat
    /\ captured \in Nat /\ raw \in Nat /\ droppedFrames \in Nat /\ droppedChunks \in Nat
    /\ queue \in Seq(Nat) /\ Len(queue) <= QueueCapacity
    /\ audioPc \in {"idle", "take", "add"}
    /\ consumerPc \in {"take", "frame", "enqueue", "drop", "add"}
    /\ fixedWindow \in Seq(Nat) /\ pending \in Seq(Nat) /\ sending \in Seq(Nat)
    /\ sendQueue \in Seq(Seq(Nat)) /\ Len(sendQueue) <= SendQueueCapacity
    /\ sent \in Seq(Seq(Nat)) /\ crashed \in BOOLEAN
    /\ lostFrames \subseteq Nat /\ lostChunks \subseteq Seq(Nat)
    /\ modes \subseteq Nat \X BOOLEAN

(* Audio stays in order and no frame is used twice on its way from the audio   *)
(* thread to the server, whatever the two drop-oldest queues throw away while  *)
(* the thread at their other end is taking.                                    *)
InOrder ==
    \A p, q \in DOMAIN Pieces : \A i \in DOMAIN Pieces[p], j \in DOMAIN Pieces[q] :
        p < q \/ (p = q /\ i < j) => Pieces[p][i] < Pieces[q][j]

(* "drop=" and "senddrop=" of the panel never report less than was thrown      *)
(* away, though the counters are written after the fact.                       *)
LossesCounted ==
    /\ Cardinality(lostFrames) <= droppedFrames + (IF audioPc = "add" THEN 1 ELSE 0)
    /\ Cardinality(lostChunks) <= droppedChunks + (IF consumerPc = "add" THEN 1 ELSE 0)

(* What is dropped is the oldest: the newest frame and the newest chunk are    *)
(* never the ones thrown away.                                                 *)
DropsOldest ==
    /\ captured \notin lostFrames
    /\ \A c \in lostChunks : \E i \in DOMAIN Outbox :
          Outbox[i] # <<>> /\ Head(Outbox[i]) > Head(c)

(* "discard it rather than mixing modes": no chunk spans a switch of VAD.      *)
NoMixedModes ==
    \A i \in DOMAIN Outbox : \A f, g \in Frames(Outbox[i]), m \in modes :
        <<f, m[2]>> \notin modes => ~(f <= m[1] /\ m[1] <= g)

(* A server that is slow, or never answers, does not stall the audio, nor does *)
(* a send loop that has crashed: no frame stays in the queue, though no post   *)
(* ever ends.                                                                  *)
NeverStalls == \A f \in 1..MaxFrames : f \in Frames(queue) ~> f \notin Frames(queue)
===============================================================================
