-------------------------- MODULE TranscriptionProofs --------------------------
(***************************************************************************)
(* Transcription.tla for any number of clients, chunks and retries: the table *)
(* of calls in flight, the watchdog's cut, the order of the journal, and that *)
(* what was said is answered or reported.  Each field of a thread is given by *)
(* its step counter; the invariants are about the threads that hold a call.   *)
(***************************************************************************)
EXTENDS Transcription, LeastElement

Pcs == {"unsent", "ready", "call", "reading", "pause", "extract", "record", "done"}

Replies == {"none", "error", "empty", "text"}

Threads == [pc : Pcs, attempt : Nat, age : Nat, live : BOOLEAN, status : Nat, left : Nat,
            reply : Replies]

Watches == [pc : {"wait", "restart", "cooldown"}, left : Int]
Waits   == [chunk : Chunk \union {Nobody}, age : Nat]

TypeOK ==
    /\ stt \in {"groq", "whisper_cpp"}
    /\ thread \in [Chunk -> Threads]
    /\ server \in {"up", "hung", "down"} /\ loading \in Int /\ stuckOn \in Nat
    /\ watchdog \in Watches
    /\ patience \in [Client -> Waits]
    /\ shown \in [Chunk -> {"nothing", "timed out"} \union Replies]
    /\ journal \in Seq(Chunk) /\ logged \in SUBSET Chunk
    /\ heard \in [Chunk -> {"nothing", "noise", "speech"}]
    /\ remaining \in Nat

-----------------------------------------------------------------------------
(* The values a thread is put to, field by field.                              *)
LEMMA UnsentIs ==
    /\ Unsent \in Threads
    /\ Unsent.pc = "unsent" /\ Unsent.age = 0 /\ Unsent.attempt = 0
BY DEF Unsent, Threads, Pcs, Replies

LEMMA RepliedIs ==
    ASSUME NEW reply \in Replies
    PROVE  /\ Replied(reply) \in Threads
           /\ Replied(reply).pc = "done" /\ Replied(reply).age = 0
           /\ Replied(reply).reply = reply
BY DEF Replied, Unsent, Threads, Pcs, Replies

LEMMA SentIs ==
    LET t == [Unsent EXCEPT !.pc = "ready"]
    IN  t \in Threads /\ t.pc = "ready" /\ t.age = 0
BY DEF Unsent, Threads, Pcs, Replies

(* A field of a thread that is set alone.                                      *)
(* A thread that has moved on, for so long at most, or has begun an attempt.    *)
At(t, pc)          == [t EXCEPT !.pc = pc]
AtFor(t, pc, left) == [t EXCEPT !.pc = pc, !.left = left]
Attempting(t, live) == [t EXCEPT !.pc = "call", !.attempt = @ + 1, !.live = live]

LEMMA PcSet ==
    ASSUME NEW t \in Threads, NEW pc \in Pcs, NEW left \in Nat,
           NEW u \in {At(t, pc), AtFor(t, pc, left)}
    PROVE  u \in Threads /\ u.pc = pc /\ u.age = t.age
<1>1. At(t, pc) \in Threads /\ At(t, pc).pc = pc /\ At(t, pc).age = t.age
  BY DEF Threads, At
<1>2. AtFor(t, pc, left) \in Threads /\ AtFor(t, pc, left).pc = pc /\ AtFor(t, pc, left).age = t.age
  BY DEF Threads, AtFor
<1> QED BY ONLY <1>1, <1>2

LEMMA AttemptIs ==
    ASSUME NEW t \in Threads, NEW live \in BOOLEAN
    PROVE  /\ Attempting(t, live) \in Threads /\ Attempting(t, live).pc = "call"
           /\ Attempting(t, live).attempt = t.attempt + 1
           /\ Attempting(t, live).live = live /\ Attempting(t, live).age = t.age
<1>1. t.attempt \in Nat /\ t.attempt + 1 \in Nat
  BY DEF Threads
<1> DEFINE n == t.attempt + 1
<1> HIDE DEF n
<1>2. [t EXCEPT !.pc = "call", !.attempt = n, !.live = live] \in Threads
  BY <1>1 DEF Threads, Pcs, n
<1>3. /\ [t EXCEPT !.pc = "call", !.attempt = n, !.live = live].attempt = n
      /\ [t EXCEPT !.pc = "call", !.attempt = n, !.live = live].live = live
      /\ [t EXCEPT !.pc = "call", !.attempt = n, !.live = live].age = t.age
      /\ [t EXCEPT !.pc = "call", !.attempt = n, !.live = live].pc = "call"
  BY DEF Threads
<1> QED BY <1>2, <1>3 DEF n, Attempting

LEMMA ReadingIs ==
    ASSUME NEW t \in Threads, NEW status \in Nat, NEW left \in Nat
    PROVE  LET u == [t EXCEPT !.pc = "reading", !.age = 0, !.status = status, !.left = left]
           IN  u \in Threads /\ u.pc = "reading" /\ u.age = 0 /\ u.left = left /\ u.status = status
BY DEF Threads, Pcs

LEMMA OlderIs ==
    ASSUME NEW t \in Threads
    PROVE  LET u == [t EXCEPT !.age = @ + 1]
           IN  u \in Threads /\ u.pc = t.pc /\ u.attempt = t.attempt /\ u.live = t.live
               /\ u.age = t.age + 1 /\ u.reply = t.reply
BY DEF Threads

LEMMA NearerIs ==
    ASSUME NEW t \in Threads, t.left > 0
    PROVE  LET u == [t EXCEPT !.left = @ - 1]
           IN  u \in Threads /\ u.pc = t.pc /\ u.attempt = t.attempt /\ u.live = t.live
               /\ u.age = t.age /\ u.reply = t.reply
BY DEF Threads

LEMMA CutOffIs ==
    ASSUME NEW t \in Threads, NEW live \in BOOLEAN
    PROVE  LET u == [t EXCEPT !.live = live]
           IN  u \in Threads /\ u.pc = t.pc /\ u.attempt = t.attempt /\ u.live = live
               /\ u.age = t.age /\ u.reply = t.reply
BY DEF Threads

(* Where what came back from the backend leaves a thread, and what was heard.   *)
LEMMA HandlesIs ==
    ASSUME TypeOK, NEW c \in Chunk, NEW status \in Nat, NEW wait \in Nat,
           Handles(c, status, wait)
    PROVE  \E t \in Threads, h \in {"nothing", "noise", "speech"} :
              /\ thread' = [thread EXCEPT ![c] = t] /\ heard' = [heard EXCEPT ![c] = h]
              /\ t.age = 0 /\ t.pc \in {"done", "extract", "pause"}
              /\ t.pc = "done" => \/ t.reply \in {"error", "empty"} /\ h \in {heard[c], "noise"}
                                  \/ t.reply = "text" /\ h = "speech"
              /\ t.pc = "extract" => h = "speech" /\ c[1] \in Maas
              /\ t.pc = "pause" => h = heard[c]
<1> DEFINE t == [Unsent EXCEPT !.attempt = thread[c].attempt]
<1>0. thread[c].attempt \in Nat /\ thread \in [Chunk -> Threads]
      /\ heard \in [Chunk -> {"nothing", "noise", "speech"}]
  BY DEF TypeOK, Threads
<1>1. /\ [t EXCEPT !.pc = "extract", !.left = EXTRACT_TIMEOUT] \in Threads
      /\ [t EXCEPT !.pc = "extract", !.left = EXTRACT_TIMEOUT].age = 0
      /\ [t EXCEPT !.pc = "extract", !.left = EXTRACT_TIMEOUT].pc = "extract"
      /\ [t EXCEPT !.pc = "pause", !.left = wait] \in Threads
      /\ [t EXCEPT !.pc = "pause", !.left = wait].age = 0
      /\ [t EXCEPT !.pc = "pause", !.left = wait].pc = "pause"
  BY <1>0, TranscriptionAssumption DEF Unsent, Threads, Pcs, Replies
<1>2. heard[c] \in {"nothing", "noise", "speech"} /\ heard = [heard EXCEPT ![c] = heard[c]]
  BY <1>0
<1>3. "error" \in Replies /\ "empty" \in Replies /\ "text" \in Replies
  BY DEF Replies
<1> HIDE DEF t
<1>4. CASE status = 200 /\ heard' = [heard EXCEPT ![c] = "noise"] /\ WithThread(c, Replied("empty"))
  BY <1>2, <1>3, <1>4, RepliedIs DEF WithThread
<1>5. CASE status = 200 /\ heard' = [heard EXCEPT ![c] = "speech"] /\ c[1] \in Maas
           /\ WithThread(c, [t EXCEPT !.pc = "extract", !.left = EXTRACT_TIMEOUT])
  BY <1>1, <1>5 DEF WithThread
<1>6. CASE status = 200 /\ heard' = [heard EXCEPT ![c] = "speech"] /\ c[1] \notin Maas
           /\ WithThread(c, Replied("text"))
  BY <1>3, <1>6, RepliedIs DEF WithThread
<1>7. CASE status # 200 /\ heard' = heard /\ WithThread(c, Replied("error"))
  BY <1>2, <1>3, <1>7, RepliedIs DEF WithThread
<1>8. CASE status # 200 /\ heard' = heard
           /\ WithThread(c, [t EXCEPT !.pc = "pause", !.left = wait])
  BY <1>1, <1>2, <1>8 DEF WithThread
<1> QED
  BY <1>4, <1>5, <1>6, <1>7, <1>8 DEF Handles, t
-----------------------------------------------------------------------------
(* What a thread has made of its audio, wherever it stands.                     *)
Rightly(c, t, h) ==
    /\ t.pc \in {"unsent", "ready", "call", "reading", "pause"} => h = "nothing"
    /\ t.pc \in {"extract", "record"} => h = "speech" /\ c[1] \in Maas
    /\ t.pc = "done" => t.reply # "none" /\ (t.reply = "text" <=> h = "speech")

RequestStep(c) ==
    \/ Attempt(c) \/ WhisperAnswers(c) \/ CallRaises(c) \/ GroqServes(c) \/ GroqRead(c)
    \/ Resumes(c) \/ Extracted(c) \/ Record(c) \/ PostProcessRaises(c)

(* One step of a request's thread moves that thread alone, from where it was    *)
(* sent towards its reply.                                                     *)
Moves(c, t, h) ==
    /\ thread' = [thread EXCEPT ![c] = t] /\ heard' = [heard EXCEPT ![c] = h]
    /\ thread[c].pc \notin {"unsent", "done"} /\ t.pc # "unsent"
    /\ t.pc = "call" <=> Attempt(c)
    /\ t.pc = "call" /\ t.live => stt = "groq" \/ server # "down"
    /\ \/ t.age = 0
       \/ t.age = thread[c].age /\ thread[c].pc # "call"
    /\ t.pc = "reading" => t.left = remaining'
    /\ Rightly(c, thread[c], heard[c]) => Rightly(c, t, h)
    /\ shown' = shown /\ patience' = patience /\ stt' = stt

LEMMA RequestMoves ==
    ASSUME TypeOK, NEW c \in Chunk, RequestStep(c)
    PROVE  /\ \E t \in Threads, h \in {"nothing", "noise", "speech"} : Moves(c, t, h)
           /\ remaining' \in Nat
<1> DEFINE t0 == thread[c]
           h0 == heard[c]
           H == {"nothing", "noise", "speech"}
           Goal == /\ \E t \in Threads, h \in H : Moves(c, t, h)
                   /\ remaining' \in Nat
<1>0. /\ t0 \in Threads /\ h0 \in H /\ thread \in [Chunk -> Threads] /\ remaining \in Nat
      /\ heard \in [Chunk -> H] /\ heard = [heard EXCEPT ![c] = h0]
      /\ t0.pc \in Pcs /\ t0.age \in Nat /\ t0.left \in Nat /\ t0.status \in Nat
  BY DEF TypeOK, Threads
<1>1. "error" \in Replies /\ "text" \in Replies /\ {"ready", "record"} \subseteq Pcs /\ 0 \in Nat
  BY DEF Replies, Pcs
<1>2. ASSUME Attempt(c)
      PROVE  Goal
  <2>0. PICK live \in BOOLEAN : live = (stt = "groq" \/ server # "down")
    OBVIOUS
  <2> DEFINE t == [thread[c] EXCEPT !.pc = "call", !.attempt = @ + 1, !.live = live]
  <2>1. t \in Threads /\ t.pc = "call" /\ t.age = t0.age /\ t.live = live
    <3>1. t = Attempting(t0, live) /\ t0 \in Threads
      BY ONLY <1>0 DEF Attempting
    <3> HIDE DEF t, t0
    <3> QED BY ONLY <3>1, AttemptIs
  <2>2. t0.pc = "ready" /\ thread' = [thread EXCEPT ![c] = t] /\ heard' = heard
        /\ shown' = shown /\ patience' = patience /\ stt' = stt /\ remaining' = remaining
    BY <1>2, <2>0 DEF Attempt, WithThread, clientVars, recordVars, quotaVars
  <2> HIDE DEF t
  <2>3. Rightly(c, t0, h0) => Rightly(c, t, h0)
    BY <2>1, <2>2 DEF Rightly
  <2>4. Moves(c, t, h0)
    BY <1>0, <1>2, <2>0, <2>1, <2>2, <2>3 DEF Moves
  <2> QED BY <1>0, <2>1, <2>2, <2>4
<1>3. ASSUME ~Attempt(c), shown' = shown, patience' = patience, stt' = stt, remaining' \in Nat,
             t0.pc \notin {"unsent", "done"},
             NEW t \in Threads, NEW h \in H,
             thread' = [thread EXCEPT ![c] = t], heard' = [heard EXCEPT ![c] = h],
             t.pc \notin {"unsent", "call"},
             t.pc = "reading" => t.left = remaining',
             t.age = 0 \/ (t.age = t0.age /\ t0.pc # "call"),
             Rightly(c, t0, h0) => Rightly(c, t, h)
      PROVE  Goal
  BY <1>3 DEF Moves
<1>4. ASSUME NEW status \in Nat, NEW wait \in Nat, Handles(c, status, wait),
             ~Attempt(c), shown' = shown, patience' = patience, stt' = stt, remaining' = remaining,
             t0.pc \in {"call", "reading"}
      PROVE  Goal
  <2>1. PICK t \in Threads, h \in H :
              /\ thread' = [thread EXCEPT ![c] = t] /\ heard' = [heard EXCEPT ![c] = h]
              /\ t.age = 0 /\ t.pc \in {"done", "extract", "pause"}
              /\ t.pc = "done" => \/ t.reply \in {"error", "empty"} /\ h \in {heard[c], "noise"}
                                  \/ t.reply = "text" /\ h = "speech"
              /\ t.pc = "extract" => h = "speech" /\ c[1] \in Maas
              /\ t.pc = "pause" => h = heard[c]
    BY <1>4, HandlesIs
  <2>2. Rightly(c, t0, h0) => Rightly(c, t, h)
    BY <1>4, <2>1 DEF Rightly
  <2> QED BY <1>0, <1>3, <1>4, <2>1, <2>2
<1>5. ASSUME NEW reply \in {"error", "text"}, WithThread(c, Replied(reply)), heard' = heard,
             ~Attempt(c), shown' = shown, patience' = patience, stt' = stt, remaining' = remaining,
             reply = "error" => t0.pc = "call",
             reply = "text" => t0.pc \in {"extract", "record"}
      PROVE  Goal
  <2> DEFINE t == Replied(reply)
  <2>1. /\ t \in Threads /\ t.pc = "done" /\ t.age = 0 /\ t.reply = reply
        /\ thread' = [thread EXCEPT ![c] = t]
    BY <1>1, <1>5, RepliedIs DEF WithThread
  <2> HIDE DEF t
  <2>2. Rightly(c, t0, h0) => Rightly(c, t, h0)
    BY <1>5, <2>1 DEF Rightly
  <2> QED BY <1>0, <1>3, <1>5, <2>1, <2>2
<1>6. CASE WhisperAnswers(c)
  BY <1>4, <1>6 DEF WhisperAnswers, Attempt, Calling, clientVars, quotaVars
<1>7. CASE CallRaises(c)
  BY <1>5, <1>7 DEF CallRaises, Attempt, Calling, clientVars, quotaVars, recordVars
<1>8. CASE GroqServes(c)
  <2>1. remaining' \in Nat
    <3>1. remaining' = IF remaining > 0 THEN remaining - 1 ELSE 0
      BY <1>8 DEF GroqServes
    <3> QED BY <1>0, <3>1
  <2>2. /\ ~Attempt(c) /\ t0.pc = "call" /\ heard' = heard
        /\ shown' = shown /\ patience' = patience /\ stt' = stt
    BY <1>8 DEF GroqServes, Attempt, Calling, clientVars, recordVars
  <2>3. PICK left \in Nat : left = remaining'
    BY <2>1
  <2>4. PICK status \in {200, 400, 429, 500} :
            WithThread(c, [thread[c] EXCEPT !.pc = "reading", !.age = 0, !.status = status,
                                   !.left = remaining'])
    BY <1>8 DEF GroqServes
  <2>5. PICK t : t = [t0 EXCEPT !.pc = "reading", !.age = 0, !.status = status, !.left = left]
    OBVIOUS
  <2>6. t \in Threads /\ t.pc = "reading" /\ t.age = 0 /\ t.left = remaining'
    <3>1. status \in Nat
      BY <2>4
    <3> QED BY <1>0, <2>3, <2>5, <3>1 DEF Threads, Pcs
  <2>7. thread' = [thread EXCEPT ![c] = t] /\ heard' = [heard EXCEPT ![c] = h0]
    BY <1>0, <2>2, <2>3, <2>4, <2>5 DEF WithThread
  <2>8. Rightly(c, t0, h0) => Rightly(c, t, h0)
    BY <2>2, <2>6 DEF Rightly
  <2>9. t.pc \notin {"unsent", "call"} /\ t0.pc \notin {"unsent", "done"}
    BY <2>2, <2>6
  <2> QED BY <1>0, <1>3, <2>1, <2>2, <2>6, <2>7, <2>8, <2>9
<1>9. CASE GroqRead(c)
  <2>1. PICK wait \in {0, GROQ_MAX_RETRY_WAIT_S, GROQ_MAX_RETRY_WAIT_S + 1} :
            Handles(c, thread[c].status, wait)
    BY <1>9 DEF GroqRead
  <2>2. wait \in Nat
    BY <2>1, TranscriptionAssumption
  <2> QED BY <1>0, <1>4, <1>9, <2>1, <2>2 DEF GroqRead, Attempt, clientVars
<1>10. ASSUME NEW pc \in {"ready", "record"}, NEW left \in Nat, NEW t,
              t = [thread[c] EXCEPT !.pc = pc] \/ t = [thread[c] EXCEPT !.pc = pc, !.left = left],
              WithThread(c, t), heard' = heard,
              ~Attempt(c), shown' = shown, patience' = patience, stt' = stt, remaining' = remaining,
              pc = "ready" => t0.pc = "pause",
              pc = "record" => t0.pc = "extract"
       PROVE  Goal
  <2>1. /\ t \in Threads /\ t.pc = pc /\ t.age = t0.age
        /\ thread' = [thread EXCEPT ![c] = t]
    <3>1. pc \in Pcs /\ t0 \in Threads
      BY <1>0, <1>1
    <3>2. /\ left \in Nat /\ t \in {At(t0, pc), AtFor(t0, pc, left)}
          /\ thread' = [thread EXCEPT ![c] = t]
      BY ONLY <1>10 DEF WithThread, At, AtFor
    <3> HIDE DEF t0
    <3> QED BY ONLY <3>1, <3>2, PcSet
  <2>2. Rightly(c, t0, h0) => Rightly(c, t, h0)
    BY <1>10, <2>1 DEF Rightly
  <2> QED BY <1>0, <1>3, <1>10, <2>1, <2>2
<1>11. CASE Resumes(c)
  BY <1>1, <1>10, <1>11 DEF Resumes, Attempt, clientVars, recordVars, quotaVars
<1>12. CASE Extracted(c)
  BY <1>1, <1>10, <1>12 DEF Extracted, Attempt, clientVars, quotaVars
<1>13. CASE Record(c)
  BY <1>5, <1>13 DEF Record, Attempt, clientVars, quotaVars
<1>14. CASE PostProcessRaises(c)
  BY <1>5, <1>14 DEF PostProcessRaises, Attempt, clientVars, recordVars, quotaVars
<1> QED
  BY <1>2, <1>6, <1>7, <1>8, <1>9, <1>11, <1>12, <1>13, <1>14 DEF RequestStep

LEMMA SendMoves ==
    ASSUME TypeOK, NEW k \in Client, Send(k)
    PROVE  \E c \in NextOf(k), t \in Threads :
              /\ thread' = [thread EXCEPT ![c] = t]
              /\ t.age = 0 /\ t.pc \in {"ready", "done"}
              /\ t.pc = "done" => t.reply = "error"
              /\ patience' = [patience EXCEPT ![k] = [chunk |-> c, age |-> 0]]
<1>1. PICK c \in NextOf(k) :
          /\ \/ WithThread(c, [Unsent EXCEPT !.pc = "ready"])
             \/ WithThread(c, Replied("error"))
          /\ patience' = [patience EXCEPT ![k] = [chunk |-> c, age |-> 0]]
  BY DEF Send
<1>2. "error" \in Replies
  BY DEF Replies
<1>3. CASE WithThread(c, [Unsent EXCEPT !.pc = "ready"])
  BY <1>1, <1>3, SentIs DEF WithThread
<1>4. CASE WithThread(c, Replied("error"))
  BY <1>1, <1>2, <1>4, RepliedIs DEF WithThread
<1> QED BY <1>1, <1>3, <1>4

LEMMA RestartMoves ==
    ASSUME TypeOK, Restart
    PROVE  /\ thread' \in [Chunk -> Threads]
           /\ \A c \in Chunk : /\ thread'[c].pc = thread[c].pc
                               /\ thread'[c].attempt = thread[c].attempt
                               /\ thread'[c].age = thread[c].age
                               /\ thread'[c].reply = thread[c].reply
                               /\ thread'[c].left = thread[c].left
                               /\ Calling(c) => ~thread'[c].live
<1>1. thread' = [c \in Chunk |-> [thread[c] EXCEPT !.live = @ /\ ~Calling(c)]]
  BY DEF Restart
<1>2. ASSUME NEW c \in Chunk
      PROVE  /\ thread'[c] \in Threads
             /\ thread'[c].pc = thread[c].pc /\ thread'[c].attempt = thread[c].attempt
             /\ thread'[c].age = thread[c].age /\ thread'[c].reply = thread[c].reply
             /\ thread'[c].left = thread[c].left
             /\ Calling(c) => ~thread'[c].live
  <2>1. thread[c] \in Threads
    BY DEF TypeOK
  <2>2. PICK live \in BOOLEAN : live = (thread[c].live /\ ~Calling(c))
    OBVIOUS
  <2>3. thread'[c] = [thread[c] EXCEPT !.live = live]
    BY <1>1, <2>2
  <2>4. thread'[c].left = thread[c].left
    BY <2>1, <2>3 DEF Threads
  <2>5. /\ thread'[c] \in Threads
        /\ thread'[c].pc = thread[c].pc /\ thread'[c].attempt = thread[c].attempt
        /\ thread'[c].age = thread[c].age /\ thread'[c].reply = thread[c].reply
        /\ thread'[c].live = live
    BY ONLY <2>1, <2>3, CutOffIs
  <2>6. Calling(c) => ~thread'[c].live
    BY ONLY <2>2, <2>5
  <2> QED BY ONLY <2>4, <2>5, <2>6
<1> QED BY <1>1, <1>2

LEMMA TickMoves ==
    ASSUME TypeOK, Tick
    PROVE  /\ thread' \in [Chunk -> Threads]
           /\ \A c \in Chunk : /\ thread'[c].pc = thread[c].pc
                               /\ thread'[c].attempt = thread[c].attempt
                               /\ thread'[c].live = thread[c].live
                               /\ thread'[c].reply = thread[c].reply
                               /\ thread[c].pc # "reading"
                               /\ thread'[c].age = IF Calling(c) THEN thread[c].age + 1
                                                   ELSE thread[c].age
<1>1. thread' = [c \in Chunk |->
          IF thread[c].pc = "call" THEN [thread[c] EXCEPT !.age = @ + 1]
          ELSE IF thread[c].pc \in {"pause", "extract"} THEN [thread[c] EXCEPT !.left = @ - 1]
          ELSE thread[c]]
  BY DEF Tick
<1>2. ASSUME NEW c \in Chunk
      PROVE  /\ thread'[c] \in Threads
             /\ thread'[c].pc = thread[c].pc /\ thread'[c].attempt = thread[c].attempt
             /\ thread'[c].live = thread[c].live /\ thread'[c].reply = thread[c].reply
             /\ thread[c].pc # "reading"
             /\ thread'[c].age = IF Calling(c) THEN thread[c].age + 1 ELSE thread[c].age
  <2>1. thread[c] \in Threads
    BY DEF TypeOK
  <2>2. /\ thread[c].pc # "reading"
        /\ thread[c].pc \in {"pause", "extract"} => thread[c].left > 0
    BY DEF Tick, Idle
  <2>3. CASE thread[c].pc = "call"
    <3>1. thread'[c] = [thread[c] EXCEPT !.age = @ + 1]
      BY <1>1, <2>3
    <3> QED BY <2>1, <2>3, <3>1, OlderIs DEF Calling
  <2>4. CASE thread[c].pc \in {"pause", "extract"}
    <3>1. thread'[c] = [thread[c] EXCEPT !.left = @ - 1]
      BY <1>1, <2>4
    <3> QED BY <2>1, <2>2, <2>4, <3>1, NearerIs DEF Calling
  <2>5. CASE thread[c].pc \notin {"call", "pause", "extract"}
    <3>1. thread'[c] = thread[c]
      BY <1>1, <2>5
    <3> QED BY <2>1, <2>2, <2>5, <3>1 DEF Calling
  <2> QED BY <2>3, <2>4, <2>5
<1> QED BY <1>1, <1>2

-----------------------------------------------------------------------------
LEMMA TranscriptionInitTypes == TranscriptionInit => TypeOK
<1> SUFFICES ASSUME TranscriptionInit
             PROVE  TypeOK
  OBVIOUS
<1>1. thread \in [Chunk -> Threads]
  BY UnsentIs DEF TranscriptionInit
<1>2. watchdog \in Watches
  BY TranscriptionAssumption DEF TranscriptionInit, Watches
<1>3. patience \in [Client -> Waits]
  <2>1. [chunk |-> Nobody, age |-> 0] \in Waits
    BY DEF Waits
  <2> QED BY <2>1 DEF TranscriptionInit
<1>4. remaining \in Nat
  <2>1. remaining \in 1..DAILY \/ remaining = DAILY
    BY DEF TranscriptionInit
  <2> QED BY <2>1, TranscriptionAssumption
<1>5. /\ stt \in {"groq", "whisper_cpp"}
      /\ server \in {"up", "hung", "down"} /\ loading \in Int /\ stuckOn \in Nat
      /\ shown \in [Chunk -> {"nothing", "timed out"} \union Replies]
      /\ heard \in [Chunk -> {"nothing", "noise", "speech"}]
  BY TranscriptionAssumption DEF TranscriptionInit
<1>6. journal \in Seq(Chunk) /\ logged \in SUBSET Chunk
  BY DEF TranscriptionInit
<1> QED BY <1>1, <1>2, <1>3, <1>4, <1>5, <1>6 DEF TypeOK

LEMMA TranscriptionTypes ==
    ASSUME TypeOK, [TranscriptionNext]_transcriptionVars
    PROVE  TypeOK'
<1>0. /\ watchdog \in Watches /\ patience \in [Client -> Waits] /\ thread \in [Chunk -> Threads]
      /\ shown \in [Chunk -> {"nothing", "timed out"} \union Replies]
      /\ logged \in SUBSET Chunk
  BY DEF TypeOK
<1>typed. loading \in Int /\ stuckOn \in Nat
  BY DEF TypeOK
<1>watched. watchdog \in Watches
  BY DEF TypeOK
<1>listed. journal \in Seq(Chunk)
  BY DEF TypeOK
<1>1. ASSUME NEW k \in Client, Send(k)
      PROVE  TypeOK'
  <2>1. \E c \in NextOf(k), t \in Threads :
              /\ thread' = [thread EXCEPT ![c] = t]
              /\ patience' = [patience EXCEPT ![k] = [chunk |-> c, age |-> 0]]
    BY <1>1, SendMoves
  <2>2. PICK c \in NextOf(k), t \in Threads :
              /\ thread' = [thread EXCEPT ![c] = t]
              /\ patience' = [patience EXCEPT ![k] = [chunk |-> c, age |-> 0]]
    BY <2>1
  <2>3. c \in Chunk
    BY DEF NextOf
  <2>4. thread' \in [Chunk -> Threads]
    BY <1>0, <2>2, <2>3
  <2>5. patience' \in [Client -> Waits]
    <3>1. [chunk |-> c, age |-> 0] \in Waits
      BY <2>3 DEF Waits
    <3> QED BY <1>0, <2>2, <3>1
  <2> QED BY <1>1, <2>4, <2>5 DEF Send, serverVars, recordVars, quotaVars, TypeOK
<1>2. ASSUME NEW k \in Client, Arrives(k) \/ GivesUp(k)
      PROVE  TypeOK'
  <2>1. PICK c \in Chunk : c = patience[k].chunk
    BY <1>0, <1>2 DEF Arrives, GivesUp, Waits
  <2>2. thread[c].reply \in Replies
    BY <1>0 DEF Threads
  <2>3. patience' \in [Client -> Waits]
    <3>1. [chunk |-> Nobody, age |-> 0] \in Waits
      BY DEF Waits
    <3> QED BY <1>0, <1>2, <3>1 DEF Arrives, GivesUp
  <2>4. shown' \in [Chunk -> {"nothing", "timed out"} \union Replies]
    BY <1>0, <1>2, <2>1, <2>2 DEF Arrives, GivesUp
  <2> QED BY <1>2, <2>3, <2>4 DEF Arrives, GivesUp, taskVars, serverVars, recordVars, quotaVars,
                                  TypeOK
<1>3. ASSUME NEW c \in Chunk, RequestStep(c)
      PROVE  TypeOK'
  <2>1. PICK t \in Threads, h \in {"nothing", "noise", "speech"} : Moves(c, t, h)
    BY <1>3, RequestMoves
  <2>2. thread' \in [Chunk -> Threads] /\ heard' \in [Chunk -> {"nothing", "noise", "speech"}]
    BY <2>1 DEF Moves, TypeOK
  <2>3. stt' = stt /\ shown' = shown /\ patience' = patience /\ remaining' \in Nat
    BY <1>3, <2>1, RequestMoves DEF Moves
  <2>4. server' = server /\ loading' = loading /\ stuckOn' = stuckOn /\ watchdog' = watchdog
    BY <1>3 DEF RequestStep, Attempt, WhisperAnswers, CallRaises, GroqServes, GroqRead, Resumes,
                Extracted, Record, PostProcessRaises, serverVars
  <2>5. journal' \in Seq(Chunk)
    <3>1. journal' = journal \/ journal' = Append(journal, c)
      BY <1>3 DEF RequestStep, Attempt, WhisperAnswers, CallRaises, GroqServes, GroqRead, Resumes,
                  Extracted, Record, PostProcessRaises, recordVars
    <3> QED BY <1>listed, <3>1
  <2>6. logged' \in SUBSET Chunk
    <3>1. logged' = logged \/ logged' = logged \union {c}
      BY <1>3 DEF RequestStep, Attempt, WhisperAnswers, CallRaises, GroqServes, GroqRead, Resumes,
                  Extracted, Record, PostProcessRaises, recordVars
    <3> QED BY <1>0, <3>1
  <2> QED BY <2>2, <2>3, <2>4, <2>5, <2>6 DEF TypeOK
<1>4. CASE Midnight
  <2>1. remaining' \in Nat
    BY <1>4, TranscriptionAssumption DEF Midnight
  <2> QED BY <1>4, <2>1 DEF Midnight, taskVars, serverVars, clientVars, recordVars, TypeOK
<1>5. CASE Hangs \/ Loaded
  BY <1>5 DEF Hangs, Loaded, taskVars, clientVars, recordVars, quotaVars, TypeOK
<1>6. CASE Look \/ RestartFails \/ Cooled
  <2>1. watchdog' \in Watches
    <3>1. \A n \in Int : /\ [pc |-> "restart", left |-> n] \in Watches
                         /\ [pc |-> "cooldown", left |-> n] \in Watches
                         /\ [pc |-> "wait", left |-> n] \in Watches
                         /\ [watchdog EXCEPT !.left = n] \in Watches
      BY <1>0 DEF Watches
    <3>2. KILL_TIMEOUT \in Int /\ RESTART_COOLDOWN_S \in Int /\ WATCHDOG_POLL_S \in Int
      BY TranscriptionAssumption
    <3> QED BY <1>6, <3>1, <3>2 DEF Look, RestartFails, Cooled
  <2>2. stuckOn' \in Nat
    BY <1>typed, <1>6 DEF Look, RestartFails, Cooled
  <2> QED BY <1>6, <2>1, <2>2 DEF Look, RestartFails, Cooled, taskVars, clientVars, recordVars,
                                  quotaVars, TypeOK
<1>7. CASE Restart
  <2>1. thread' \in [Chunk -> Threads]
    BY <1>7, RestartMoves
  <2>2. watchdog' \in Watches /\ loading' \in Int /\ server' = "down"
    BY <1>7, TranscriptionAssumption DEF Restart, Watches
  <2> QED BY <1>7, <2>1, <2>2 DEF Restart, clientVars, recordVars, quotaVars, TypeOK
<1>8. CASE Tick
  <2>1. thread' \in [Chunk -> Threads]
    BY <1>8, TickMoves
  <2>2. watchdog' \in Watches
    <3>1. [watchdog EXCEPT !.left = @ - 1] \in Watches
      BY <1>watched DEF Watches
    <3> QED BY <1>0, <1>8, <3>1 DEF Tick
  <2>3. patience' \in [Client -> Waits]
    <3>1. ASSUME NEW k \in Client
          PROVE  [patience[k] EXCEPT !.age = @ + 1] \in Waits
      <4>1. patience[k] \in Waits
        BY <1>0
      <4> QED BY <4>1 DEF Waits
    <3>2. patience' = [k \in Client |-> IF patience[k].chunk = Nobody THEN patience[k]
                                     ELSE [patience[k] EXCEPT !.age = @ + 1]]
      BY <1>8 DEF Tick
    <3> QED BY <1>0, <3>1, <3>2
  <2>4. loading' \in Int
    <3>1. loading' = loading \/ loading' = loading - 1
      BY <1>8 DEF Tick
    <3> QED BY <1>typed, <3>1
  <2> QED BY <1>8, <2>1, <2>2, <2>3, <2>4 DEF Tick, recordVars, quotaVars, TypeOK
<1>9. CASE UNCHANGED transcriptionVars
  BY <1>9 DEF transcriptionVars, taskVars, serverVars, clientVars, recordVars, quotaVars, TypeOK
<1> QED
  BY <1>1, <1>2, <1>3, <1>4, <1>5, <1>6, <1>7, <1>8, <1>9 DEF TranscriptionNext, RequestStep
(* Type correctness.                                                           *)
THEOREM TranscriptionTypeOK == TranscriptionSpec => []TypeOK
<1>1. TypeOK /\ [TranscriptionNext]_transcriptionVars => TypeOK'
  BY TranscriptionTypes
<1> QED BY <1>1, TranscriptionInitTypes, PTL DEF TranscriptionSpec

-----------------------------------------------------------------------------
(* The watchdog's table, entry by entry.                                        *)
Entered ==
    /\ \A c \in Chunk : ~Calling(c) => thread[c].age = 0
    /\ stt = "whisper_cpp" =>
          /\ \A c \in Chunk : Calling(c) =>
                Id(c) \in DOMAIN inflight /\ inflight[Id(c)] = thread[c].age
          /\ \A i \in DOMAIN inflight : \E c \in Chunk : Calling(c) /\ i = Id(c)

LEMMA EnteredIsExact == Entered => InflightExact
<1> SUFFICES ASSUME Entered, stt = "whisper_cpp"
             PROVE  /\ DOMAIN inflight = {Id(c) : c \in {c \in Chunk : Calling(c)}}
                    /\ \A c \in Chunk : Calling(c) => inflight[Id(c)] = thread[c].age
  BY DEF InflightExact
<1>1. \A i : i \in DOMAIN inflight <=> \E c \in Chunk : Calling(c) /\ i = Id(c)
  BY DEF Entered
<1>2. \A i : i \in {Id(c) : c \in {c \in Chunk : Calling(c)}}
             <=> \E c \in Chunk : Calling(c) /\ i = Id(c)
  OBVIOUS
<1>3. DOMAIN inflight = {Id(c) : c \in {c \in Chunk : Calling(c)}}
  BY <1>1, <1>2
<1> QED BY <1>3 DEF Entered

(* A step that leaves the calls and their ages alone.                           *)
LEMMA EnteredStands ==
    ASSUME Entered, inflight' = inflight, stt' = stt,
           \A c \in Chunk : /\ thread'[c].pc = "call" <=> Calling(c)
                            /\ Calling(c) => /\ thread'[c].attempt = thread[c].attempt
                                             /\ thread'[c].age = thread[c].age
                            /\ ~Calling(c) => thread'[c].age = 0
    PROVE  Entered'
<1>1. \A c \in Chunk : Calling(c)' <=> Calling(c)
  BY DEF Calling
<1>2. \A c \in Chunk : Calling(c) => Id(c)' = Id(c)
  BY DEF Id
<1> QED BY <1>1, <1>2 DEF Entered

LEMMA EnteredStep ==
    ASSUME TypeOK, Entered, [TranscriptionNext]_transcriptionVars
    PROVE  Entered'
<1>0. thread \in [Chunk -> Threads]
  BY DEF TypeOK
<1>1. ASSUME NEW k \in Client, Send(k)
      PROVE  Entered'
  <2>1. \E c \in NextOf(k), t \in Threads :
            thread' = [thread EXCEPT ![c] = t] /\ t.age = 0 /\ t.pc \in {"ready", "done"}
    BY <1>1, SendMoves
  <2>2. PICK c \in NextOf(k), t \in Threads :
            thread' = [thread EXCEPT ![c] = t] /\ t.age = 0 /\ t.pc \in {"ready", "done"}
    BY <2>1
  <2>3. c \in Chunk /\ ~Calling(c)
    BY DEF NextOf, Calling
  <2>4. \A d \in Chunk : thread'[d] = IF d = c THEN t ELSE thread[d]
    BY <1>0, <2>2, <2>3
  <2>5. inflight' = inflight /\ stt' = stt
    BY <1>1 DEF Send
  <2> QED BY <2>2, <2>3, <2>4, <2>5, EnteredStands DEF Calling, Entered
<1>2. ASSUME NEW c \in Chunk, RequestStep(c)
      PROVE  Entered'
  <2>1. PICK t \in Threads, h \in {"nothing", "noise", "speech"} : Moves(c, t, h)
    BY <1>2, RequestMoves
  <2>2. \A d \in Chunk : thread'[d] = IF d = c THEN t ELSE thread[d]
    BY <1>0, <2>1 DEF Moves
  <2>3. stt' = stt /\ (t.pc = "call" <=> Attempt(c))
    BY <2>1 DEF Moves
  <2>4. t.age = 0
    BY <2>1 DEF Moves, Entered, Calling
  <2>5. \A d \in Chunk : ~Calling(d)' => thread'[d].age = 0
    BY <2>2, <2>4 DEF Calling, Entered
  <2>6. \A d \in Chunk \ {c} : (Calling(d)' <=> Calling(d)) /\ Id(d)' = Id(d)
                               /\ Id(d) # Id(c) /\ Id(d) # Id(c)'
    BY <2>2 DEF Calling, Id
  <2>7. CASE stt = "groq"
    BY <2>3, <2>5, <2>7 DEF Entered
  <2>8. ASSUME Attempt(c), stt # "groq"
        PROVE  Entered'
    <3>1. inflight' = [i \in DOMAIN inflight \union {Id(c)'} |->
                            IF i \in DOMAIN inflight THEN inflight[i] ELSE 0]
      BY <2>8 DEF Attempt
    <3>2. ~Calling(c) /\ Calling(c)'
      BY <2>2, <2>3, <2>8 DEF Attempt, Calling
    <3>3. stt = "whisper_cpp"
      BY <2>8 DEF TypeOK
    <3>4. Id(c)' \notin DOMAIN inflight
      BY <2>6, <3>2, <3>3 DEF Entered
    <3>5. inflight'[Id(c)'] = 0 /\ thread'[c].age = 0
      BY <2>2, <2>4, <3>1, <3>4
    <3>6. DOMAIN inflight' = DOMAIN inflight \union {Id(c)'}
      BY <3>1
    <3>7. \A i \in DOMAIN inflight : inflight'[i] = inflight[i]
      BY <3>1
    <3>8. \A d \in Chunk : Calling(d)' =>
                Id(d)' \in DOMAIN inflight' /\ inflight'[Id(d)'] = thread'[d].age
      BY <2>2, <2>6, <3>3, <3>5, <3>6, <3>7 DEF Entered
    <3>9. \A i \in DOMAIN inflight' : \E d \in Chunk : Calling(d)' /\ i = Id(d)'
      <4> SUFFICES ASSUME NEW i \in DOMAIN inflight, i # Id(c)'
                   PROVE  \E d \in Chunk : Calling(d)' /\ i = Id(d)'
        BY <3>2, <3>6
      <4>1. PICK d \in Chunk : Calling(d) /\ i = Id(d)
        BY <3>3 DEF Entered
      <4> QED BY <2>6, <3>2, <4>1
    <3> QED BY <2>5, <3>8, <3>9 DEF Entered
  <2>9. ASSUME WhisperAnswers(c) \/ CallRaises(c), stt # "groq"
        PROVE  Entered'
    <3>1. inflight' = [i \in DOMAIN inflight \ {Id(c)} |-> inflight[i]] /\ Calling(c)
      BY <2>9 DEF WhisperAnswers, CallRaises, InflightEnd
    <3>2. ~Calling(c)'
      BY <2>2, <2>3, <3>1 DEF Attempt, Calling
    <3>3. stt = "whisper_cpp"
      BY <2>9 DEF TypeOK
    <3>4. DOMAIN inflight' = DOMAIN inflight \ {Id(c)}
          /\ \A i \in DOMAIN inflight' : inflight'[i] = inflight[i]
      BY <3>1
    <3>5. \A d \in Chunk : Calling(d)' =>
                Id(d)' \in DOMAIN inflight' /\ inflight'[Id(d)'] = thread'[d].age
      BY <2>2, <2>6, <3>2, <3>3, <3>4 DEF Entered
    <3>6. \A i \in DOMAIN inflight' : \E d \in Chunk : Calling(d)' /\ i = Id(d)'
      <4> SUFFICES ASSUME NEW i \in DOMAIN inflight, i # Id(c)
                   PROVE  \E d \in Chunk : Calling(d)' /\ i = Id(d)'
        BY <3>4
      <4>1. PICK d \in Chunk : Calling(d) /\ i = Id(d)
        BY <3>3 DEF Entered
      <4> QED BY <2>6, <4>1
    <3> QED BY <2>5, <3>5, <3>6 DEF Entered
  <2>10. ASSUME ~Attempt(c), ~WhisperAnswers(c), ~CallRaises(c), stt # "groq"
         PROVE  Entered'
    <3>1. inflight' = inflight /\ ~Calling(c)
      BY <1>2, <2>10 DEF RequestStep, GroqServes, GroqRead, Resumes, Extracted, Record,
                         PostProcessRaises, Calling
    <3> QED BY <2>2, <2>3, <2>4, <2>10, <3>1, EnteredStands DEF Calling, Entered
  <2> QED BY <2>7, <2>8, <2>9, <2>10
<1>3. ASSUME inflight' = inflight, stt' = stt, thread' = thread
      PROVE  Entered'
  BY <1>3 DEF Entered, Calling, Id
<1>4. ASSUME NEW k \in Client, Arrives(k) \/ GivesUp(k)
      PROVE  Entered'
  BY <1>3, <1>4 DEF Arrives, GivesUp, taskVars
<1>5. CASE Midnight \/ Hangs \/ Loaded \/ Look \/ RestartFails \/ Cooled
  BY <1>3, <1>5 DEF Midnight, Hangs, Loaded, Look, RestartFails, Cooled, taskVars
<1>6. CASE Restart
  <2>1. inflight' = inflight /\ stt' = stt
    BY <1>6 DEF Restart
  <2> QED BY <1>6, <2>1, RestartMoves, EnteredStands DEF Calling, Entered
<1>7. CASE Tick
  <2>1. inflight' = [i \in DOMAIN inflight |-> inflight[i] + 1] /\ stt' = stt
    BY <1>7 DEF Tick
  <2>2. \A c \in Chunk : (Calling(c)' <=> Calling(c)) /\ Id(c)' = Id(c)
    BY <1>7, TickMoves DEF Calling, Id
  <2>3. \A c \in Chunk : thread'[c].age = IF Calling(c) THEN thread[c].age + 1 ELSE thread[c].age
    BY <1>7, TickMoves
  <2> QED BY <2>1, <2>2, <2>3 DEF Entered
<1>8. CASE UNCHANGED transcriptionVars
  BY <1>3, <1>8 DEF transcriptionVars, taskVars
<1> QED
  BY <1>1, <1>2, <1>4, <1>5, <1>6, <1>7, <1>8 DEF TranscriptionNext, RequestStep

(* The watchdog's table holds exactly the calls in flight, at their true ages,   *)
(* however many clients there are and whatever fails.                           *)
THEOREM TableIsExact == TranscriptionSpec => [](TypeOK /\ Entered /\ InflightExact)
<1>1. TranscriptionInit => Entered
  BY UnsentIs DEF TranscriptionInit, Entered, Calling
<1>2. TypeOK /\ Entered /\ [TranscriptionNext]_transcriptionVars => Entered'
  BY EnteredStep
<1> QED BY <1>1, <1>2, EnteredIsExact, TranscriptionTypeOK, PTL DEF TranscriptionSpec

-----------------------------------------------------------------------------
(* The watchdog sees the oldest call.                                          *)
LEMMA OldestIsOldest ==
    ASSUME TypeOK, Entered, stt = "whisper_cpp", NEW B \in Nat,
           \A d \in Chunk : Calling(d) => thread[d].age <= B,
           NEW c \in Chunk, Calling(c)
    PROVE  inflight # <<>> /\ OldestInflightAge \in Nat /\ thread[c].age <= OldestInflightAge
<1> DEFINE S == {inflight[i] : i \in DOMAIN inflight}
<1>1. thread[c].age \in S /\ Id(c) \in DOMAIN inflight
  BY DEF Entered
<1>2. \A a \in S : a \in Nat /\ a <= B
  <2> SUFFICES ASSUME NEW i \in DOMAIN inflight
               PROVE  inflight[i] \in Nat /\ inflight[i] <= B
    OBVIOUS
  <2>1. PICK d \in Chunk : Calling(d) /\ i = Id(d)
    BY DEF Entered
  <2>2. thread[d] \in Threads
    BY DEF TypeOK
  <2> QED BY <2>1, <2>2 DEF Entered, Threads
<1>3. S \in SUBSET Nat /\ S # {} /\ \A a \in S : a <= B
  BY <1>1, <1>2
<1> HIDE DEF S
<1>4. \E m \in S : \A k \in S : m >= k
  BY <1>3, GreatestNat
<1>5. Furthest(S) \in S /\ \A k \in S : Furthest(S) >= k
  BY <1>4 DEF Furthest
<1>6. inflight # <<>>
  BY <1>1
<1> QED BY <1>1, <1>2, <1>3, <1>5, <1>6 DEF OldestInflightAge, S

(* The age a call may have when the watchdog has just looked in vain or has      *)
(* cooled down, n failed restarts on.                                          *)
Bound(n) == STUCK_THRESHOLD_S + n * Round

Grace == IF watchdog.pc = "wait" THEN WATCHDOG_POLL_S
         ELSE IF watchdog.pc = "restart" THEN WATCHDOG_POLL_S + KILL_TIMEOUT ELSE 0

LEMMA Rounds ==
    /\ STUCK_THRESHOLD_S \in Nat /\ WATCHDOG_POLL_S \in Nat /\ RESTART_COOLDOWN_S \in Nat
    /\ KILL_TIMEOUT \in Nat /\ RELOAD \in Nat
    /\ RESTART_COOLDOWN_S <= STUCK_THRESHOLD_S + RELOAD
    /\ Round = KILL_TIMEOUT + RESTART_COOLDOWN_S + WATCHDOG_POLL_S
BY TranscriptionAssumption DEF Round

LEMMA BoundGrows ==
    ASSUME NEW n \in Nat
    PROVE  /\ Bound(n) \in Nat /\ Bound(n) >= STUCK_THRESHOLD_S
           /\ Bound(n + 1) = Bound(n) + Round
           /\ n # 0 => Bound(n) >= Round
<1>1. Round \in Nat
  BY Rounds
<1> HIDE DEF Round
<1>2. n * Round \in Nat /\ (n + 1) * Round = n * Round + Round
  BY <1>1
<1>3. n # 0 => n * Round >= Round
  <2> SUFFICES ASSUME n # 0
               PROVE  n * Round >= Round
    OBVIOUS
  <2>1. n - 1 \in Nat
    OBVIOUS
  <2>2. (n - 1) * Round \in Nat /\ n * Round = (n - 1) * Round + Round
    BY <1>1, <2>1
  <2> QED BY <1>1, <2>2
<1> DEFINE p == n * Round
           q == (n + 1) * Round
<1>4. Bound(n) = STUCK_THRESHOLD_S + p /\ Bound(n + 1) = STUCK_THRESHOLD_S + q
  BY DEF Bound
<1>5. p \in Nat /\ q = p + Round /\ (n # 0 => p >= Round)
  BY <1>2, <1>3
<1> HIDE DEF p, q
<1> QED BY <1>1, <1>4, <1>5, Rounds

(* How long each step of the watchdog still takes, and that a call the server    *)
(* may yet answer cannot outlive what is left of them: after a restart there is  *)
(* none until the model is loaded, and by then the cooldown is nearly over.     *)
Phases ==
    /\ watchdog.left \in Nat
    /\ watchdog.pc = "wait" => watchdog.left <= WATCHDOG_POLL_S
    /\ watchdog.pc = "restart" => watchdog.left <= KILL_TIMEOUT
    /\ watchdog.pc = "cooldown" => watchdog.left <= RESTART_COOLDOWN_S
    /\ server = "down" => loading \in Nat
    /\ stuckOn = 0 /\ watchdog.pc = "cooldown" =>
          watchdog.left + RELOAD <= RESTART_COOLDOWN_S + (IF server = "down" THEN loading ELSE 0)

Aged ==
    \A c \in Chunk : Calling(c) =>
        /\ thread[c].age <= Bound(stuckOn) + WATCHDOG_POLL_S + KILL_TIMEOUT
        /\ thread[c].live =>
             server # "down" /\ thread[c].age + watchdog.left <= Bound(stuckOn) + Grace

Watched == stt = "whisper_cpp" => Phases /\ Aged

(* A step that no call ages by, and the watchdog and the server do not notice.    *)
LEMMA WatchedStands ==
    ASSUME Watched, stt' = stt, watchdog' = watchdog, server' = server, loading' = loading,
           stuckOn' = stuckOn,
           \A c \in Chunk : thread'[c].pc = "call" =>
                /\ Calling(c)
                /\ thread'[c].age = thread[c].age /\ thread'[c].live = thread[c].live
    PROVE  Watched'
<1>1. stt = "whisper_cpp" => Phases'
  BY DEF Watched, Phases
<1>2. stt = "whisper_cpp" => Aged'
  BY DEF Watched, Aged, Calling, Grace
<1> QED BY <1>1, <1>2 DEF Watched

LEMMA WatchedStep ==
    ASSUME TypeOK, Entered, Watched, [TranscriptionNext]_transcriptionVars
    PROVE  Watched'
<1>0. thread \in [Chunk -> Threads] /\ stuckOn \in Nat
  BY DEF TypeOK
<1>typed. \A c \in Chunk : thread[c].age \in Nat
  BY <1>0 DEF Threads
<1>bounded. /\ Bound(stuckOn) \in Nat /\ Bound(stuckOn) >= STUCK_THRESHOLD_S
            /\ Bound(stuckOn + 1) = Bound(stuckOn) + Round
            /\ stuckOn # 0 => Bound(stuckOn) >= Round
  BY <1>0, BoundGrows
<1>watched. watchdog.left \in Int /\ watchdog.pc \in {"wait", "restart", "cooldown"}
      /\ [watchdog EXCEPT !.left = WATCHDOG_POLL_S].pc = watchdog.pc
      /\ [watchdog EXCEPT !.left = WATCHDOG_POLL_S].left = WATCHDOG_POLL_S
      /\ [watchdog EXCEPT !.left = @ - 1].pc = watchdog.pc
      /\ [watchdog EXCEPT !.left = @ - 1].left = watchdog.left - 1
  BY DEF TypeOK, Watches
<1>1. CASE stt # "whisper_cpp"
  <2>1. stt' = stt
    BY DEF TranscriptionNext, Send, Arrives, GivesUp, Attempt, WhisperAnswers, CallRaises, GroqServes,
           GroqRead, Resumes, Extracted, Record, PostProcessRaises, Midnight, Hangs, Loaded, Look,
           Restart, RestartFails, Cooled, Tick, transcriptionVars
  <2> QED BY <1>1, <2>1 DEF Watched
<1> SUFFICES ASSUME stt = "whisper_cpp"
             PROVE  Watched'
  BY <1>1
<1>2. Phases /\ Aged
  BY DEF Watched
<1>3. ASSUME NEW k \in Client, Send(k)
      PROVE  Watched'
  <2>1. \E c \in NextOf(k), t \in Threads :
            thread' = [thread EXCEPT ![c] = t] /\ t.pc \in {"ready", "done"}
    BY <1>3, SendMoves
  <2>2. PICK c \in NextOf(k), t \in Threads :
            thread' = [thread EXCEPT ![c] = t] /\ t.pc \in {"ready", "done"}
    BY <2>1
  <2>3. \A d \in Chunk : thread'[d] = IF d = c THEN t ELSE thread[d]
    BY <1>0, <2>2 DEF NextOf
  <2>4. UNCHANGED <<stt, serverVars>>
    BY <1>3 DEF Send
  <2> QED BY <2>2, <2>3, <2>4, WatchedStands DEF Calling, serverVars
<1>4. ASSUME NEW c \in Chunk, RequestStep(c)
      PROVE  Watched'
  <2>1. PICK t \in Threads, h \in {"nothing", "noise", "speech"} : Moves(c, t, h)
    BY <1>4, RequestMoves
  <2>2. \A d \in Chunk : thread'[d] = IF d = c THEN t ELSE thread[d]
    BY <1>0, <2>1 DEF Moves
  <2>3. /\ stt' = stt /\ (t.pc = "call" <=> Attempt(c)) /\ t.age = 0
        /\ t.pc = "call" /\ t.live => server # "down"
    BY <2>1 DEF Moves, Entered, Calling
  <2>4. server' = server /\ loading' = loading /\ stuckOn' = stuckOn /\ watchdog' = watchdog
    BY <1>4 DEF RequestStep, Attempt, WhisperAnswers, CallRaises, GroqServes, GroqRead, Resumes,
                Extracted, Record, PostProcessRaises, serverVars
  <2>5. Phases'
    BY <1>2, <2>4 DEF Phases
  <2>6. server # "down" => watchdog.left <= Bound(stuckOn) + Grace
    BY <1>0, <1>2, <1>bounded, <1>watched, Rounds DEF Phases, Grace
  <2>7. ASSUME NEW d \in Chunk, Calling(d)'
        PROVE  /\ thread'[d].age <= Bound(stuckOn') + WATCHDOG_POLL_S + KILL_TIMEOUT
               /\ thread'[d].live => /\ server' # "down"
                                     /\ thread'[d].age + watchdog'.left <= Bound(stuckOn') + Grace'
    <3>1. CASE d = c
      BY <1>bounded, <1>watched, <2>2, <2>3, <2>4, <2>6, <2>7, <3>1, Rounds DEF Calling, Grace
    <3>2. CASE d # c
      BY <1>2, <2>2, <2>4, <2>7, <3>2 DEF Calling, Aged, Grace
    <3> QED BY <3>1, <3>2
  <2> QED BY <2>5, <2>7 DEF Watched, Aged
<1>5. ASSUME NEW k \in Client, Arrives(k) \/ GivesUp(k)
      PROVE  Watched'
  BY <1>5, WatchedStands DEF Arrives, GivesUp, taskVars, serverVars, Calling
<1>6. CASE Midnight
  BY <1>6 DEF Midnight
<1>7. CASE Hangs
  <2>1. server = "up" /\ server' = "hung" /\ UNCHANGED <<stt, thread, loading, watchdog, stuckOn>>
    BY <1>7 DEF Hangs, taskVars
  <2>2. Phases'
    BY <1>2, <2>1 DEF Phases
  <2>3. Aged'
    BY <1>2, <2>1 DEF Aged, Calling, Grace
  <2> QED BY <2>2, <2>3 DEF Watched
<1>8. CASE Loaded
  <2>1. server = "down" /\ loading = 0 /\ server' = "up"
        /\ UNCHANGED <<stt, thread, loading, watchdog, stuckOn>>
    BY <1>8 DEF Loaded, taskVars
  <2>2. Phases'
    BY <1>2, <2>1 DEF Phases
  <2>3. Aged'
    BY <1>2, <2>1 DEF Aged, Calling, Grace
  <2> QED BY <2>2, <2>3 DEF Watched
<1>9. CASE Look
  <2>1. /\ watchdog.pc = "wait" /\ watchdog.left = 0
        /\ UNCHANGED <<stt, thread, server, loading, stuckOn>>
    BY <1>9 DEF Look, taskVars
  <2>2. CASE inflight # <<>> /\ OldestInflightAge >= STUCK_THRESHOLD_S
    <3>1. watchdog' = [pc |-> "restart", left |-> KILL_TIMEOUT]
      BY <1>9, <2>2 DEF Look
    <3>2. watchdog'.pc = "restart" /\ watchdog'.left = KILL_TIMEOUT
      BY <3>1
    <3>3. Phases'
      BY <1>2, <2>1, <3>2, Rounds DEF Phases
    <3>4. Aged'
      BY <1>2, <1>bounded, <1>typed, <2>1, <3>2, Rounds DEF Aged, Calling, Grace
    <3> QED BY <3>3, <3>4 DEF Watched
  <2>3. CASE ~(inflight # <<>> /\ OldestInflightAge >= STUCK_THRESHOLD_S)
    <3>1. watchdog'.pc = "wait" /\ watchdog'.left = WATCHDOG_POLL_S
      BY <1>9, <1>watched, <2>1, <2>3 DEF Look
    <3>2. Phases'
      BY <1>2, <2>1, <3>1, Rounds DEF Phases
    <3>3. ASSUME NEW c \in Chunk, Calling(c)
          PROVE  thread[c].age <= STUCK_THRESHOLD_S
      <4>1. PICK B \in Nat : B = Bound(stuckOn) + WATCHDOG_POLL_S + KILL_TIMEOUT
        BY <1>bounded, Rounds
      <4>2. \A d \in Chunk : Calling(d) => thread[d].age <= B
        BY <1>2, <4>1 DEF Aged
      <4>3. /\ inflight # <<>> /\ OldestInflightAge \in Nat
            /\ thread[c].age <= OldestInflightAge
        BY <3>3, <4>2, OldestIsOldest
      <4> QED BY <1>typed, <2>3, <4>3, Rounds
    <3>4. Aged'
      BY <1>2, <1>bounded, <1>typed, <2>1, <3>1, <3>3, Rounds DEF Aged, Calling, Grace
    <3> QED BY <3>2, <3>4 DEF Watched
  <2> QED BY <2>2, <2>3
<1>10. CASE Restart
  <2>1. /\ server' = "down" /\ loading' = RELOAD /\ stuckOn' = stuckOn /\ stt' = stt
        /\ watchdog' = [pc |-> "cooldown", left |-> RESTART_COOLDOWN_S]
    BY <1>10 DEF Restart
  <2>2. watchdog'.pc = "cooldown" /\ watchdog'.left = RESTART_COOLDOWN_S
    BY <2>1
  <2>3. Phases'
    BY <2>1, <2>2, Rounds DEF Phases
  <2>4. ASSUME NEW c \in Chunk
        PROVE  thread'[c].pc = thread[c].pc /\ thread'[c].age = thread[c].age
               /\ (Calling(c) => ~thread'[c].live)
    BY <1>10, RestartMoves
  <2>5. Aged'
    BY <1>2, <2>1, <2>4 DEF Aged, Calling
  <2> QED BY <2>3, <2>5 DEF Watched
<1>11. CASE RestartFails
  <2>1. /\ watchdog.pc = "restart" /\ watchdog.left = 0 /\ stuckOn' = stuckOn + 1
        /\ watchdog' = [pc |-> "cooldown", left |-> RESTART_COOLDOWN_S]
        /\ UNCHANGED <<stt, thread, server, loading>>
    BY <1>11 DEF RestartFails, taskVars
  <2>2. watchdog'.pc = "cooldown" /\ watchdog'.left = RESTART_COOLDOWN_S
    BY <2>1
  <2>3. Phases'
    BY <1>0, <1>2, <2>1, <2>2, Rounds DEF Phases
  <2>4. Bound(stuckOn') = Bound(stuckOn) + Round
    BY <1>bounded, <2>1
  <2>5. Aged'
    BY <1>2, <1>bounded, <1>typed, <2>1, <2>2, <2>4, Rounds DEF Aged, Calling, Grace
  <2> QED BY <2>3, <2>5 DEF Watched
<1>12. CASE Cooled
  <2>1. /\ watchdog.pc = "cooldown" /\ watchdog.left = 0
        /\ watchdog' = [pc |-> "wait", left |-> WATCHDOG_POLL_S]
        /\ UNCHANGED <<stt, thread, server, loading, stuckOn>>
    BY <1>12 DEF Cooled, taskVars
  <2>2. watchdog'.pc = "wait" /\ watchdog'.left = WATCHDOG_POLL_S
    BY <2>1
  <2>3. Phases'
    BY <1>2, <2>1, <2>2, Rounds DEF Phases
  <2>4. Aged'
    BY <1>2, <1>bounded, <1>typed, <2>1, <2>2, Rounds DEF Aged, Calling, Grace
  <2> QED BY <2>3, <2>4 DEF Watched
<1>13. CASE Tick
  <2>1. /\ watchdog.left > 0 /\ watchdog' = [watchdog EXCEPT !.left = @ - 1]
        /\ server = "down" => loading > 0
        /\ loading' = IF server = "down" THEN loading - 1 ELSE loading
        /\ UNCHANGED <<stt, server, stuckOn>>
    BY <1>13 DEF Tick
  <2>2. watchdog'.pc = watchdog.pc /\ watchdog'.left = watchdog.left - 1
    BY <1>watched, <2>1
  <2>3. Phases'
    BY <1>2, <2>1, <2>2, <1>watched, Rounds DEF Phases
  <2>4. ASSUME NEW c \in Chunk, Calling(c)
        PROVE  thread[c].live
    BY <1>13, <2>4 DEF Tick, Idle, Calling
  <2>5. ASSUME NEW c \in Chunk
        PROVE  thread'[c].pc = thread[c].pc /\ thread'[c].live = thread[c].live
               /\ (Calling(c) => thread'[c].age = thread[c].age + 1)
    BY <1>13, TickMoves
  <2>6. Grace' = Grace /\ Grace \in Nat /\ Grace <= WATCHDOG_POLL_S + KILL_TIMEOUT
    BY <2>2, Rounds DEF Grace
  <2>7. Aged'
    <3> HIDE DEF Grace
    <3> QED BY <1>2, <1>bounded, <1>typed, <1>watched, <2>1, <2>2, <2>4, <2>5, <2>6, Rounds
            DEF Aged, Calling
  <2> QED BY <2>3, <2>7 DEF Watched
<1>14. CASE UNCHANGED transcriptionVars
  BY <1>14, WatchedStands DEF transcriptionVars, taskVars, serverVars, Calling
<1> QED
  BY <1>3, <1>4, <1>5, <1>6, <1>7, <1>8, <1>9, <1>10, <1>11, <1>12, <1>13, <1>14
  DEF TranscriptionNext, RequestStep

(* No call outlives the threshold by more than a poll and a kill, and a round    *)
(* for each restart that was refused, whatever else is in flight.               *)
THEOREM StuckCallsAreCutShort == TranscriptionSpec => []StuckIsCutShort
<1>1. TranscriptionInit => Watched
  <2> SUFFICES ASSUME TranscriptionInit
               PROVE  Phases /\ Aged
    BY DEF Watched
  <2>1. watchdog.pc = "wait" /\ watchdog.left = WATCHDOG_POLL_S /\ server = "up"
    BY DEF TranscriptionInit
  <2>2. Phases
    BY <2>1, Rounds DEF Phases
  <2>3. Aged
    BY UnsentIs DEF Aged, TranscriptionInit, Calling
  <2> QED BY <2>2, <2>3
<1>2. TypeOK /\ Entered /\ Watched /\ [TranscriptionNext]_transcriptionVars => Watched'
  BY WatchedStep
<1>3. TypeOK /\ Watched => StuckIsCutShort
  <2> SUFFICES ASSUME TypeOK, Watched, NEW c \in Chunk, stt = "whisper_cpp", Calling(c)
               PROVE  thread[c].age <= STUCK_THRESHOLD_S + WATCHDOG_POLL_S + KILL_TIMEOUT
                                       + stuckOn * Round
    BY DEF StuckIsCutShort
  <2>1. thread[c].age <= STUCK_THRESHOLD_S + stuckOn * Round + WATCHDOG_POLL_S + KILL_TIMEOUT
    BY DEF Watched, Aged, Bound
  <2>2. stuckOn \in Int /\ Round \in Int /\ thread[c].age \in Nat
    <3>1. thread[c] \in Threads
      BY DEF TypeOK
    <3>2. stuckOn \in Nat
      BY DEF TypeOK
    <3> QED BY <3>1, <3>2, Rounds DEF Threads
  <2>3. PICK p \in Int : p = stuckOn * Round
    BY <2>2
  <2> QED BY <2>1, <2>2, <2>3, Rounds
<1> QED BY <1>1, <1>2, <1>3, TableIsExact, PTL DEF TranscriptionSpec

-----------------------------------------------------------------------------
(* A client's chunks are settled in their order: none is sent before each that   *)
(* came earlier was answered or given up, and what was given up stays so.  What  *)
(* is in the journal is done with.                                             *)
Settled ==
    /\ \A c, d \in Chunk : thread[c].pc # "unsent" /\ c[1] = d[1] /\ d[2] < c[2] => shown[d] # "nothing"
    /\ \A c \in Chunk : thread[c].pc = "unsent" => shown[c] = "nothing"
    /\ \A c \in Chunk : shown[c] \notin {"nothing", "timed out"} => thread[c].pc = "done"

Awaited ==
    \A k \in Client : patience[k].chunk # Nobody =>
        /\ patience[k].chunk[1] = k
        /\ thread[patience[k].chunk].pc # "unsent" /\ shown[patience[k].chunk] = "nothing"

Journalled ==
    /\ \A i \in 1..Len(journal) : thread[journal[i]].pc = "done"
    /\ \A i, j \in 1..Len(journal) : journal[i] = journal[j] => i = j
    /\ OutOfOrderOnlyAfterTimeout

Ordered == Settled /\ Awaited /\ Journalled

LEMMA ChunkIs ==
    ASSUME NEW c \in Chunk
    PROVE  /\ c[1] \in Client /\ c[2] \in Nat \ {0}
           /\ \A d \in Chunk : c[1] = d[1] /\ c[2] = d[2] => c = d
           /\ \A d \in Chunk : c[1] = d[1] /\ d[2] < c[2] =>
                                  d[2] \in 1..(c[2] - 1) /\ <<c[1], d[2]>> = d
<1>1. \A d \in Chunk : d = <<d[1], d[2]>> /\ d[1] \in Client /\ d[2] \in Nat \ {0}
  BY TranscriptionAssumption
<1> QED BY <1>1

(* Where a request's thread is moved, and a client is not told yet.              *)
LEMMA SettledStands ==
    ASSUME Settled, Awaited, shown' = shown, patience' = patience,
           \A c \in Chunk : /\ thread'[c].pc = "unsent" <=> thread[c].pc = "unsent"
                            /\ thread[c].pc = "done" => thread'[c].pc = "done",
           \A k \in Client : patience[k].chunk \in Chunk \union {Nobody}
    PROVE  Settled' /\ Awaited'
<1>1. Settled'
  BY DEF Settled
<1>2. Awaited'
  BY DEF Awaited
<1> QED BY <1>1, <1>2

LEMMA JournalStands ==
    ASSUME Journalled, journal' = journal,
           \A i \in 1..Len(journal) : journal[i] \in Chunk,
           \A c \in Chunk : thread[c].pc = "done" => thread'[c].pc = "done",
           \A c \in Chunk : shown[c] = "timed out" => shown'[c] = "timed out"
    PROVE  Journalled'
BY DEF Journalled, OutOfOrderOnlyAfterTimeout

LEMMA OrderedStep ==
    ASSUME TypeOK, Ordered, [TranscriptionNext]_transcriptionVars
    PROVE  Ordered'
<1>0. /\ thread \in [Chunk -> Threads] /\ patience \in [Client -> Waits]
      /\ shown \in [Chunk -> {"nothing", "timed out"} \union Replies]
  BY DEF TypeOK
<1>listed. journal \in Seq(Chunk)
  BY DEF TypeOK
<1>watched. \A k \in Client : patience[k].chunk \in Chunk \union {Nobody}
  BY <1>0 DEF Waits
<1>ordered. Settled /\ Awaited /\ Journalled /\ \A i \in 1..Len(journal) : journal[i] \in Chunk
  BY <1>listed DEF Ordered
<1>1. ASSUME NEW k \in Client, Send(k)
      PROVE  Ordered'
  <2>1. \E c \in NextOf(k), t \in Threads :
            /\ thread' = [thread EXCEPT ![c] = t] /\ t.pc \in {"ready", "done"}
            /\ patience' = [patience EXCEPT ![k] = [chunk |-> c, age |-> 0]]
    BY <1>1, SendMoves
  <2>2. PICK c \in NextOf(k), t \in Threads :
            /\ thread' = [thread EXCEPT ![c] = t] /\ t.pc \in {"ready", "done"}
            /\ patience' = [patience EXCEPT ![k] = [chunk |-> c, age |-> 0]]
    BY <2>1
  <2>3. /\ c \in Chunk /\ c[1] = k /\ thread[c].pc = "unsent"
        /\ \A n \in 1..(c[2] - 1) : shown[<<k, n>>] # "nothing"
    BY DEF NextOf
  <2>4. \A d \in Chunk : thread'[d] = IF d = c THEN t ELSE thread[d]
    BY <1>0, <2>2, <2>3
  <2>5. shown' = shown /\ journal' = journal
    BY <1>1 DEF Send, recordVars
  <2>6. \A d \in Chunk : c[1] = d[1] /\ d[2] < c[2] => shown[d] # "nothing"
    BY <2>3, ChunkIs
  <2>7. Settled'
    <3>1. ASSUME NEW b \in Chunk, NEW d \in Chunk,
                 thread'[b].pc # "unsent", b[1] = d[1], d[2] < b[2]
          PROVE  shown'[d] # "nothing"
      <4>1. CASE b = c
        BY <2>5, <2>6, <3>1, <4>1
      <4>2. CASE b # c
        <5>1. thread[b].pc # "unsent"
          BY <2>4, <3>1, <4>2
        <5>2. shown[d] # "nothing"
          BY <1>ordered, <3>1, <5>1 DEF Settled
        <5> QED BY <2>5, <5>2
      <4> QED BY <4>1, <4>2
    <3>2. \A d \in Chunk : thread'[d].pc = "unsent" => shown'[d] = "nothing"
      BY <1>ordered, <2>2, <2>4, <2>5 DEF Settled
    <3>3. \A d \in Chunk : shown'[d] \notin {"nothing", "timed out"} => thread'[d].pc = "done"
      BY <1>ordered, <2>3, <2>4, <2>5 DEF Settled
    <3> QED BY <3>1, <3>2, <3>3 DEF Settled
  <2>8. /\ patience'[k].chunk = c /\ shown[c] = "nothing"
        /\ \A l \in Client \ {k} : patience'[l] = patience[l]
    BY <1>0, <1>ordered, <2>2, <2>3 DEF Settled
  <2>9. Awaited'
    BY <1>ordered, <1>watched, <2>2, <2>3, <2>4, <2>5, <2>8 DEF Awaited
  <2>10. Journalled'
    BY <1>ordered, <2>2, <2>3, <2>4, <2>5, JournalStands
  <2> QED BY <2>7, <2>9, <2>10 DEF Ordered
<1>2. ASSUME NEW k \in Client, Arrives(k) \/ GivesUp(k)
      PROVE  Ordered'
  <2>1. PICK c \in Chunk : c = patience[k].chunk
    BY <1>watched, <1>2 DEF Arrives, GivesUp
  <2>2. /\ patience' = [patience EXCEPT ![k] = [chunk |-> Nobody, age |-> 0]]
        /\ thread' = thread /\ journal' = journal /\ c # Nobody
    BY <1>2, <2>1 DEF Arrives, GivesUp, taskVars, recordVars
  <2>3. PICK s : /\ shown' = [shown EXCEPT ![c] = s]
                 /\ s = "timed out" \/ (s = thread[c].reply /\ thread[c].pc = "done")
    BY <1>2, <2>1 DEF Arrives, GivesUp
  <2>4. thread[c].reply \in Replies /\ s # "nothing"
        /\ (s # "timed out" => thread[c].pc = "done")
    BY <1>0, <2>3 DEF Threads, Replies
  <2>5. \A d \in Chunk : shown'[d] = IF d = c THEN s ELSE shown[d]
    BY <1>0, <2>3
  <2>6. c[1] = k /\ thread[c].pc # "unsent" /\ shown[c] = "nothing"
    BY <1>ordered, <2>1, <2>2 DEF Awaited
  <2>7. Settled'
    BY <1>ordered, <2>2, <2>4, <2>5, <2>6 DEF Settled
  <2>8. Awaited'
    <3> SUFFICES ASSUME NEW l \in Client, patience'[l].chunk # Nobody
                 PROVE  /\ patience'[l].chunk[1] = l
                        /\ thread'[patience'[l].chunk].pc # "unsent"
                        /\ shown'[patience'[l].chunk] = "nothing"
      BY DEF Awaited
    <3>1. l # k /\ patience'[l] = patience[l]
      BY <1>0, <2>2
    <3>2. patience[l].chunk \in Chunk /\ patience[l].chunk[1] = l
      BY <1>ordered, <1>watched, <3>1 DEF Awaited
    <3> QED BY <1>ordered, <2>2, <2>5, <2>6, <3>1, <3>2 DEF Awaited
  <2>9. Journalled'
    BY <1>ordered, <2>2, <2>5, <2>6, JournalStands
  <2> QED BY <2>7, <2>8, <2>9 DEF Ordered
<1>3. ASSUME NEW c \in Chunk, RequestStep(c)
      PROVE  Ordered'
  <2>1. PICK t \in Threads, h \in {"nothing", "noise", "speech"} : Moves(c, t, h)
    BY <1>3, RequestMoves
  <2>2. \A d \in Chunk : thread'[d] = IF d = c THEN t ELSE thread[d]
    BY <1>0, <2>1 DEF Moves
  <2>3. /\ shown' = shown /\ patience' = patience
        /\ thread[c].pc \notin {"unsent", "done"} /\ t.pc # "unsent"
    BY <2>1 DEF Moves
  <2>4. Settled' /\ Awaited'
    BY <1>ordered, <1>watched, <2>2, <2>3, SettledStands
  <2>5. CASE journal' = journal
    BY <1>ordered, <2>2, <2>3, <2>4, <2>5, JournalStands DEF Ordered
  <2>6. CASE Record(c)
    <3> DEFINE n == Len(journal)
    <3>1. journal' = Append(journal, c)
      BY <2>6 DEF Record
    <3>2. /\ n \in Nat /\ Len(journal') = n + 1 /\ journal'[n + 1] = c
          /\ \A i \in 1..n : journal'[i] = journal[i]
      BY <1>listed, <3>1
    <3> HIDE DEF n
    <3>places. \A i \in 1..(n + 1) : i = n + 1 \/ i \in 1..n
      BY <3>2
    <3>3. t.pc = "done"
      BY <2>2, <2>6, <1>0, RepliedIs DEF Record, WithThread, Replies
    <3>4. \A i \in 1..n : journal[i] # c /\ thread'[journal[i]].pc = "done"
      BY <1>ordered, <2>2, <2>3 DEF Journalled, n
    <3>5. \A i \in 1..Len(journal') : thread'[journal'[i]].pc = "done"
      BY <2>2, <3>2, <3>places, <3>3, <3>4
    <3>6. ASSUME NEW i \in 1..Len(journal'), NEW j \in 1..Len(journal'), journal'[i] = journal'[j]
          PROVE  i = j
      BY <1>ordered, <3>2, <3>places, <3>4, <3>6 DEF Journalled, n
    <3>7. ASSUME NEW i \in 1..Len(journal'), NEW j \in 1..Len(journal'), i < j,
                 journal'[i][1] = journal'[j][1], journal'[j][2] < journal'[i][2]
          PROVE  shown'[journal'[j]] = "timed out"
      <4>1. CASE j = n + 1
        <5>1. i \in 1..n /\ journal'[i] = journal[i] /\ journal'[j] = c
          BY <3>2, <3>7, <4>1
        <5>2. journal[i] \in Chunk /\ thread[journal[i]].pc = "done"
          BY <1>ordered, <5>1 DEF Journalled, n
        <5>3. shown[c] # "nothing"
          BY <1>ordered, <3>7, <5>1, <5>2 DEF Settled
        <5> QED BY <1>ordered, <2>3, <5>1, <5>3 DEF Settled
      <4>2. CASE j # n + 1
        <5>1. i \in 1..n /\ j \in 1..n
          BY <3>2, <3>7, <4>2
        <5>2. journal'[i] = journal[i] /\ journal'[j] = journal[j]
          BY <3>2, <5>1
        <5> QED BY <1>ordered, <2>3, <3>7, <5>1, <5>2 DEF Journalled, OutOfOrderOnlyAfterTimeout, n
      <4> QED BY <4>1, <4>2
    <3>8. Journalled'
      BY <3>5, <3>6, <3>7 DEF Journalled, OutOfOrderOnlyAfterTimeout
    <3> QED BY <2>4, <3>8 DEF Ordered
  <2>7. journal' = journal \/ Record(c)
    BY <1>3 DEF RequestStep, Attempt, WhisperAnswers, CallRaises, GroqServes, GroqRead, Resumes,
                Extracted, PostProcessRaises, recordVars
  <2> QED BY <2>5, <2>6, <2>7
<1>4. ASSUME shown' = shown, patience' = patience, journal' = journal,
             \A c \in Chunk : thread'[c].pc = thread[c].pc
      PROVE  Ordered'
  BY <1>4, <1>ordered, <1>watched, SettledStands, JournalStands DEF Ordered
<1>5. CASE Midnight \/ Hangs \/ Loaded \/ Look \/ RestartFails \/ Cooled
  BY <1>4, <1>5 DEF Midnight, Hangs, Loaded, Look, RestartFails, Cooled, taskVars, clientVars,
                    recordVars
<1>6. CASE Restart
  BY <1>4, <1>6, RestartMoves DEF Restart, clientVars, recordVars
<1>7. CASE Tick
  <2>1. shown' = shown /\ journal' = journal
    BY <1>7 DEF Tick, recordVars
  <2>2. \A c \in Chunk : thread'[c].pc = thread[c].pc
    BY <1>7, TickMoves
  <2>3. \A k \in Client : patience'[k].chunk = patience[k].chunk
    <3> SUFFICES ASSUME NEW k \in Client
                 PROVE  patience'[k].chunk = patience[k].chunk
      OBVIOUS
    <3>1. patience'[k] = IF patience[k].chunk = Nobody THEN patience[k]
                         ELSE [patience[k] EXCEPT !.age = @ + 1]
      BY <1>7 DEF Tick
    <3>2. patience[k] \in Waits
      BY <1>0
    <3> QED BY <3>1, <3>2 DEF Waits
  <2>4. Settled'
    BY <1>ordered, <2>1, <2>2 DEF Settled
  <2>5. Awaited'
    BY <1>ordered, <1>watched, <2>1, <2>2, <2>3 DEF Awaited
  <2>6. Journalled'
    BY <1>ordered, <2>1, <2>2, JournalStands
  <2> QED BY <2>4, <2>5, <2>6 DEF Ordered
<1>8. CASE UNCHANGED transcriptionVars
  BY <1>4, <1>8 DEF transcriptionVars, taskVars, clientVars, recordVars
<1> QED
  BY <1>1, <1>2, <1>3, <1>5, <1>6, <1>7, <1>8 DEF TranscriptionNext, RequestStep

LEMMA OrderedInit == TranscriptionInit => Ordered
<1> SUFFICES ASSUME TranscriptionInit
             PROVE  Ordered
  OBVIOUS
<1>1. /\ \A c \in Chunk : thread[c].pc = "unsent" /\ shown[c] = "nothing"
      /\ \A k \in Client : patience[k].chunk = Nobody
      /\ journal = <<>>
  BY UnsentIs DEF TranscriptionInit
<1>2. Settled
  BY <1>1 DEF Settled
<1>3. Awaited
  BY <1>1 DEF Awaited
<1>4. Journalled
  BY <1>1 DEF Journalled, OutOfOrderOnlyAfterTimeout
<1> QED BY <1>2, <1>3, <1>4 DEF Ordered

(* A client's chunks reach the journal in the order it sent them, unless it had  *)
(* given up on the earlier one; and none twice.                                *)
THEOREM JournalOrder == TranscriptionSpec => [](Ordered /\ OutOfOrderOnlyAfterTimeout)
<1>1. TypeOK /\ Ordered /\ [TranscriptionNext]_transcriptionVars => Ordered'
  BY OrderedStep
<1>2. Ordered => OutOfOrderOnlyAfterTimeout
  BY DEF Ordered, Journalled
<1> QED BY <1>1, <1>2, OrderedInit, TranscriptionTypeOK, PTL DEF TranscriptionSpec

-----------------------------------------------------------------------------
(* Every thread stands rightly by what was heard, and only speech on channel 01  *)
(* has been logged or journalled.                                              *)
Heard ==
    /\ \A c \in Chunk : Rightly(c, thread[c], heard[c])
    /\ \A c \in logged : heard[c] = "speech" /\ c[1] \in Maas
    /\ \A i \in 1..Len(journal) : heard[journal[i]] = "speech" /\ journal[i][1] \in Maas

LEMMA HeardStands ==
    ASSUME Heard, heard' = heard, logged' = logged, journal' = journal,
           \A c \in Chunk : thread'[c].pc = thread[c].pc /\ thread'[c].reply = thread[c].reply
    PROVE  Heard'
BY DEF Heard, Rightly

LEMMA HeardStep ==
    ASSUME TypeOK, Heard, [TranscriptionNext]_transcriptionVars
    PROVE  Heard'
<1>0. /\ thread \in [Chunk -> Threads] /\ logged \in SUBSET Chunk
      /\ heard \in [Chunk -> {"nothing", "noise", "speech"}]
  BY DEF TypeOK
<1>listed. journal \in Seq(Chunk)
  BY DEF TypeOK
<1>1. ASSUME NEW k \in Client, Send(k)
      PROVE  Heard'
  <2>1. \E c \in NextOf(k), t \in Threads :
            /\ thread' = [thread EXCEPT ![c] = t] /\ t.pc \in {"ready", "done"}
            /\ t.pc = "done" => t.reply = "error"
    BY <1>1, SendMoves
  <2>2. PICK c \in NextOf(k), t \in Threads :
            /\ thread' = [thread EXCEPT ![c] = t] /\ t.pc \in {"ready", "done"}
            /\ t.pc = "done" => t.reply = "error"
    BY <2>1
  <2>3. c \in Chunk /\ thread[c].pc = "unsent"
    BY DEF NextOf
  <2>4. \A d \in Chunk : thread'[d] = IF d = c THEN t ELSE thread[d]
    BY <1>0, <2>2, <2>3
  <2>5. heard' = heard /\ logged' = logged /\ journal' = journal
    BY <1>1 DEF Send, recordVars
  <2>6. Rightly(c, thread[c], heard[c])
    BY <2>3 DEF Heard
  <2>7. Rightly(c, t, heard[c])
    BY <2>2, <2>3, <2>6 DEF Rightly
  <2> QED BY <2>3, <2>4, <2>5, <2>7 DEF Heard
<1>2. ASSUME NEW c \in Chunk, RequestStep(c)
      PROVE  Heard'
  <2>1. PICK t \in Threads, h \in {"nothing", "noise", "speech"} : Moves(c, t, h)
    BY <1>2, RequestMoves
  <2>2. \A d \in Chunk : thread'[d] = IF d = c THEN t ELSE thread[d]
    BY <1>0, <2>1 DEF Moves
  <2>3. \A d \in Chunk : heard'[d] = IF d = c THEN h ELSE heard[d]
    BY <1>0, <2>1 DEF Moves
  <2>4. Rightly(c, thread[c], heard[c]) /\ Rightly(c, t, h)
    BY <2>1 DEF Moves, Heard
  <2>5. heard[c] = "speech" => h = "speech"
    <3>1. CASE heard' = heard
      BY <2>3, <3>1
    <3>2. CASE WhisperAnswers(c) \/ GroqRead(c)
      BY <2>4, <3>2 DEF WhisperAnswers, GroqRead, Calling, Rightly
    <3>3. heard' = heard \/ WhisperAnswers(c) \/ GroqRead(c)
      BY <1>2 DEF RequestStep, Attempt, CallRaises, GroqServes, Resumes, Extracted, Record,
                  PostProcessRaises, recordVars
    <3> QED BY <3>1, <3>2, <3>3
  <2>6. \A d \in Chunk : heard[d] = "speech" => heard'[d] = "speech"
    BY <2>3, <2>5
  <2>7. \A d \in Chunk : Rightly(d, thread'[d], heard'[d])
    BY <2>2, <2>3, <2>4 DEF Heard
  <2>8. \A d \in logged' : heard'[d] = "speech" /\ d[1] \in Maas
    <3>1. logged' = logged \/ (Extracted(c) /\ logged' = logged \union {c})
      BY <1>2 DEF RequestStep, Attempt, WhisperAnswers, CallRaises, GroqServes, GroqRead, Resumes,
                  Extracted, Record, PostProcessRaises, recordVars
    <3>2. Extracted(c) => heard[c] = "speech" /\ c[1] \in Maas
      BY <2>4 DEF Extracted, Rightly
    <3> QED BY <1>0, <2>6, <3>1, <3>2 DEF Heard
  <2>9. \A i \in 1..Len(journal') : heard'[journal'[i]] = "speech" /\ journal'[i][1] \in Maas
    <3>1. journal' = journal \/ (Record(c) /\ journal' = Append(journal, c))
      BY <1>2 DEF RequestStep, Attempt, WhisperAnswers, CallRaises, GroqServes, GroqRead, Resumes,
                  Extracted, Record, PostProcessRaises, recordVars
    <3>2. Record(c) => heard[c] = "speech" /\ c[1] \in Maas
      BY <2>4 DEF Record, Rightly
    <3>3. \A i \in 1..Len(journal) : journal[i] \in Chunk
      BY <1>listed
    <3>4. CASE journal' = journal
      BY <2>6, <3>3, <3>4 DEF Heard
    <3>5. CASE Record(c) /\ journal' = Append(journal, c)
      <4> SUFFICES ASSUME NEW i \in 1..Len(journal')
                   PROVE  heard'[journal'[i]] = "speech" /\ journal'[i][1] \in Maas
        OBVIOUS
      <4>1. journal'[i] = c \/ (i \in 1..Len(journal) /\ journal'[i] = journal[i])
        BY <1>listed, <3>5
      <4> QED BY <2>6, <3>2, <3>3, <3>5, <4>1 DEF Heard
    <3> QED BY <3>1, <3>4, <3>5
  <2> QED BY <2>7, <2>8, <2>9 DEF Heard
<1>3. ASSUME NEW k \in Client, Arrives(k) \/ GivesUp(k)
      PROVE  Heard'
  BY <1>3, HeardStands DEF Arrives, GivesUp, taskVars, recordVars
<1>4. CASE Midnight \/ Hangs \/ Loaded \/ Look \/ RestartFails \/ Cooled
  BY <1>4, HeardStands DEF Midnight, Hangs, Loaded, Look, RestartFails, Cooled, taskVars, recordVars
<1>5. CASE Restart
  BY <1>5, RestartMoves, HeardStands DEF Restart, recordVars
<1>6. CASE Tick
  BY <1>6, TickMoves, HeardStands DEF Tick, recordVars
<1>7. CASE UNCHANGED transcriptionVars
  BY <1>7, HeardStands DEF transcriptionVars, taskVars, recordVars
<1> QED
  BY <1>1, <1>2, <1>3, <1>4, <1>5, <1>6, <1>7 DEF TranscriptionNext, RequestStep

(* Whatever fails behind it, speech that was transcribed is answered with its    *)
(* text and noise never is; only speech on channel 01 is logged or journalled,   *)
(* and once.                                                                   *)
THEOREM SpeechIsAnswered == TranscriptionSpec => []SpeechSurvives
<1>1. TranscriptionInit => Heard
  <2> SUFFICES ASSUME TranscriptionInit
               PROVE  Heard
    OBVIOUS
  <2>1. \A c \in Chunk : thread[c].pc = "unsent" /\ heard[c] = "nothing"
    BY UnsentIs DEF TranscriptionInit
  <2>2. logged = {} /\ journal = <<>>
    BY DEF TranscriptionInit
  <2> QED BY <2>1, <2>2 DEF Heard, Rightly
<1>2. TypeOK /\ Heard /\ [TranscriptionNext]_transcriptionVars => Heard'
  BY HeardStep
<1>3. TypeOK /\ Heard /\ Ordered => SpeechSurvives
  <2> SUFFICES ASSUME TypeOK, Heard, Ordered
               PROVE  SpeechSurvives
    OBVIOUS
  <2>1. \A c \in Chunk : thread[c].pc = "done" =>
            thread[c].reply # "none" /\ ((thread[c].reply = "text") <=> (heard[c] = "speech"))
    BY DEF Heard, Rightly
  <2>2. \A i, j \in 1..Len(journal) : journal[i] = journal[j] => i = j
    BY DEF Ordered, Journalled
  <2>3. \A c \in logged \union {journal[i] : i \in 1..Len(journal)} :
            heard[c] = "speech" /\ c[1] \in Maas
    BY DEF Heard
  <2> QED BY <2>1, <2>2, <2>3 DEF SpeechSurvives
<1> QED BY <1>1, <1>2, <1>3, JournalOrder, TranscriptionTypeOK, PTL DEF TranscriptionSpec

-----------------------------------------------------------------------------
(* The mark stands exactly while the lowest count read since the last clear one   *)
(* is low, and is that count's bucket.                                          *)
Marked ==
    /\ lowest \in Nat /\ lowest <= DAILY
    /\ bucket = IF lowest <= GROQ_QUOTA_WARN_AT THEN Bucket(lowest) ELSE NoBucket
    /\ QuotaSaid
    /\ \A c \in Chunk : thread[c].pc = "reading" => thread[c].left \in Nat

LEMMA BucketIs ==
    ASSUME NEW a \in Nat
    PROVE  /\ Bucket(a) \in Nat /\ Bucket(a) <= a
           /\ \A b \in Nat : b <= a => Bucket(b) <= Bucket(a)
<1> DEFINE d == IF GROQ_QUOTA_WARN_STEP > 1 THEN GROQ_QUOTA_WARN_STEP ELSE 1
<1>1. d \in Nat \ {0}
  BY TranscriptionAssumption
<1>2. \A n : Bucket(n) = n \div d
  BY DEF Bucket
<1> HIDE DEF d
<1>3. \A n \in Nat : n \div d \in Nat /\ n = d * (n \div d) + (n % d) /\ n % d \in 0..(d - 1)
  BY <1>1
<1>4. a \div d <= a
  BY <1>1
<1>5. ASSUME NEW b \in Nat, b <= a
      PROVE  b \div d <= a \div d
  BY <1>1, <1>5
<1> QED BY <1>2, <1>3, <1>4, <1>5

LEMMA QuotaRead ==
    ASSUME Marked, NEW left \in Nat, CheckQuota(left)
    PROVE  /\ lowest' \in Nat /\ lowest' <= DAILY
           /\ bucket' = IF lowest' <= GROQ_QUOTA_WARN_AT THEN Bucket(lowest') ELSE NoBucket
           /\ QuotaSaid'
<1>0. /\ GROQ_QUOTA_WARN_AT \in Int /\ GROQ_QUOTA_WARN_AT < DAILY /\ DAILY \in Nat
      /\ NoBucket = DAILY + 1 /\ lowest \in Nat /\ lowest <= DAILY
  BY TranscriptionAssumption DEF NoBucket, Marked
<1>1. CASE left > GROQ_QUOTA_WARN_AT
  <2>1. bucket' = NoBucket /\ lowest' = DAILY
    BY <1>1 DEF CheckQuota, Rearmed
  <2> QED BY <1>0, <2>1 DEF QuotaSaid
<1>2. CASE left <= GROQ_QUOTA_WARN_AT
  <2> DEFINE says == bucket = NoBucket \/ Bucket(left) < bucket
  <2>1. /\ bucket' = IF says THEN Bucket(left) ELSE bucket
        /\ warned' = IF says THEN warned \union {Bucket(left)} ELSE warned
        /\ lowest' = IF left < lowest THEN left ELSE lowest
    BY <1>0, <1>2 DEF CheckQuota, Rearmed
  <2>2. /\ Bucket(left) \in Nat /\ Bucket(lowest) \in Nat /\ Bucket(lowest) <= lowest
        /\ left <= lowest => Bucket(left) <= Bucket(lowest)
        /\ lowest <= left => Bucket(lowest) <= Bucket(left)
    BY <1>0, BucketIs
  <2>3. CASE lowest > GROQ_QUOTA_WARN_AT
    <3>1. bucket = NoBucket /\ left < lowest
      BY <1>0, <1>2, <2>3 DEF Marked
    <3>2. bucket' = Bucket(left) /\ lowest' = left /\ Bucket(left) \in warned'
      BY <2>1, <3>1
    <3> QED BY <1>0, <1>2, <3>2 DEF QuotaSaid
  <2>4. CASE lowest <= GROQ_QUOTA_WARN_AT
    <3>1. bucket = Bucket(lowest) /\ bucket # NoBucket /\ Bucket(lowest) \in warned
      BY <1>0, <2>2, <2>4 DEF Marked, QuotaSaid
    <3>2. bucket' = Bucket(lowest') /\ Bucket(lowest') \in warned' /\ lowest' \in {left, lowest}
      BY <1>0, <2>1, <2>2, <3>1
    <3> QED BY <1>0, <1>2, <2>4, <3>2 DEF QuotaSaid
  <2> QED BY <1>0, <2>3, <2>4
<1> QED BY <1>0, <1>1, <1>2

LEMMA MarkedStep ==
    ASSUME TypeOK, Marked, [TranscriptionNext]_transcriptionVars
    PROVE  Marked'
<1>0. thread \in [Chunk -> Threads]
  BY DEF TypeOK
<1>1. ASSUME bucket' = bucket, warned' = warned, lowest' = lowest,
             \A c \in Chunk : thread'[c].pc = "reading" => thread'[c].left \in Nat
      PROVE  Marked'
  BY <1>1 DEF Marked, QuotaSaid
<1>2. TypeOK' /\ \A c \in Chunk : thread'[c].left \in Nat
  <2>1. TypeOK'
    BY TranscriptionTypes
  <2>2. thread' \in [Chunk -> Threads]
    BY <2>1 DEF TypeOK
  <2> QED BY <2>1, <2>2 DEF Threads
<1>3. ASSUME NEW c \in Chunk, GroqRead(c)
      PROVE  Marked'
  <2>1. thread[c].left \in Nat /\ CheckQuota(thread[c].left)
    BY <1>3 DEF GroqRead, Marked
  <2> QED BY <1>2, <2>1, QuotaRead DEF Marked
<1>4. ASSUME NEW k \in Client, Send(k) \/ Arrives(k) \/ GivesUp(k)
      PROVE  Marked'
  BY <1>1, <1>2, <1>4 DEF Send, Arrives, GivesUp, quotaVars
<1>5. ASSUME NEW c \in Chunk, RequestStep(c), ~GroqRead(c)
      PROVE  Marked'
  <2>1. bucket' = bucket /\ warned' = warned /\ lowest' = lowest
    BY <1>5 DEF RequestStep, Attempt, WhisperAnswers, CallRaises, GroqServes, Resumes, Extracted,
                Record, PostProcessRaises, quotaVars
  <2> QED BY <1>1, <1>2, <2>1
<1>6. CASE Midnight \/ Hangs \/ Loaded \/ Look \/ Restart \/ RestartFails \/ Cooled \/ Tick
  <2>1. bucket' = bucket /\ warned' = warned /\ lowest' = lowest
    BY <1>6 DEF Midnight, Hangs, Loaded, Look, Restart, RestartFails, Cooled, Tick, quotaVars
  <2> QED BY <1>1, <1>2, <2>1
<1>7. CASE UNCHANGED transcriptionVars
  <2>1. bucket' = bucket /\ warned' = warned /\ lowest' = lowest
    BY <1>7 DEF transcriptionVars, quotaVars
  <2> QED BY <1>1, <1>2, <2>1
<1> QED
  BY <1>3, <1>4, <1>5, <1>6, <1>7 DEF TranscriptionNext, RequestStep

(* Since a count above the mark was last read, every low has been warned of, in  *)
(* whatever order the replies were read.                                        *)
THEOREM LowsAreSaid == TranscriptionSpec => []QuotaSaid
<1>1. TranscriptionInit => Marked
  <2> SUFFICES ASSUME TranscriptionInit
               PROVE  Marked
    OBVIOUS
  <2>1. bucket = NoBucket /\ lowest = DAILY /\ \A c \in Chunk : thread[c].pc = "unsent"
    BY UnsentIs DEF TranscriptionInit
  <2> QED BY <2>1, TranscriptionAssumption DEF Marked, QuotaSaid
<1>2. TypeOK /\ Marked /\ [TranscriptionNext]_transcriptionVars => Marked'
  BY MarkedStep
<1>3. Marked => QuotaSaid
  BY DEF Marked
<1> QED BY <1>1, <1>2, <1>3, TranscriptionTypeOK, PTL DEF TranscriptionSpec
===============================================================================
