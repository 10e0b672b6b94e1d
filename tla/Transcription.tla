------------------------------ MODULE Transcription ------------------------------
(***************************************************************************)
(* A chunk on its way to a transcript: WhisperClient sends it and waits a    *)
(* minute at most; a thread of the proxy (do_POST) has a backend transcribe  *)
(* it (backends.py: whisper.cpp with a watchdog beside it, or Groq), works   *)
(* on what came back and answers.  The thread goes on when the client has    *)
(* given up.  Each client sends one chunk at a time, but there may be        *)
(* several clients (the plugin, replay_sessions.py).                         *)
(*                                                                          *)
(* Time is counted in ticks.  What is due happens before the clock moves.    *)
(***************************************************************************)
EXTENDS Integers, Sequences, FiniteSets

CONSTANTS Client, Chunk,         \* bound: each client's chunks, <<client, 1>> and on
          Maas,                  \* the clients tuned to Maas Approach, channel 01
          Backends,              \* values of STT_BACKEND explored
          STUCK_THRESHOLD_S, WATCHDOG_POLL_S, RESTART_COOLDOWN_S,
          KILL_TIMEOUT,          \* subprocess.run(..., timeout=30)
          RELOAD,                \* whisper-server loads its model
          SOCKET_TIMEOUT, GROQ_TIMEOUT_S, GROQ_MAX_RETRY_WAIT_S,
          EXTRACT_TIMEOUT,       \* Claude's timeout, with its retry
          CLIENT_TIMEOUT,        \* WhisperClient's cts
          DAILY, GROQ_QUOTA_WARN_AT, GROQ_QUOTA_WARN_STEP,
          MaxFaults              \* bound: hangs, 5xx, 429, failed steps, midnights

ASSUME TranscriptionAssumption ==
    /\ Chunk \subseteq Client \X (Nat \ {0}) /\ MaxFaults \in Nat
    /\ Backends \subseteq {"groq", "whisper_cpp"}
    /\ STUCK_THRESHOLD_S \in Nat /\ WATCHDOG_POLL_S \in Nat \ {0}
    /\ RESTART_COOLDOWN_S \in Nat /\ KILL_TIMEOUT \in Nat /\ RELOAD \in Nat \ {0}
    /\ STUCK_THRESHOLD_S < SOCKET_TIMEOUT
    /\ RESTART_COOLDOWN_S <= STUCK_THRESHOLD_S + RELOAD  \* 5 s against 25 s and a reload
    /\ GROQ_TIMEOUT_S \in Nat \ {0} /\ GROQ_MAX_RETRY_WAIT_S \in Nat
    /\ EXTRACT_TIMEOUT \in Nat /\ CLIENT_TIMEOUT \in Nat \ {0}
    /\ DAILY \in Nat \ {0} /\ GROQ_QUOTA_WARN_STEP \in Nat
    /\ GROQ_QUOTA_WARN_AT \in Int /\ GROQ_QUOTA_WARN_AT < DAILY

Max_attempts == 2

VARIABLES
    stt,          \* STT_BACKEND, for the life of the process
    thread,       \* per chunk: its request thread
    inflight,     \* _inflight_requests: calls by id, and their age
    server,       \* whisper-server: "up", "hung", or "down" while it loads
    loading,      \* ticks until it is up
    watchdog,     \* _watchdog_loop: "wait", "restart", "cooldown", and its ticks
    patience,     \* per client: the chunk it waits for, and for how long
    shown,        \* per chunk: what the client made of it
    journal,      \* the chunks _record_chunk took, in order
    logged,       \* the chunks in the vessels log
    remaining,    \* Groq's count of requests left today
    bucket,       \* _quota_last_bucket; None is NoBucket
    heard,        \* history: what the audio of a transcribed chunk was
    warned,       \* history: the buckets warned of since a count above the mark
    lowest,       \* history: the lowest count read since then
    stuckOn,      \* history: restarts that did not take
    faults

taskVars    == <<thread, inflight>>
serverVars  == <<server, loading, watchdog, stuckOn>>
clientVars  == <<patience, shown>>
recordVars  == <<journal, logged, heard>>
quotaVars   == <<remaining, bucket, warned, lowest>>
transcriptionVars == <<stt, taskVars, serverVars, clientVars, recordVars, quotaVars, faults>>

NoBucket == DAILY + 1
Nobody   == <<>>

Unsent == [pc |-> "unsent", attempt |-> 0, age |-> 0, live |-> TRUE,
           status |-> 0, left |-> 0, reply |-> "none"]

Replied(reply) == [Unsent EXCEPT !.pc = "done", !.reply = reply]

TranscriptionInit ==
    /\ stt \in Backends
    /\ thread = [c \in Chunk |-> Unsent] /\ inflight = <<>>
    /\ server = "up" /\ loading = 0
    /\ watchdog = [pc |-> "wait", left |-> WATCHDOG_POLL_S] /\ stuckOn = 0
    /\ patience = [k \in Client |-> [chunk |-> Nobody, age |-> 0]]
    /\ shown = [c \in Chunk |-> "nothing"]
    /\ journal = <<>> /\ logged = {} /\ heard = [c \in Chunk |-> "nothing"]
    /\ remaining \in (IF stt = "groq" THEN 1..DAILY ELSE {DAILY})
    /\ bucket = NoBucket /\ warned = {} /\ lowest = DAILY
    /\ faults = 0

Fault == faults < MaxFaults /\ faults' = faults + 1

(* A call in flight, and the id it was given: each attempt has its own.        *)
Calling(c) == thread[c].pc = "call"
Id(c) == <<c, thread[c].attempt>>

WithThread(c, t) == thread' = [thread EXCEPT ![c] = t]

(* A mutant: the loop does not await what it sends.                            *)
NextOfUnawaited(k) == {c \in Chunk : /\ c[1] = k /\ thread[c].pc = "unsent"
                                     /\ \A n \in 1..(c[2] - 1) : thread[<<k, n>>].pc # "unsent"}
-----------------------------------------------------------------------------
(* SendAsync, for one chunk after the other.                                   *)
NextOf(k) == {c \in Chunk : /\ c[1] = k /\ thread[c].pc = "unsent"
                            /\ \A n \in 1..(c[2] - 1) : shown[<<k, n>>] # "nothing"}

(* do_POST refuses a body without a file with 400, before any backend.         *)
Send(k) ==
    /\ \E c \in NextOf(k) :
          /\ \/ WithThread(c, [Unsent EXCEPT !.pc = "ready"]) /\ UNCHANGED faults
             \/ Fault /\ WithThread(c, Replied("error"))
          /\ patience' = [patience EXCEPT ![k] = [chunk |-> c, age |-> 0]]
    /\ UNCHANGED <<stt, inflight, serverVars, shown, recordVars, quotaVars>>

(* The reply arrives, or the client gives up; the thread is not told.          *)
Arrives(k) ==
    LET c == patience[k].chunk
    IN  /\ c # Nobody /\ thread[c].pc = "done"
        /\ shown' = [shown EXCEPT ![c] = thread[c].reply]
        /\ patience' = [patience EXCEPT ![k] = [chunk |-> Nobody, age |-> 0]]
        /\ UNCHANGED <<stt, taskVars, serverVars, recordVars, quotaVars, faults>>

GivesUp(k) ==
    LET c == patience[k].chunk
    IN  /\ c # Nobody /\ patience[k].age = CLIENT_TIMEOUT
        /\ shown' = [shown EXCEPT ![c] = "timed out"]
        /\ patience' = [patience EXCEPT ![k] = [chunk |-> Nobody, age |-> 0]]
        /\ UNCHANGED <<stt, taskVars, serverVars, recordVars, quotaVars, faults>>
-----------------------------------------------------------------------------
(* One attempt: under whisper.cpp it is entered for the watchdog to see, and   *)
(* refused at once while nothing listens.                                      *)
Attempt(c) ==
    /\ thread[c].pc = "ready"
    /\ WithThread(c, [thread[c] EXCEPT !.pc = "call", !.attempt = @ + 1,
                        !.live = (stt = "groq" \/ server # "down")])
    /\ inflight' = IF stt = "groq" THEN inflight
                   ELSE [i \in DOMAIN inflight \union {Id(c)'} |->
                            IF i \in DOMAIN inflight THEN inflight[i] ELSE 0]
    /\ UNCHANGED <<stt, serverVars, clientVars, recordVars, quotaVars, faults>>

(* _inflight_end, in the finally of every attempt.                             *)
InflightEnd(id) == inflight' = [i \in DOMAIN inflight \ {id} |-> inflight[i]]

(* Where a reply of the backend leaves the thread.  5xx is tried once more, and *)
(* under Groq a 429 whose wait is short; another error is final.  What came     *)
(* with 200 is judged: a hallucination or an echo is answered with no text,     *)
(* channel 01 goes to the extractor, the other channels to their corrections.   *)
Final(t, status, wait) ==
    \/ status < 500 /\ status # 429
    \/ status = 429 /\ (stt # "groq" \/ wait > GROQ_MAX_RETRY_WAIT_S)
    \/ t.attempt = Max_attempts

Handles(c, status, wait) ==
    LET t == [Unsent EXCEPT !.attempt = thread[c].attempt]
    IN  IF status = 200
        THEN \/ /\ heard' = [heard EXCEPT ![c] = "noise"]
                /\ WithThread(c, Replied("empty"))
             \/ /\ heard' = [heard EXCEPT ![c] = "speech"]
                /\ WithThread(c, IF c[1] \in Maas
                                 THEN [t EXCEPT !.pc = "extract", !.left = EXTRACT_TIMEOUT]
                                 ELSE Replied("text"))
        ELSE /\ UNCHANGED heard
             /\ WithThread(c, IF Final(t, status, wait) THEN Replied("error")
                              ELSE [t EXCEPT !.pc = "pause", !.left = wait])

WhisperAnswers(c) ==
    /\ stt = "whisper_cpp" /\ Calling(c) /\ thread[c].live /\ server = "up"
    /\ InflightEnd(Id(c))
    /\ \/ Handles(c, 200, 0) /\ UNCHANGED faults
       \/ \E status \in {400, 500} : Fault /\ Handles(c, status, 0)
    /\ UNCHANGED <<stt, serverVars, clientVars, journal, logged, quotaVars>>

(* A mutant: the entry is taken out on the way past the try, not in finally.   *)
CallRaisesLeaking(c) ==
    /\ Calling(c)
    /\ \/ ~thread[c].live /\ UNCHANGED faults
       \/ thread[c].live /\ stt = "groq" /\ Fault
    /\ WithThread(c, Replied("error"))
    /\ UNCHANGED <<stt, inflight, serverVars, clientVars, recordVars, quotaVars>>

(* The connection breaks, is refused, or times out: an exception, and 503.     *)
CallRaises(c) ==
    /\ Calling(c)
    /\ \/ ~thread[c].live /\ UNCHANGED faults
       \/ thread[c].live /\ stt = "whisper_cpp" /\ thread[c].age = SOCKET_TIMEOUT
          /\ UNCHANGED faults
       \/ thread[c].live /\ stt = "groq" /\ Fault
    /\ InflightEnd(Id(c))
    /\ WithThread(c, Replied("error"))
    /\ UNCHANGED <<stt, serverVars, clientVars, recordVars, quotaVars>>

(* Groq counts the request when it serves it,                                  *)
GroqServes(c) ==
    /\ stt = "groq" /\ Calling(c)
    /\ remaining' = IF remaining > 0 THEN remaining - 1 ELSE 0
    /\ \/ /\ remaining > 0
          /\ WithThread(c, [thread[c] EXCEPT !.pc = "reading", !.age = 0, !.status = 200,
                              !.left = remaining'])
          /\ UNCHANGED faults
       \/ \E status \in {400, 429, 500} :
             /\ Fault
             /\ WithThread(c, [thread[c] EXCEPT !.pc = "reading", !.age = 0, !.status = status,
                                 !.left = remaining'])
    /\ UNCHANGED <<stt, inflight, serverVars, clientVars, recordVars, bucket, warned, lowest>>

(* and the thread reads the count from the reply (_check_groq_quota).          *)
Bucket(left) == left \div (IF GROQ_QUOTA_WARN_STEP > 1 THEN GROQ_QUOTA_WARN_STEP ELSE 1)

(* A mutant: yesterday's mark stands.                                          *)
RearmedNever(left) == FALSE

Rearmed(left) == left > GROQ_QUOTA_WARN_AT

CheckQuota(left) ==
    LET says == ~Rearmed(left) /\ left <= GROQ_QUOTA_WARN_AT
                /\ (bucket = NoBucket \/ Bucket(left) < bucket)
        clear == left > GROQ_QUOTA_WARN_AT
    IN  /\ bucket' = IF Rearmed(left) THEN NoBucket
                     ELSE IF says THEN Bucket(left) ELSE bucket
        /\ warned' = IF clear THEN {} ELSE IF says THEN warned \union {Bucket(left)} ELSE warned
        /\ lowest' = IF clear THEN DAILY ELSE IF left < lowest THEN left ELSE lowest

GroqRead(c) ==
    /\ thread[c].pc = "reading"
    /\ CheckQuota(thread[c].left)
    /\ \E wait \in {0, GROQ_MAX_RETRY_WAIT_S, GROQ_MAX_RETRY_WAIT_S + 1} :
          /\ wait > 0 => thread[c].status = 429
          /\ Handles(c, thread[c].status, wait)
    /\ UNCHANGED <<stt, inflight, serverVars, clientVars, journal, logged, remaining, faults>>

(* Midnight at Groq: the allowance is whole again.                             *)
Midnight ==
    /\ stt = "groq" /\ Fault
    /\ remaining' = DAILY
    /\ UNCHANGED <<stt, taskVars, serverVars, clientVars, recordVars, bucket, warned, lowest>>

Resumes(c) ==
    /\ thread[c].pc = "pause" /\ thread[c].left = 0
    /\ WithThread(c, [thread[c] EXCEPT !.pc = "ready"])
    /\ UNCHANGED <<stt, inflight, serverVars, clientVars, recordVars, quotaVars, faults>>
-----------------------------------------------------------------------------
(* The GPU wedges: nothing in flight, and nothing sent since, is answered.     *)
Hangs ==
    /\ stt = "whisper_cpp" /\ server = "up" /\ Fault
    /\ server' = "hung"
    /\ UNCHANGED <<stt, taskVars, loading, watchdog, stuckOn, clientVars, recordVars, quotaVars>>

Loaded ==
    /\ server = "down" /\ loading = 0
    /\ server' = "up"
    /\ UNCHANGED <<stt, taskVars, loading, watchdog, stuckOn, clientVars, recordVars, quotaVars, faults>>

Furthest(S)  == CHOOSE a \in S : \A b \in S : a >= b
NearestOf(S) == CHOOSE a \in S : \A b \in S : a <= b

(* A mutant: the age of the newest request, so traffic hides the stuck one.    *)
NewestInflightAge == NearestOf({inflight[i] : i \in DOMAIN inflight})

OldestInflightAge == Furthest({inflight[i] : i \in DOMAIN inflight})

Look ==
    /\ stt = "whisper_cpp" /\ watchdog.pc = "wait" /\ watchdog.left = 0
    /\ watchdog' = IF inflight # <<>> /\ OldestInflightAge >= STUCK_THRESHOLD_S
                   THEN [pc |-> "restart", left |-> KILL_TIMEOUT]
                   ELSE [watchdog EXCEPT !.left = WATCHDOG_POLL_S]
    /\ UNCHANGED <<stt, taskVars, server, loading, stuckOn, clientVars, recordVars, quotaVars, faults>>

(* _restart_backend: whether its own kill worked or start-whisper-server.sh's, *)
(* everything on the port is gone and a new server loads.                      *)
Restart ==
    /\ watchdog.pc = "restart"
    /\ server' = "down" /\ loading' = RELOAD
    /\ thread' = [c \in Chunk |-> [thread[c] EXCEPT !.live = @ /\ ~Calling(c)]]
    /\ watchdog' = [pc |-> "cooldown", left |-> RESTART_COOLDOWN_S]
    /\ UNCHANGED <<stt, inflight, stuckOn, clientVars, recordVars, quotaVars, faults>>

(* WSL itself does not answer: neither the kill nor the start happens.         *)
RestartFails ==
    /\ watchdog.pc = "restart" /\ watchdog.left = 0 /\ Fault
    /\ stuckOn' = stuckOn + 1
    /\ watchdog' = [pc |-> "cooldown", left |-> RESTART_COOLDOWN_S]
    /\ UNCHANGED <<stt, taskVars, server, loading, clientVars, recordVars, quotaVars>>

Cooled ==
    /\ watchdog.pc = "cooldown" /\ watchdog.left = 0
    /\ watchdog' = [pc |-> "wait", left |-> WATCHDOG_POLL_S]
    /\ UNCHANGED <<stt, taskVars, server, loading, stuckOn, clientVars, recordVars, quotaVars, faults>>
-----------------------------------------------------------------------------
(* extract_vessel answers or fails within its timeout, enrichment looks up,    *)
(* and the row is appended; a failed append is swallowed by itself.            *)
Extracted(c) ==
    /\ thread[c].pc = "extract"
    /\ WithThread(c, [thread[c] EXCEPT !.pc = "record", !.left = 0])
    /\ \/ logged' = logged \union {c} /\ UNCHANGED faults
       \/ UNCHANGED logged /\ Fault
    /\ UNCHANGED <<stt, inflight, serverVars, clientVars, journal, heard, quotaVars>>

(* _add_to_buffer, _record_chunk, and the reply.                               *)
Record(c) ==
    /\ thread[c].pc = "record"
    /\ journal' = Append(journal, c)
    /\ WithThread(c, Replied("text"))
    /\ UNCHANGED <<stt, inflight, serverVars, clientVars, logged, heard, quotaVars, faults>>

(* A mutant: the handler dies with the step.                                   *)
PostProcessDies(c) ==
    /\ thread[c].pc \in {"extract", "record"} /\ Fault
    /\ WithThread(c, Replied("none"))
    /\ UNCHANGED <<stt, inflight, serverVars, clientVars, recordVars, quotaVars>>

(* Any step raises: what is left of the work is lost, the raw text is sent.    *)
PostProcessRaises(c) ==
    /\ thread[c].pc \in {"extract", "record"} /\ Fault
    /\ WithThread(c, Replied("text"))
    /\ UNCHANGED <<stt, inflight, serverVars, clientVars, recordVars, quotaVars>>
-----------------------------------------------------------------------------
(* Nothing is due: the clock moves.                                            *)
Idle(c) ==
    LET t == thread[c]
    IN  /\ t.pc \notin {"ready", "reading", "record"}
        /\ t.pc = "call" => t.live /\ (t.age < IF stt = "groq" THEN GROQ_TIMEOUT_S ELSE SOCKET_TIMEOUT)
        /\ t.pc \in {"pause", "extract"} => t.left > 0

Awake(k) == patience[k].chunk # Nobody =>
                thread[patience[k].chunk].pc # "done" /\ patience[k].age < CLIENT_TIMEOUT

Tick ==
    /\ \A c \in Chunk : Idle(c)
    /\ \A k \in Client : Awake(k)
    /\ \E k \in Client : patience[k].chunk # Nobody \/ inflight # <<>>
                         \/ \E c \in Chunk : thread[c].pc = "extract"
    /\ stt = "whisper_cpp" => watchdog.left > 0
    /\ server = "down" => loading > 0
    /\ thread' = [c \in Chunk |->
          IF thread[c].pc = "call" THEN [thread[c] EXCEPT !.age = @ + 1]
          ELSE IF thread[c].pc \in {"pause", "extract"} THEN [thread[c] EXCEPT !.left = @ - 1]
          ELSE thread[c]]
    /\ inflight' = [i \in DOMAIN inflight |-> inflight[i] + 1]
    /\ patience' = [k \in Client |-> IF patience[k].chunk = Nobody THEN patience[k]
                                     ELSE [patience[k] EXCEPT !.age = @ + 1]]
    /\ watchdog' = IF stt = "whisper_cpp" THEN [watchdog EXCEPT !.left = @ - 1] ELSE watchdog
    /\ loading' = IF server = "down" THEN loading - 1 ELSE loading
    /\ UNCHANGED <<stt, server, stuckOn, shown, recordVars, quotaVars, faults>>

TranscriptionNext ==
    \/ \E k \in Client : Send(k) \/ Arrives(k) \/ GivesUp(k)
    \/ \E c \in Chunk : \/ Attempt(c) \/ WhisperAnswers(c) \/ CallRaises(c)
                        \/ GroqServes(c) \/ GroqRead(c) \/ Resumes(c)
                        \/ Extracted(c) \/ Record(c) \/ PostProcessRaises(c)
    \/ Midnight \/ Hangs \/ Loaded \/ Look \/ Restart \/ RestartFails \/ Cooled
    \/ Tick

TranscriptionSpec == TranscriptionInit /\ [][TranscriptionNext]_transcriptionVars
-----------------------------------------------------------------------------
(* The watchdog's table holds exactly the calls in flight, at their true ages: *)
(* an entry that stayed would have it restart a healthy server for ever, one   *)
(* that went missing would let a hung call sit.                                *)
InflightExact ==
    stt = "whisper_cpp" =>
        /\ DOMAIN inflight = {Id(c) : c \in {c \in Chunk : Calling(c)}}
        /\ \A c \in Chunk : Calling(c) => inflight[Id(c)] = thread[c].age

(* No call outlives the threshold by more than a poll and a kill, whatever     *)
(* else is in flight; each restart that WSL refuses adds a round.              *)
Round == KILL_TIMEOUT + RESTART_COOLDOWN_S + WATCHDOG_POLL_S

StuckIsCutShort ==
    \A c \in Chunk : stt = "whisper_cpp" /\ Calling(c) =>
        thread[c].age <= STUCK_THRESHOLD_S + WATCHDOG_POLL_S + KILL_TIMEOUT + stuckOn * Round

(* A client's chunks reach the journal in the order it sent them, unless it    *)
(* had given up on the earlier one.                                            *)
OutOfOrderOnlyAfterTimeout ==
    \A i, j \in 1..Len(journal) :
        i < j /\ journal[i][1] = journal[j][1] /\ journal[j][2] < journal[i][2]
            => shown[journal[j]] = "timed out"

(* Whatever fails behind it, speech that was transcribed is answered with its  *)
(* text, and noise never is; only speech on channel 01 is logged or journalled, *)
(* and once.                                                                  *)
SpeechSurvives ==
    /\ \A c \in Chunk : thread[c].pc = "done" =>
          /\ thread[c].reply # "none"
          /\ (thread[c].reply = "text") <=> (heard[c] = "speech")
    /\ \A i, j \in 1..Len(journal) : journal[i] = journal[j] => i = j
    /\ \A c \in logged \union {journal[i] : i \in 1..Len(journal)} :
          heard[c] = "speech" /\ c[1] \in Maas

(* Since a count above the mark was last read, every low has been warned of,   *)
(* in whatever order the replies were read: today's after yesterday's too.     *)
QuotaSaid == lowest <= GROQ_QUOTA_WARN_AT => Bucket(lowest) \in warned
=============================================================================
