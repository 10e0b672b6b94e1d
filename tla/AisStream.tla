-------------------------------- MODULE AisStream --------------------------------
(***************************************************************************)
(* The aisstream.io feed of stt_proxy/ais.py: one coroutine connects, reads  *)
(* and paces its retries (_ais_loop), one looks at the clock while a         *)
(* connection is open (_watch_silence).  Time is counted in ticks; timers    *)
(* that only matter up to a limit stop there.                                *)
(***************************************************************************)
EXTENDS Integers

CONSTANTS RECONNECT_BASE_SEC, RECONNECT_CAP_SEC, RATE_LIMIT_FLOOR_SEC,
          AIS_SILENCE_WARN_SEC, LOOK_MIN,   \* max(AIS_SILENCE_WARN_SEC, 5)'s 5
          UNKNOWN_FRAME_LOG_LIMIT,
          MaxFailures       \* bound: attempts in a row that come to nothing

ASSUME StreamAssumption ==
    /\ RECONNECT_BASE_SEC \in Nat \ {0} /\ RECONNECT_CAP_SEC \in Nat
    /\ RECONNECT_BASE_SEC <= RECONNECT_CAP_SEC /\ RATE_LIMIT_FLOOR_SEC \in Nat
    /\ RATE_LIMIT_FLOOR_SEC <= RECONNECT_CAP_SEC
    /\ AIS_SILENCE_WARN_SEC \in Nat /\ LOOK_MIN \in Nat \ {0}
    /\ UNKNOWN_FRAME_LOG_LIMIT \in Nat /\ MaxFailures \in Nat \ {0}

Bigger(a, b)  == IF a > b THEN a ELSE b
Smaller(a, b) == IF a < b THEN a ELSE b

LookEvery == Bigger(AIS_SILENCE_WARN_SEC, LOOK_MIN)
Never     == AIS_SILENCE_WARN_SEC + 2 * LookEvery  \* where the counters of ticks stop

VARIABLES
    link,        \* "waiting" between attempts, or "open"
    sleeping,    \* ticks left of _sleep(delay)
    failures,    \* consecutive_failures
    delivers,    \* delivered > 0 on this connection
    sinceMessage,  \* ticks since _last_message_at, of any connection, or Never
    everMessage,   \* _last_message_at is not None
    connected,   \* ticks since this connection opened
    look,        \* ticks until the watchdog looks
    unknownLogged,
    waited,      \* history: ticks since the last attempt ended
    fruitless,   \* history: attempts in a row that received nothing
    refused,     \* history: the last attempt was answered HTTP 429
    gap,         \* history: what the attempt just made knew of the one before
    quiet,       \* history: ticks since this connection last carried AIS data
    said         \* history: what the watchdog has reported since
streamVars == <<link, sleeping, failures, delivers, sinceMessage, everMessage, connected, look,
          unknownLogged, waited, fruitless, refused, gap, quiet, said>>

NoGap == [waited |-> RECONNECT_CAP_SEC, fruitless |-> 0, refused |-> FALSE]

StreamInit ==
    /\ link = "waiting" /\ sleeping = 0 /\ failures = 0 /\ delivers = FALSE
    /\ sinceMessage = Never /\ everMessage = FALSE /\ connected = 0 /\ look = 0
    /\ unknownLogged = 0
    /\ waited = RECONNECT_CAP_SEC /\ fruitless = 0 /\ refused = FALSE /\ gap = NoGap
    /\ quiet = 0 /\ said = {}

(* _reconnect_delay without its jitter, which adds up to a quarter.            *)
Delay(attempt, limited) ==
    LET delay == Smaller(RECONNECT_BASE_SEC * 2 ^ attempt, RECONNECT_CAP_SEC)
    IN  IF limited THEN Bigger(delay, RATE_LIMIT_FLOOR_SEC) ELSE delay

(* The end of an attempt, however it ended: count it, and sleep.               *)
After(delivered) == IF delivered THEN 0 ELSE failures + 1

Ends(delivered, limited) ==
    /\ After(delivered) <= MaxFailures
    /\ failures' = After(delivered)
    /\ LET delay == Delay(Bigger(failures' - 1, 0), limited)
       IN  sleeping' \in delay..(delay + delay \div 4)
    /\ link' = "waiting" /\ waited' = 0
    /\ fruitless' = (IF delivered THEN 0 ELSE fruitless + 1) /\ refused' = limited

Attempts == link = "waiting" /\ sleeping = 0
            /\ gap' = [waited |-> waited, fruitless |-> fruitless, refused |-> refused]

(* A mutant: the fault the comment at ais.py:297 warns of, reset on connect.   *)
OpensAndResets ==
    /\ Attempts
    /\ link' = "open" /\ delivers' = FALSE
    /\ connected' = 0 /\ look' = LookEvery /\ quiet' = 0 /\ said' = {}
    /\ failures' = 0
    /\ UNCHANGED <<sleeping, sinceMessage, everMessage, unknownLogged, waited, fruitless, refused>>

(* The handshake is answered: the watchdog starts counting with it.            *)
Opens ==
    /\ Attempts
    /\ link' = "open" /\ delivers' = FALSE
    /\ connected' = 0 /\ look' = LookEvery /\ quiet' = 0 /\ said' = {}
    /\ UNCHANGED <<sleeping, failures, sinceMessage, everMessage, unknownLogged,
                   waited, fruitless, refused>>

(* It is not: a 429, or anything else (_is_rate_limited).                      *)
ConnectFails(limited) ==
    /\ Attempts /\ Ends(FALSE, limited)
    /\ UNCHANGED <<delivers, sinceMessage, everMessage, connected, look, unknownLogged, quiet, said>>

(* A frame: _process_ais stamps the clock when it is an AIS message.           *)
AisFrame ==
    /\ link = "open"
    /\ delivers' = TRUE /\ sinceMessage' = 0 /\ everMessage' = TRUE /\ quiet' = 0 /\ said' = {}
    /\ UNCHANGED <<link, sleeping, failures, connected, look, unknownLogged,
                   waited, fruitless, refused, gap>>

(* A mutant: any frame at all stamps the clock.                                *)
OtherFrameStamps ==
    /\ link = "open"
    /\ delivers' = TRUE /\ sinceMessage' = 0 /\ everMessage' = TRUE
    /\ UNCHANGED <<link, sleeping, failures, connected, look, unknownLogged,
                   waited, fruitless, refused, gap, quiet, said>>

(* _report_unrecognised_frame: a frame that is none counts as delivered too.   *)
OtherFrame ==
    /\ link = "open"
    /\ delivers' = TRUE
    /\ unknownLogged' = Smaller(unknownLogged + 1, UNKNOWN_FRAME_LOG_LIMIT)
    /\ UNCHANGED <<link, sleeping, failures, sinceMessage, everMessage, connected, look,
                   waited, fruitless, refused, gap, quiet, said>>

(* Closed by the server, a dead peer, a frame that is not JSON.                *)
Closes ==
    /\ link = "open" /\ Ends(delivers, FALSE)
    /\ UNCHANGED <<delivers, sinceMessage, everMessage, connected, look, unknownLogged,
                   gap, quiet, said>>

(* _silence_report: the warning a quiet feed deserves, if any.                 *)
SilenceReport ==
    CASE AIS_SILENCE_WARN_SEC = 0 -> {}
      [] AIS_SILENCE_WARN_SEC > 0 /\ ~everMessage ->
            IF connected < AIS_SILENCE_WARN_SEC THEN {} ELSE {"no data at all"}
      [] OTHER -> IF sinceMessage < AIS_SILENCE_WARN_SEC THEN {} ELSE {"going stale"}

Looks ==
    /\ link = "open" /\ look = 0
    /\ said' = said \union SilenceReport
    /\ look' = LookEvery
    /\ UNCHANGED <<link, sleeping, failures, delivers, sinceMessage, everMessage, connected,
                   unknownLogged, waited, fruitless, refused, gap, quiet>>

StreamTick ==
    /\ IF link = "open" THEN look > 0 ELSE sleeping > 0
    /\ sinceMessage' = Smaller(sinceMessage + 1, Never)
    /\ IF link = "open"
       THEN /\ look' = look - 1
            /\ connected' = Smaller(connected + 1, Never)
            /\ quiet' = Smaller(quiet + 1, Never)
            /\ UNCHANGED <<sleeping, waited>>
       ELSE /\ sleeping' = sleeping - 1 /\ waited' = waited + 1
            /\ UNCHANGED <<look, connected, quiet>>
    /\ UNCHANGED <<link, failures, delivers, everMessage, unknownLogged, fruitless, refused,
                   gap, said>>

StreamNext ==
    \/ Opens \/ ConnectFails(TRUE) \/ ConnectFails(FALSE)
    \/ AisFrame \/ OtherFrame \/ Closes \/ Looks \/ StreamTick

StreamSpec == StreamInit /\ [][StreamNext]_streamVars
-----------------------------------------------------------------------------
(* Retries back off: the wait before an attempt doubles with every attempt in  *)
(* a row that received nothing, up to the cap, connections that opened and     *)
(* died included; a 429 is honoured; and no wait exceeds the cap and a quarter, *)
(* so the feed comes back.                                                    *)
FeedPaced ==
    /\ gap.fruitless > 0 =>
          gap.waited >= Smaller(RECONNECT_BASE_SEC * 2 ^ (gap.fruitless - 1), RECONNECT_CAP_SEC)
    /\ gap.refused => gap.waited >= RATE_LIMIT_FLOOR_SEC
    /\ waited <= RECONNECT_CAP_SEC + RECONNECT_CAP_SEC \div 4

(* A connection that has carried no AIS data for the limit and one round of    *)
(* the watchdog has been reported, and none is before the limit.               *)
SilenceSaid ==
    link = "open" /\ AIS_SILENCE_WARN_SEC > 0 =>
        /\ quiet > AIS_SILENCE_WARN_SEC + LookEvery => said # {}
        /\ said # {} => quiet >= AIS_SILENCE_WARN_SEC

(* What _silence_report is there to tell apart: a connection that never        *)
(* delivered is reported as such.                                              *)
NeverSentSaid ==
    link = "open" /\ quiet = connected /\ quiet < Never => "going stale" \notin said
=============================================================================
