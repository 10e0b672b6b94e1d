------------------------------ MODULE AirAttribution ------------------------------
(***************************************************************************)
(* Which flight an Approach 4 transmission belongs to: stt_proxy/adsb.py     *)
(* (the poller, its ring of snapshots and its daily log), flight_attribution *)
(* .py (stage 1 when the transmission is heard, stage 2 a minute later),     *)
(* air_archive.py (the rows) and the panel's hand moves.                     *)
(*                                                                          *)
(* The poller, the request threads, the stage-2 loop and the panel (another  *)
(* process) run concurrently; the proxy may restart at any point, the        *)
(* archive and the log remain.  A number is an autopilot setting: whether    *)
(* two are within tolerance (_close) is equality here.                       *)
(***************************************************************************)
EXTENDS Integers, Sequences, FiniteSets, FiniteSetsExt

CONSTANTS
    Tx,              \* transmissions
    Aircraft,        \* ADS-B hexes
    Callsign,        \* the callsigns that may be heard
    Number,          \* the numbers that may be spoken
    Utterance,       \* what each transmission may say, of these
    Target,          \* where the panel may move a row
    Poison,          \* transmissions whose row stage 2 cannot work on
    Undecodable,     \* transmissions whose row holds no JSON: no pass can read it
    InitialSky, Sky, \* what the feed reports: at first, and later
    POLL_SEC, WINDOW_BEFORE, WINDOW_AFTER, RING_LEN, MAX_GAP,
    FETCH_TIMEOUT,   \* how long a poll may take
    HeardAt, RestartAt,   \* bounds: the moments of transmissions and restarts
    MaxTime, MaxFailures, MaxChanges, MaxCrashes, MaxMoves   \* bounds

Nobody == "nobody"   \* no callsign, no aircraft
Other  == "other"    \* a setting that is no spoken number
Unset  == "unset"    \* a setting the aircraft does not send

Report   == [sel : Number \union {Other, Unset}, ground : BOOLEAN]
InRange  == UNION {[A -> Report] : A \in SUBSET Aircraft}
Snapshot == [t : Nat, aircraft : InRange]

Key   == {[kind |-> k, of |-> Nobody] : k \in {"unassigned", "review"}}
            \union [kind : {"unknown", "flight"}, of : Aircraft \union Callsign]
Echo  == [status : {"pending", "no_numbers", "no_snapshots", "none", "ambiguous", "match"},
          hex : Aircraft \union {Nobody}]
State == [hex : Aircraft \union {Nobody}, t : Nat]

Unassigned == [kind |-> "unassigned", of |-> Nobody]
Review     == [kind |-> "review", of |-> Nobody]
Unknown(c) == [kind |-> "unknown", of |-> c]
Flight(h)  == [kind |-> "flight", of |-> h]

Pending == [status |-> "pending", hex |-> Nobody]
NoState == [hex |-> Nobody, t |-> 0]

ASSUME AirAssumption ==
    /\ Nobody \notin Aircraft \union Callsign
    /\ {Other, Unset} \intersect Number = {}
    /\ Poison \subseteq Tx /\ Undecodable \subseteq Tx /\ Target \subseteq Key
    /\ Utterance \in [Tx -> SUBSET [callsign : Callsign \union {Nobody},
                                    numbers : SUBSET Number]]
    /\ InitialSky \in InRange /\ Sky \subseteq InRange
    /\ {POLL_SEC, WINDOW_BEFORE, WINDOW_AFTER, RING_LEN} \subseteq Nat \ {0}
    /\ {MAX_GAP, FETCH_TIMEOUT, MaxTime, MaxFailures, MaxChanges, MaxCrashes,
        MaxMoves} \subseteq Nat
    /\ HeardAt \subseteq Nat /\ RestartAt \subseteq Nat

VARIABLES
    now,          \* the clock
    sky,          \* the traffic the last good response reported
    cache,        \* _aircraft_cache, and when it was filled
    ring,         \* _ring
    log,          \* the readable lines of the daily log
    torn,         \* the log ends in a part of a line
    unwritten,    \* the poller holds a snapshot it has not logged yet
    pollAt,       \* the end of the poller's sleep
    heard,        \* the transmissions heard so far
    calls,        \* record_transmission, between its clue and its row
    rows,         \* air_transmissions
    moves,        \* air_moves, in the order of their ids
    pass,         \* the rows this pass of recheck_pending has yet to look at
    echoEnabled,  \* AIR_ECHO_ENABLED, read when the proxy starts
    failures, changes, crashes,   \* bounds
    history,      \* history: every snapshot taken
    unlogged      \* history: the places of those the log does not have

poller == <<cache, ring, log, torn, unwritten, pollAt, history, unlogged>>
stages == <<heard, calls, rows, pass>>
env    == <<failures, changes, crashes>>
vars   == <<now, sky, poller, stages, moves, echoEnabled, env>>

Put(f, k, v)  == [x \in DOMAIN f \union {k} |-> IF x = k THEN v ELSE f[x]]
Without(f, k) == [x \in DOMAIN f \ {k} |-> f[x]]
Nothing       == [x \in {} |-> 0]

(* The places of the snapshots of a window.                                   *)
Within(snaps, t0, t1) == {i \in DOMAIN snaps : t0 <= snaps[i].t /\ snaps[i].t <= t1}

MayFail == failures < MaxFailures /\ failures' = failures + 1
-----------------------------------------------------------------------------
(* The two clues and what they amount to.                                     *)

(* match_flight: the aircraft of this callsign, if the feed reports it; the    *)
(* spelling it forgives is left out.                                           *)
Matched(c) == IF c \in DOMAIN cache.aircraft THEN c ELSE Nobody

(* The aircraft that were not set to a spoken number and then were.            *)
Hits(numbers, baseline, after) ==
    {h \in DOMAIN baseline :
        /\ baseline[h].sel # Unset
        /\ \E n \in numbers, snap \in after :
            /\ h \in DOMAIN snap.aircraft
            /\ ~snap.aircraft[h].ground
            /\ snap.aircraft[h].sel = n
            /\ baseline[h].sel # n}

(* Of the snapshots since `since`: the last one before the window is what was  *)
(* set, those in it what became of it.                                        *)
EchoClue(numbers, t, snaps, since) ==
    LET before == Within(snaps, since, t - WINDOW_BEFORE)
        after  == Within(snaps, t - WINDOW_BEFORE + 1, t + WINDOW_AFTER)
        hits   == Hits(numbers, snaps[Max(before)].aircraft, {snaps[i] : i \in after})
        Clue(status, h) == [status |-> status, hex |-> h]
    IN  IF numbers = {} THEN Clue("no_numbers", Nobody)
        ELSE IF before = {} \/ after = {} THEN Clue("no_snapshots", Nobody)
        ELSE IF hits = {} THEN Clue("none", Nobody)
        ELSE IF \E h, g \in hits : h # g THEN Clue("ambiguous", Nobody)
        ELSE Clue("match", CHOOSE h \in hits : TRUE)

Combine(callsign, hex, echo, enabled) ==
    LET echoHex == IF enabled THEN echo.hex ELSE Nobody
    IN  IF callsign # Nobody /\ hex = Nobody THEN Unknown(callsign)
        ELSE IF hex # Nobody /\ echoHex \notin {Nobody, hex} THEN Review
        ELSE IF hex # Nobody THEN Flight(hex)
        ELSE IF echoHex # Nobody THEN Flight(echoHex)
        ELSE Unassigned

(* _state_of: what a row keeps of the aircraft it is filed under.              *)
StateOf(key, snap) ==
    IF key.kind = "flight" /\ key.of \in DOMAIN snap.aircraft
    THEN [hex |-> key.of, t |-> snap.t] ELSE NoState
-----------------------------------------------------------------------------
(* The archive as it is read: _SELECT and _decode.                            *)
MovesOf(x)  == {i \in DOMAIN moves : moves[i].tx = x}
Moved(x)    == MovesOf(x) # {}
LastMove(x) == moves[Max(MovesOf(x))]

EffectiveKey(x) == IF Moved(x) THEN LastMove(x).to ELSE rows[x].key

(* _state_for_strip: the aircraft a row can name its strip after.              *)
StateForStrip(x) == IF Moved(x) THEN LastMove(x).state ELSE rows[x].state

(* strips: a strip per key, named after the last of its rows that can name one. *)
Strips == {EffectiveKey(x) : x \in DOMAIN rows}

NamedAfter(key) ==
    LET named == {x \in DOMAIN rows : EffectiveKey(x) = key /\ StateForStrip(x) # NoState}
    IN  {StateForStrip(x) : x \in {x \in named : \A y \in named : rows[y].epoch <= rows[x].epoch}}

(* evidence: the flights a row of a thread is said to be filed under for.      *)
Evidence(x) ==
    IF Moved(x) THEN {LastMove(x).to}
    ELSE {Flight(h) : h \in {rows[x].hex, rows[x].echo.hex} \ {Nobody}}
-----------------------------------------------------------------------------
Init ==
    /\ now = 0 /\ sky = InitialSky
    /\ cache = [t |-> 0, aircraft |-> Nothing]
    /\ ring = <<>> /\ log = <<>> /\ torn = FALSE /\ unwritten = FALSE
    /\ pollAt = 0 /\ history = <<>> /\ unlogged = {}
    /\ heard = {} /\ calls = Nothing /\ rows = Nothing /\ pass = {}
    /\ moves = <<>>
    /\ echoEnabled \in BOOLEAN
    /\ failures = 0 /\ changes = 0 /\ crashes = 0

(* A second or so passes.  A request's clue and row, and a snapshot and its    *)
(* log line, are moments apart; a poll takes at most its timeout.              *)
Tick ==
    /\ now < MaxTime /\ now < pollAt + FETCH_TIMEOUT
    /\ ~unwritten /\ calls = Nothing
    /\ now' = now + 1
    /\ UNCHANGED <<sky, poller, stages, moves, echoEnabled, env>>
-----------------------------------------------------------------------------
(* adsb.py: the poller.                                                       *)

(* _ring's maxlen.                                                             *)
RingWith(snap) == Append(IF Len(ring) < RING_LEN THEN ring ELSE Tail(ring), snap)

(* poll_once, a good response: the cache is replaced and the ring grows; the   *)
(* log is written next.  The traffic may have changed since the last poll.     *)
Poll(traffic) ==
    LET snap == [t |-> now, aircraft |-> traffic]
    IN  /\ ~unwritten /\ now >= pollAt
        /\ sky' = traffic
        /\ IF traffic = sky THEN UNCHANGED changes
           ELSE changes < MaxChanges /\ changes' = changes + 1
        /\ cache' = snap
        /\ ring' = RingWith(snap)
        /\ history' = Append(history, snap)
        /\ unlogged' = unlogged \union {Len(history')}
        /\ unwritten' = TRUE
        /\ UNCHANGED <<now, log, torn, pollAt, stages, moves, echoEnabled, failures, crashes>>

(* poll_and_record, a failed fetch or a bad response: nothing is learned.      *)
PollFails ==
    /\ ~unwritten /\ now >= pollAt /\ MayFail
    /\ pollAt' = now + POLL_SEC
    /\ UNCHANGED <<now, sky, cache, ring, log, torn, unwritten, history, unlogged,
                   stages, moves, echoEnabled, changes, crashes>>

(* _append_snapshot_log.  A line after a part of one cannot be read either.    *)
WriteLog ==
    /\ unwritten /\ unwritten' = FALSE
    /\ torn' = FALSE /\ pollAt' = now + POLL_SEC
    /\ IF torn
       THEN UNCHANGED <<log, unlogged>>
       ELSE /\ log' = Append(log, history[Len(history)])
            /\ unlogged' = unlogged \ {Len(history)}
    /\ UNCHANGED <<now, sky, cache, ring, history, stages, moves, echoEnabled, env>>

(* _record_snapshot swallows the error; part of the line may be in the file.   *)
WriteLogFails ==
    /\ unwritten /\ unwritten' = FALSE /\ MayFail
    /\ torn' \in {torn, TRUE} /\ pollAt' = now + POLL_SEC
    /\ UNCHANGED <<now, sky, cache, ring, log, history, unlogged,
                   stages, moves, echoEnabled, changes, crashes>>

(* snapshots_between: the ring when it reaches back to t0, or the log.         *)
RingIfAny(t0) == IF ring # <<>> THEN ring ELSE log   \* a mutant: it is trusted too far
SnapshotsFrom(t0) == IF ring # <<>> /\ ring[1].t <= t0 THEN ring ELSE log
-----------------------------------------------------------------------------
(* flight_attribution.py.                                                     *)

(* insert_transmission: the row as stage 1 files it.                           *)
Filed(c) ==
    LET key == Combine(c.callsign, c.hex, Pending, echoEnabled)
    IN  [epoch |-> c.epoch, callsign |-> c.callsign, hex |-> c.hex, numbers |-> c.numbers,
         echo |-> Pending, key |-> key, state |-> StateOf(key, cache)]

(* Stage 1, record_transmission: the clock and callsign_clue ...               *)
Hear(x, said) ==
    /\ x \notin heard /\ now \in HeardAt
    /\ heard' = heard \union {x}
    /\ calls' = Put(calls, x, [epoch |-> now, callsign |-> said.callsign,
                               hex |-> Matched(said.callsign), numbers |-> said.numbers])
    /\ UNCHANGED <<now, sky, poller, rows, pass, moves, echoEnabled, env>>

(* ... then the state, from the cache as it is by now, and insert_transmission *)
Record(x) ==
    /\ calls' = Without(calls, x)
    /\ rows' = Put(rows, x, Filed(calls[x]))
    /\ UNCHANGED <<now, sky, poller, heard, pass, moves, echoEnabled, env>>

(* ... which may fail: the plugin has its text, the archive has no row.        *)
RecordFails(x) ==
    /\ MayFail
    /\ calls' = Without(calls, x)
    /\ UNCHANGED <<now, sky, poller, heard, rows, pass, moves, echoEnabled, changes, crashes>>

(* pending_echo, at recheck_pending's cutoff.                                  *)
Due == {x \in DOMAIN rows : /\ rows[x].echo = Pending
                            /\ rows[x].epoch <= now - WINDOW_AFTER - POLL_SEC}

(* Stage 2: recheck_pending reads the rows that are due, and decodes them all  *)
(* before it looks at one.                                                     *)
PassBegins ==
    /\ pass = {} /\ Due # {} /\ Due \intersect Undecodable = {}
    /\ pass' = Due
    /\ UNCHANGED <<now, sky, poller, heard, calls, rows, moves, echoEnabled, env>>

(* The archive cannot be opened or read: _loop logs it and comes back later.   *)
(* So it does for a row that does not decode, and nothing is changed.          *)
PassRaises ==
    /\ pass = {} /\ Due # {} /\ MayFail
    /\ UNCHANGED <<now, sky, poller, stages, moves, echoEnabled, changes, crashes>>

(* ORDER BY a.epoch                                                            *)
NextRow(x) == x \in pass /\ \A y \in pass : rows[x].epoch <= rows[y].epoch

(* The state stage 2 files: of the moment of the transmission, and only when   *)
(* the row moves to another flight.                                            *)
StateByNow(row, key, snaps, since) ==       \* a mutant: the end of the window
    LET window == Within(snaps, since, row.epoch + WINDOW_AFTER)
    IN  IF window = {} \/ key = row.key THEN NoState ELSE StateOf(key, snaps[Max(window)])
StateAtThatMoment(row, key, snaps, since) ==
    LET before == Within(snaps, since, row.epoch)
    IN  IF before = {} \/ key = row.key THEN NoState ELSE StateOf(key, snaps[Max(before)])

(* set_echo; COALESCE keeps the state there is when none is given.             *)
WithEcho(row, echo, key, state) ==
    [row EXCEPT !.echo = echo, !.key = key, !.state = IF state = NoState THEN @ ELSE state]

(* ... and gives each its echo clue.                                           *)
RecheckRow(x) ==
    LET row   == rows[x]
        since == row.epoch - WINDOW_BEFORE - 2 * POLL_SEC
        snaps == SnapshotsFrom(since)
        echo  == EchoClue(row.numbers, row.epoch, snaps, since)
        key   == Combine(row.callsign, row.hex, echo, echoEnabled)
    IN  /\ NextRow(x) /\ x \notin Poison
        /\ rows' = [rows EXCEPT ![x] =
                       WithEcho(row, echo, key, StateAtThatMoment(row, key, snaps, since))]
        /\ pass' = pass \ {x}
        /\ UNCHANGED <<now, sky, poller, heard, calls, moves, echoEnabled, env>>

(* One row's failure is logged; the row stays pending, the pass goes on.       *)
AbortPass(x) == {}                          \* a mutant: an exception ends the pass
AfterFailure(x) == pass \ {x}

RecheckFails(x) ==
    /\ NextRow(x)
    /\ IF x \in Poison THEN UNCHANGED failures ELSE MayFail
    /\ pass' = AfterFailure(x)
    /\ UNCHANGED <<now, sky, poller, heard, calls, rows, moves, echoEnabled,
                   changes, crashes>>
-----------------------------------------------------------------------------
(* webapp/app.py, write_air_move: the panel files a row by hand.              *)

(* nearest_snapshot, of the log.                                               *)
Gap(s, t)  == IF s.t < t THEN t - s.t ELSE s.t - t
Nearest(t) ==
    LET near == Within(log, t - MAX_GAP, t + MAX_GAP)
    IN  IF near = {} THEN [t |-> 0, aircraft |-> Nothing]
        ELSE log[CHOOSE i \in near :
                    \A j \in near : \/ Gap(log[i], t) < Gap(log[j], t)
                                    \/ Gap(log[i], t) = Gap(log[j], t) /\ i <= j]

(* move_targets: the flights heard; its ten minutes exceed MaxTime.            *)
MoveTargets == {EffectiveKey(y) : y \in DOMAIN rows}

(* add_move.                                                                   *)
AddMove(x, to, state) == Append(moves, [tx |-> x, to |-> to, state |-> state])

Move(x, to) ==
    LET state == StateOf(to, Nearest(rows[x].epoch))
    IN  /\ Len(moves) < MaxMoves
        /\ to.kind = "flight" => state # NoState \/ to \in MoveTargets
        /\ moves' = AddMove(x, to, state)
        /\ UNCHANGED <<now, sky, poller, stages, echoEnabled, env>>
-----------------------------------------------------------------------------
(* The proxy stops and starts again: what was in memory is gone.               *)
Restart ==
    /\ now \in RestartAt /\ crashes < MaxCrashes /\ crashes' = crashes + 1
    /\ cache' = [t |-> now, aircraft |-> Nothing] /\ ring' = <<>>
    /\ torn' \in IF unwritten THEN {torn, TRUE} ELSE {torn}
    /\ unwritten' = FALSE /\ pollAt' = now
    /\ calls' = Nothing /\ pass' = {}
    /\ echoEnabled' \in BOOLEAN
    /\ UNCHANGED <<now, sky, log, history, unlogged, heard, rows, moves, failures, changes>>

Recheck == PassBegins \/ PassRaises \/ (\E x \in pass : RecheckRow(x) \/ RecheckFails(x))

Next ==
    \/ Tick
    \/ (\E traffic \in Sky \union {sky} : Poll(traffic))
    \/ PollFails \/ WriteLog \/ WriteLogFails
    \/ \E x \in Tx : \E said \in Utterance[x] : Hear(x, said)
    \/ \E x \in DOMAIN calls : Record(x) \/ RecordFails(x)
    \/ Recheck
    \/ \E x \in DOMAIN rows, to \in Target : Move(x, to)
    \/ Restart

(* Time passes, and each thread is a loop that runs on: a poll is answered or  *)
(* fails, a row that is due is looked at.  A request ends.                     *)
Fairness ==
    /\ WF_vars(Tick) /\ WF_vars(Poll(sky)) /\ WF_vars(WriteLog)
    /\ WF_vars(PassBegins)
    /\ WF_vars(\E x \in pass : RecheckRow(x) \/ (x \in Poison /\ RecheckFails(x)))
    /\ WF_vars(\E x \in DOMAIN calls : Record(x))

Spec == Init /\ [][Next]_vars /\ Fairness
-----------------------------------------------------------------------------
Row == [epoch : Nat, callsign : Callsign \union {Nobody}, hex : Aircraft \union {Nobody},
        numbers : SUBSET Number, echo : Echo, key : Key, state : State]

(* Type correctness; the ring holds at most _RING_LEN snapshots.               *)
AirTypeOK ==
    /\ cache \in Snapshot /\ ring \in Seq(Snapshot) /\ Len(ring) <= RING_LEN
    /\ log \in Seq(Snapshot) /\ history \in Seq(Snapshot)
    /\ \A x \in DOMAIN rows : x \in heard /\ rows[x] \in Row
    /\ DOMAIN calls \subseteq heard \ DOMAIN rows /\ pass \subseteq DOMAIN rows
    /\ \A i \in DOMAIN moves : moves[i].tx \in DOMAIN rows /\ moves[i].to \in Key
                               /\ moves[i].state \in State
    /\ torn \in BOOLEAN /\ unwritten \in BOOLEAN /\ echoEnabled \in BOOLEAN

(* The evidence a row keeps is what every snapshot ever taken around it shows, *)
(* whether it came from the ring or from the log, before or after a restart:   *)
(* "a restart between stage 1 and stage 2 costs evidence only if the log is    *)
(* missing too" (snapshots_between), and none that came later would change it. *)
(* A row filed under a flight says what for.                                   *)
EvidenceIsTheRecord ==
    \A x \in DOMAIN rows :
        LET t0 == rows[x].epoch - WINDOW_BEFORE - 2 * POLL_SEC
            t1 == rows[x].epoch + WINDOW_AFTER
        IN  /\ \/ rows[x].echo = Pending
               \/ \E i \in unlogged : t0 <= history[i].t /\ history[i].t <= t1
               \/ rows[x].echo = EchoClue(rows[x].numbers, rows[x].epoch, history, t0)
            /\ EffectiveKey(x).kind = "flight" => EffectiveKey(x) \in Evidence(x)

(* The aircraft a strip is named after is the one its rows are filed under,    *)
(* and is shown as it was when a transmission was heard, never as it was by    *)
(* the time stage 2 ran; after a move, within the gap the panel allows.        *)
StatesAreOfThatMoment ==
    /\ \A x \in DOMAIN rows :
        /\ rows[x].state.t <= rows[x].epoch
        /\ Moved(x) /\ LastMove(x).state # NoState
              => Gap(LastMove(x).state, rows[x].epoch) <= MAX_GAP
    /\ \A key \in Strips : key.kind = "flight" => \A s \in NamedAfter(key) : s.hex = key.of

(* A hand move always wins: whatever the two stages do, and in whatever order  *)
(* with the panel, a moved row stays where the last move put it.               *)
MovesWin ==
    [][\A x \in DOMAIN rows :
        Moved(x) /\ moves' = moves => EffectiveKey(x)' = EffectiveKey(x)]_vars

(* In shadow mode stage 2 stores its evidence and regroups nothing, even when  *)
(* the mode was another at stage 1; and what was decided is never revised,     *)
(* whichever way the mode is switched.                                         *)
ShadowModeRegroupsNothing ==
    [][\A x \in DOMAIN rows :
        rows'[x].key # rows[x].key => echoEnabled /\ rows[x].echo = Pending]_vars

(* Stage 2 reaches every row that can be read, however often a row ahead of    *)
(* it, or a whole pass, fails, as long as every row decodes.                   *)
Decided(x) == x \in DOMAIN rows /\ rows[x].echo # Pending

EveryRowIsDecided ==
    \A x \in Tx \ Poison :
        (x \in DOMAIN rows) ~> (Decided(x) \/ DOMAIN rows \intersect Undecodable # {})

(* "One row's failure ... must not abort the pass", or it "would permanently   *)
(* stall every later row behind the broken one" (recheck_pending): not even    *)
(* that of a row which does not decode.                                        *)
NoRowStallsThePass == \A x \in Tx \ (Poison \union Undecodable) : (x \in DOMAIN rows) ~> Decided(x)

(* What the design says of a feed outage: it "can never be scored as a         *)
(* measured negative".  It can: a snapshot of the seconds before the           *)
(* transmission counts as one after it, so with none since the row is "none".  *)
OutageIsNoNegative ==
    \A x \in DOMAIN rows : rows[x].echo.status = "none" =>
        \E i \in DOMAIN history : /\ rows[x].epoch < history[i].t
                                  /\ history[i].t <= rows[x].epoch + WINDOW_AFTER
===============================================================================
