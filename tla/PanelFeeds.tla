------------------------------- MODULE PanelFeeds -------------------------------
(***************************************************************************)
(* webapp/health.py, proxy_data.py: what the panel shows of the proxy and    *)
(* the station counter.  A collection of the proxy is fetched by one reader  *)
(* at a time, kept for its TTL, and shown with its age when a refresh fails. *)
(* Each lamp is read from its source's own record.  Readers are signed in.   *)
(***************************************************************************)
EXTENDS PanelLogin

CONSTANTS Reader,             \* request threads that show a collection
          TTL,                \* CONVERSATIONS_TTL_SEC or VESSELS_TTL_SEC
          FETCH_TIMEOUT_SEC,
          POLL_SEC,           \* the AISHub interval the proxy reports
          HEARTBEAT_SEC,
          COVERAGE_TIMEOUT_SEC,   \* of the range map's poll, before each heartbeat
          STATION_STALE_SEC,
          MaxFetches,         \* bound: fetches of a behaviour
          MaxEvents           \* bound: polls that fail, processes that end

ASSUME FeedsAssumption ==
    /\ TTL \in Nat \ {0} /\ FETCH_TIMEOUT_SEC \in Nat /\ POLL_SEC \in Nat \ {0}
    /\ HEARTBEAT_SEC \in Nat \ {0} /\ COVERAGE_TIMEOUT_SEC \in Nat /\ STATION_STALE_SEC \in Nat
    /\ HEARTBEAT_SEC + COVERAGE_TIMEOUT_SEC < STATION_STALE_SEC
    /\ MaxFetches \in Nat /\ MaxEvents \in Nat
    /\ "free" \notin Reader          \* the mark of a lock that no thread holds

NoTime == -1                  \* a time that never was

VARIABLES
    cell,          \* _Cell: whether records were ever fetched, when, an error since
    lock,          \* the reader that holds the cell's lock, or "free"
    reader,        \* per reader: where it is, the `now` it took, when its fetch began
    shown,         \* history: the snapshot answered last, and when
    hub,           \* AISHub as the proxy reports it: last success, failures in a row
    pollerUp, proxyUp,
    delivered,     \* history: when AISHub last delivered
    beats,         \* the heartbeats in the counter's log: the last and the one before,
                   \* and whether the last line is written to its end
    counterUp, station,     \* the counter runs; what it says of the station
    counterSince,  \* history: when the counter last started or stopped
    fetches, events

cellVars  == <<cell, lock, reader, shown, fetches>>
hubVars   == <<hub, pollerUp, proxyUp, delivered>>
beatVars  == <<beats, counterUp, station, counterSince>>
feedVars  == <<cellVars, hubVars, beatVars, events>>

Resting  == [pc |-> "idle", now |-> 0, since |-> 0]
NoCopy   == [has |-> FALSE, at |-> 0, error |-> FALSE]
NeverPolled == [lastOk |-> NoTime, failures |-> 0]

FeedsInit ==
    /\ cell = NoCopy /\ lock = "free" /\ reader = [r \in Reader |-> Resting]
    /\ shown = {} /\ fetches = 0 /\ events = 0
    /\ hub = NeverPolled /\ pollerUp = TRUE /\ proxyUp = TRUE /\ delivered = NoTime
    /\ beats = [last |-> NoTime, before |-> NoTime, whole |-> TRUE]
    /\ counterUp \in BOOLEAN /\ station = "answers" /\ counterSince = 0
-----------------------------------------------------------------------------
(* ProxyData._get: the time is read before the lock is.                        *)
AskPage(r, t) ==
    /\ reader[r].pc = "idle" /\ fetches < MaxFetches
    /\ ~Expired(sessions[t]) /\ Get(t)
    /\ reader' = [reader EXCEPT ![r] = [Resting EXCEPT !.pc = "waiting", !.now = clock]]
    /\ fetches' = fetches + 1
    /\ UNCHANGED <<cell, lock, shown, hubVars, beatVars, events>>

Answer(r, c) ==
    /\ shown' = {[at |-> clock, fetchedAt |-> c.at, stale |-> c.error, hasData |-> c.has]}
    /\ reader' = [reader EXCEPT ![r] = Resting]
    /\ lock' = "free"

Due(r) == ~cell.has \/ reader[r].now - cell.at >= TTL

(* Under the lock: the copy, or a fetch, which keeps the lock.                 *)
Acquire(r) ==
    /\ reader[r].pc = "waiting" /\ lock = "free"
    /\ IF Due(r)
       THEN /\ lock' = r
            /\ reader' = [reader EXCEPT ![r].pc = "fetching", ![r].since = clock]
            /\ UNCHANGED shown
       ELSE Answer(r, cell)
    /\ UNCHANGED <<cell, fetches, hubVars, beatVars, events, loginVars>>

(* _refresh: a list is the new copy; anything else leaves the copy and an error. *)
FetchArrives(r) ==
    /\ reader[r].pc = "fetching" /\ proxyUp
    /\ cell' = [has |-> TRUE, at |-> clock, error |-> FALSE]
    /\ Answer(r, cell')
    /\ UNCHANGED <<fetches, hubVars, beatVars, events, loginVars>>

(* A mutant: the copy is answered and nothing says the fetch failed.           *)
FetchFailsUnsaid(r) ==
    /\ reader[r].pc = "fetching"
    /\ Answer(r, cell)
    /\ UNCHANGED <<cell, fetches, hubVars, beatVars, events, loginVars>>

FetchFails(r) ==
    /\ reader[r].pc = "fetching"
    /\ cell' = [cell EXCEPT !.error = TRUE]
    /\ Answer(r, cell')
    /\ UNCHANGED <<fetches, hubVars, beatVars, events, loginVars>>
-----------------------------------------------------------------------------
(* The sources: AISHub's poller in the proxy, the counter's heartbeat thread.  *)
PollDelivers ==
    /\ proxyUp /\ pollerUp
    /\ hub' = [lastOk |-> clock, failures |-> 0] /\ delivered' = clock
    /\ UNCHANGED <<pollerUp, proxyUp, cellVars, beatVars, events, loginVars>>

PollGetsNothing ==
    /\ proxyUp /\ pollerUp /\ events < MaxEvents
    /\ hub' = [hub EXCEPT !.failures = @ + 1] /\ events' = events + 1
    /\ UNCHANGED <<pollerUp, proxyUp, delivered, cellVars, beatVars, loginVars>>

PollerWedges ==
    /\ pollerUp /\ events < MaxEvents
    /\ pollerUp' = FALSE /\ events' = events + 1
    /\ UNCHANGED <<hub, proxyUp, delivered, cellVars, beatVars, loginVars>>

ProxyRestarts ==
    /\ events < MaxEvents
    /\ proxyUp' = ~proxyUp /\ events' = events + 1
    /\ hub' = NeverPolled /\ pollerUp' = TRUE
    /\ UNCHANGED <<delivered, cellVars, beatVars, loginVars>>

(* heartbeat_loop: the wait, then the poll of the range map, then a line that  *)
(* is appended in what a reader may see as two pieces.                         *)
BeatAge == clock - (IF beats.last > counterSince THEN beats.last ELSE counterSince)

BeatPeriod == HEARTBEAT_SEC + COVERAGE_TIMEOUT_SEC

BeatOverdue == counterUp /\ beats.whole /\ BeatAge >= BeatPeriod

Beat ==
    /\ counterUp /\ beats.whole /\ BeatAge >= HEARTBEAT_SEC
    /\ beats' = [last |-> clock, before |-> beats.last, whole |-> FALSE]
    /\ station' \in {"answers", "silent", "disconnected"}
    /\ UNCHANGED <<counterUp, counterSince, cellVars, hubVars, events, loginVars>>

BeatFlushed ==
    /\ counterUp /\ ~beats.whole
    /\ beats' = [beats EXCEPT !.whole = TRUE]
    /\ UNCHANGED <<station, counterUp, counterSince, cellVars, hubVars, events, loginVars>>

CounterStartsOrStops ==
    /\ events < MaxEvents
    /\ counterUp' = ~counterUp /\ counterSince' = clock /\ events' = events + 1
    /\ beats' = [beats EXCEPT !.whole = TRUE,
                    !.last = IF beats.whole THEN @ ELSE beats.before]
    /\ UNCHANGED <<station, cellVars, hubVars, loginVars>>

(* The clock moves when no thread can: a reader with the lock free runs, a     *)
(* fetch ends within its timeout, a heartbeat is begun when the poll before it *)
(* has had its time, and a line that is begun is written out.                  *)
FeedsTick ==
    /\ \A r \in Reader : /\ reader[r].pc = "waiting" => lock # "free"
                         /\ reader[r].pc = "fetching"
                                => clock - reader[r].since < FETCH_TIMEOUT_SEC
    /\ ~BeatOverdue /\ beats.whole
    /\ LoginTick
    /\ UNCHANGED feedVars

FeedsNext ==
    \/ \E r \in Reader : \/ \E t \in DOMAIN sessions : AskPage(r, t)
                         \/ Acquire(r) \/ FetchArrives(r) \/ FetchFails(r)
    \/ PollDelivers \/ PollGetsNothing \/ PollerWedges \/ ProxyRestarts
    \/ Beat \/ BeatFlushed \/ CounterStartsOrStops
    \/ FeedsTick

(* The views of one life of the panel, whose sign-ins go on beside them.       *)
FeedsSpec == /\ LoginInit /\ FeedsInit
             /\ [][FeedsNext \/ (LoginServes /\ UNCHANGED feedVars)]_<<loginVars, feedVars>>
-----------------------------------------------------------------------------
(* A mutant: a poller that has stopped stays green.                            *)
AishubLampUnaged ==
    CASE ~proxyUp -> "unlit"
      [] proxyUp /\ hub.failures > 0 -> "red"
      [] proxyUp /\ hub.failures = 0 /\ hub.lastOk = NoTime -> "unlit"
      [] OTHER -> "green"

(* The lamps of the feeds panel.                                              *)
AishubLamp ==
    CASE ~proxyUp -> "unlit"
      [] proxyUp /\ hub.failures > 0 -> "red"
      [] proxyUp /\ hub.failures = 0 /\ hub.lastOk = NoTime -> "unlit"
      [] OTHER -> IF clock - hub.lastOk > 2 * POLL_SEC THEN "amber" ELSE "green"

(* _last_heartbeat: the newest line that parses.                               *)
LastHeartbeat == IF beats.whole THEN beats.last ELSE beats.before

StationLamp ==
    CASE LastHeartbeat = NoTime -> "unlit"
      [] LastHeartbeat # NoTime /\ clock - LastHeartbeat > STATION_STALE_SEC -> "red"
      [] OTHER -> IF station = "answers" THEN "green" ELSE "amber"

(* A screen never passes an old copy off as a live one: what is not flagged    *)
(* was fetched within the TTL, however long the reader waited for another's    *)
(* fetch, and before any fetch has succeeded the answer is flagged.            *)
FreshOrFlagged ==
    \A s \in shown : ~s.stale => s.hasData /\ s.at - s.fetchedAt < TTL

(* A green lamp is a feed that delivers: data within two polls, a counter that *)
(* runs or stopped less than the stale limit ago; and a counter that has run   *)
(* for an interval and a poll is not shown dead, even while its line is half   *)
(* written and the station's page does not answer.                             *)
LampsHonest ==
    /\ AishubLamp = "green" => clock - delivered <= 2 * POLL_SEC
    /\ StationLamp = "green" => counterUp \/ clock - counterSince <= STATION_STALE_SEC
    /\ StationLamp = "red" => ~counterUp \/ clock - counterSince <= BeatPeriod
=============================================================================
