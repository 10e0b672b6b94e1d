----------------------------- MODULE StationCounter -----------------------------
(***************************************************************************)
(* ais_station_count.py: what the local AIS station hears, per hour.  A      *)
(* thread per connection splits the station's byte stream into sentences and *)
(* tallies them; the heartbeat thread polls the station's web page for a     *)
(* range map, counts the hour and the rolling windows, writes a record and   *)
(* prunes, each under the lock by itself.                                    *)
(*                                                                          *)
(* A sentence on the wire is two halves of its text and a newline, and a     *)
(* read may end after any of them.  The clock is the hour, which may turn    *)
(* between any two steps.                                                    *)
(***************************************************************************)
EXTENDS Integers, Sequences, FiniteSets, FiniteSetsExt

CONSTANTS Conn,            \* connections from the station
          Stream,          \* the sentences it may send on one: records of a talker
                           \* known or not, a fragment number and an MMSI
          Page,            \* the web page's ships: sets of [sector, km, kind]
          DAY, WEEK,       \* the rolling windows, in hours
          RETAIN_HOURS, MAX_PLAUSIBLE_KM,
          MaxRead,         \* bound: tokens of one recv
          MaxHour,         \* bound: the clock
          MaxPolls         \* bound: polls of the web page

ASSUME CounterAssumption ==
    /\ DAY \in Nat \ {0} /\ WEEK \in Nat /\ DAY <= WEEK /\ WEEK <= RETAIN_HOURS
    /\ RETAIN_HOURS \in Nat /\ MAX_PLAUSIBLE_KM \in Nat
    /\ MaxRead \in Nat \ {0} /\ MaxHour \in Nat /\ MaxPolls \in Nat

MaasSector == 225
NoHour == -1

VARIABLES
    hour,          \* _hour_key() of now
    hours,         \* _hours: the stations heard in each hour kept
    messages,      \* _messages: the sentences counted in each hour kept
    unparsed, continuations,
    conn,          \* per connection: "new", "open", "closed"
    stream,        \* per connection: the sentences the station sends
    received,      \* per connection: how many tokens have been received
    buffer,        \* per connection: the tokens held back for their newline
    beatPc,        \* what the heartbeat thread does next: "hour", "day", "week", "prune"
    keyed,         \* the hour it took for that, or NoHour
    beat,          \* the record it is writing, or wrote last
    rangeMap,      \* max_km by sector
    bestToMaas,    \* best_toward_maas
    polls,
    arrived        \* history: every <<hour, mmsi>> of a sentence received whole

tallies == <<hours, messages, unparsed, continuations>>
wire    == <<conn, stream, received, buffer>>
record   == <<beatPc, keyed, beat>>
coverage   == <<rangeMap, bestToMaas, polls>>
counterVars == <<hour, tallies, wire, record, coverage, arrived>>

(* Token i of a stream: a half of sentence (i-1) \div 3 + 1, or its newline.   *)
IsNewline(i)  == i % 3 = 0
Sentence(c, i) == stream[c][((i - 1) \div 3) + 1]

(* The complete lines of what has been read, and the tail after the last.      *)
LastEnd(joined, j) == Max({0} \union {i \in 1..(j - 1) : IsNewline(joined[i])})

LinesOf(joined) ==
    {SubSeq(joined, LastEnd(joined, j) + 1, j - 1) : j \in {j \in 1..Len(joined) : IsNewline(joined[j])}}

(* A mutant: what is left of a read is not kept for the next.                  *)
TailDropped(joined) == <<>>

TailOf(joined) == SubSeq(joined, LastEnd(joined, Len(joined) + 1) + 1, Len(joined))

(* mmsi_of: the station of a whole first fragment in a known talker's format.  *)
Whole(line) == Len(line) = 2 /\ line[1] % 3 = 1 /\ line[2] = line[1] + 1

HasMmsi(c, line) == LET s == Sentence(c, line[1])
                    IN  Whole(line) /\ s.known /\ s.fragment = 1 /\ s.mmsi # 0

IsContinuation(c, line) == line[1] % 3 = 1 /\ Sentence(c, line[1]).fragment # 1

Recorded(f, k, default) == IF k \in DOMAIN f THEN f[k] ELSE default
Noted(f, k, v) == [x \in DOMAIN f \union {k} |-> IF x = k THEN v ELSE f[x]]
-----------------------------------------------------------------------------
CounterInit ==
    /\ hour = 0 /\ hours = <<>> /\ messages = <<>> /\ unparsed = 0 /\ continuations = 0
    /\ conn = [c \in Conn |-> "new"] /\ stream \in [Conn -> Stream]
    /\ received = [c \in Conn |-> 0] /\ buffer = [c \in Conn |-> <<>>]
    /\ beatPc = "hour" /\ keyed = NoHour /\ beat = <<>>
    /\ rangeMap = <<>> /\ bestToMaas = 0 /\ polls = 0
    /\ arrived = {}

Connect(c) ==
    /\ conn[c] = "new"
    /\ conn' = [conn EXCEPT ![c] = "open"]
    /\ UNCHANGED <<hour, tallies, stream, received, buffer, record, coverage, arrived>>

(* Counter.record, for each line a read completes: an hour of no station yet   *)
(* is not opened by a sentence that carries none.                              *)
Tally(c, lines) ==
    LET mmsis == {Sentence(c, l[1]).mmsi : l \in {l \in lines : HasMmsi(c, l)}}
    IN  /\ hours' = IF mmsis = {} THEN hours
                    ELSE Noted(hours, hour, Recorded(hours, hour, {}) \union mmsis)
        /\ messages' = IF lines = {} THEN messages
                       ELSE Noted(messages, hour, Recorded(messages, hour, 0) + Cardinality(lines))
        /\ continuations' = continuations
                + Cardinality({l \in lines : ~HasMmsi(c, l) /\ IsContinuation(c, l)})
        /\ unparsed' = unparsed
                + Cardinality({l \in lines : ~HasMmsi(c, l) /\ ~IsContinuation(c, l)})

(* What the station really said whole: sentences whose newline has arrived.    *)
SaidWhole(c, from, to) ==
    {s \in {Sentence(c, i) : i \in {i \in (from + 1)..to : IsNewline(i)}} :
        s.known /\ s.fragment = 1 /\ s.mmsi # 0}

(* serve_client: one recv, its lines recorded and its tail held back.          *)
Receive(c) ==
    /\ conn[c] = "open"
    /\ \E n \in 1..MaxRead :
          /\ received[c] + n <= 3 * Len(stream[c])
          /\ LET joined == buffer[c] \o [i \in 1..n |-> received[c] + i]
             IN  /\ Tally(c, {l \in LinesOf(joined) : l # <<>>})
                 /\ buffer' = [buffer EXCEPT ![c] = TailOf(joined)]
          /\ received' = [received EXCEPT ![c] = @ + n]
          /\ arrived' = arrived \union {<<hour, s.mmsi>> : s \in SaidWhole(c, received[c], received[c] + n)}
    /\ UNCHANGED <<hour, conn, stream, record, coverage>>

(* The connection closes: a tail without its newline is dropped.               *)
Disconnect(c) ==
    /\ conn[c] = "open"
    /\ conn' = [conn EXCEPT ![c] = "closed"]
    /\ buffer' = [buffer EXCEPT ![c] = <<>>]
    /\ UNCHANGED <<hour, tallies, stream, received, record, coverage, arrived>>

(* Coverage.poll: only ships, and only at a range a ship can be heard from.    *)
Eligible(page) == {s \in page : s.kind = "ship" /\ s.km <= MAX_PLAUSIBLE_KM}

FarthestIn(sector, S) == Max({0} \union {s.km : s \in {s \in S : s.sector = sector}})

Poll(page) ==
    /\ beatPc = "hour" /\ keyed = NoHour /\ polls < MaxPolls
    /\ LET S == Eligible(page)
       IN  /\ rangeMap' = [x \in DOMAIN rangeMap \union {s.sector : s \in S} |->
                             Max({Recorded(rangeMap, x, 0), FarthestIn(x, S)})]
           /\ bestToMaas' = Max({bestToMaas, FarthestIn(MaasSector, S)})
    /\ polls' = polls + 1
    /\ UNCHANGED <<hour, tallies, wire, record, arrived>>

(* Each step of a heartbeat takes the hour first, and the lock then.           *)
HeartbeatTakesHour ==
    /\ keyed = NoHour
    /\ keyed' = hour
    /\ UNCHANGED <<hour, tallies, wire, beatPc, beat, coverage, arrived>>

Step(from, to) ==
    /\ beatPc = from /\ keyed # NoHour
    /\ beatPc' = to /\ keyed' = NoHour

(* Counter.heartbeat: the hour's counts in one critical section,               *)
CountHour ==
    /\ Step("hour", "day")
    /\ beat' = [hour |-> keyed, dayAt |-> keyed, weekAt |-> keyed,
                connected |-> \E c \in Conn : conn[c] = "open",
                vessels |-> Cardinality(Recorded(hours, keyed, {})),
                messages |-> Recorded(messages, keyed, 0), day |-> 0, week |-> 0]
    /\ UNCHANGED <<hour, tallies, wire, coverage, arrived>>

(* A mutant: a window of n hours and the one it begins after.                  *)
InLongWindow(h, n, now) == h >= now - n /\ h <= now

(* rolling_distinct: the hours of the window, as far as they are kept,         *)
InWindow(h, n, now) == h > now - n /\ h <= now

Window(n) == {h \in DOMAIN hours : InWindow(h, n, keyed)}
RollingDistinct(n) == Cardinality(UNION {hours[h] : h \in Window(n)})

(* called for the day, and then for the week.                                  *)
RollDay ==
    /\ Step("day", "week")
    /\ beat' = [beat EXCEPT !.dayAt = keyed, !.day = RollingDistinct(DAY)]
    /\ UNCHANGED <<hour, tallies, wire, coverage, arrived>>

RollWeek ==
    /\ Step("week", "prune")
    /\ beat' = [beat EXCEPT !.weekAt = keyed, !.week = RollingDistinct(WEEK)]
    /\ UNCHANGED <<hour, tallies, wire, coverage, arrived>>

(* _prune, after the record is written: the hours before the cutoff.           *)
Kept(h) == h >= keyed - RETAIN_HOURS

Prune ==
    /\ Step("prune", "hour")
    /\ hours' = [h \in {h \in DOMAIN hours : Kept(h)} |-> hours[h]]
    /\ messages' = [h \in {h \in DOMAIN messages : h \in DOMAIN hours => Kept(h)} |-> messages[h]]
    /\ UNCHANGED <<hour, unparsed, continuations, wire, beat, coverage, arrived>>

HourTurns ==
    /\ hour < MaxHour
    /\ hour' = hour + 1
    /\ UNCHANGED <<tallies, wire, record, coverage, arrived>>

CounterNext ==
    \/ \E c \in Conn : Connect(c) \/ Receive(c) \/ Disconnect(c)
    \/ \E page \in Page : Poll(page)
    \/ HeartbeatTakesHour \/ CountHour \/ RollDay \/ RollWeek \/ Prune \/ HourTurns

CounterSpec == CounterInit /\ [][CounterNext]_counterVars
-----------------------------------------------------------------------------
(* The stations whose sentences arrived whole in the n hours up to this one.   *)
HeardIn(n, now) == {p[2] : p \in {p \in arrived : p[1] \in (now - n + 1)..now}}

Rolls(from, n, count) == beatPc = from /\ beatPc' # from => count = Cardinality(HeardIn(n, keyed))

(* The hour and both rolling windows of a heartbeat count exactly the stations *)
(* whose sentences had arrived whole in them when the lock was taken, for the  *)
(* hour that was read before that: no read boundary loses, doubles or invents  *)
(* a station, no pruning reaches into a window, no window has an hour too many, *)
(* and an hour that turns between two steps moves each window by itself.       *)
RollingExact ==
    [][/\ Rolls("hour", 1, beat'.vessels)
       /\ Rolls("day", DAY, beat'.day)
       /\ Rolls("week", WEEK, beat'.week)]_counterVars
=============================================================================
