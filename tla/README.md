# A TLA+ model of the SDR# speech-to-text plugin and its proxy

This directory holds the specifications, model-checking runs and proofs for the
program in this repository: an SDR# plugin (C#) that cuts received audio into
chunks, a Python proxy that has them transcribed, works out who was talking and
keeps what was said, and a web panel that runs the proxy and shows what it keeps.
`tlc -config X.cfg M` checks a run, `tlapm M.tla` a module's proofs.

## 1. The system

    SDR# audio thread --> queue --> consumer (VAD) --> send queue --> send loop
                                                                        | HTTP, 60 s
    panel (FastAPI) --starts, stops--> proxy: request threads  <--------+
       |   ^                            |    |       |      \--> whisper.cpp / Groq
       |   | cached pages, lamps        |    |       +--> journal --> reaper --> model
       |   +----------------------------+    |                          |
       |                                     |        conversations.json, SQLite archive
       |   AIS feed (poll or websocket) --> vessel cache --> saver's file
       |   ADS-B poller --> ring, daily log --> flight attribution --> air archive
       +-- settings file, sessions, operator's moves and verdicts --> labels --> benches
    station counter: receivers --> hourly tallies --> heartbeat log

| component | state | operations | what is hard |
|---|---|---|---|
| `VoiceActivityDetector.cs` | pre-roll queue, circular onset window with a running count, speech buffer, counters | `ProcessFrame`, `Reset` | boundaries: onset over a window, hangover trimmed with a setting that may have changed, the flush of long speech, rejection |
| `AudioProcessor.cs` | two bounded queues, VAD switch, drop counters | `Process` (real-time thread), `ConsumeAsync`, `SendLoopAsync`, `VadLevel` | TryAdd/TryTake/TryAdd on a full queue is three steps; a slow server must not reach the audio thread; a mode switched mid-stream |
| `WhisperClient.cs`, `whisper-proxy.py` | - | one POST, 60 s in all; `do_POST` | the client's timeout is shorter than the proxy's own: the thread goes on |
| `backends.py` | in-flight table, child process, quota | transcribe, retry, watchdog, kill and reload | a watchdog that restarts what a request is waiting for; replies about a quota read out of order |
| `conversations.py`, `conversation_correct.py` | journal, id counter, resolved list, JSON file | `_record_chunk` (request threads), the reaper, atexit | windows leave the journal before they are stored; the model's reply is free; save and archive fail separately; restart |
| `conversation_archive.py` | SQLite tables | insert-or-ignore, import, comments, export | a key of start and channel; rows committed one by one; a file that another program reads |
| `ais.py` | four indexes over shared mutable entries, pending reports, scope, cache file | `record`, `set_in_scope`, lookups, save, load | renames, two ships with one name, lookups on a snapshot, saving without the lock |
| `ais.py` (feed), `aishub.py` | feed status, back-off, silence watch | connect, read, retry; `poll_once` | a connection that opens and dies at once; one that stays open and says nothing |
| `corrections.py`, `identify.py` | - | text rules, lookups | a callsign believed that nobody said; a choice between ships that is not shown |
| `adsb.py`, `flight_attribution.py`, `air_archive.py`, `flight_identify.py` | ring of snapshots, daily log, rows | poll, two-stage attribution, an operator's move | a decision taken twice, a late poll, two processes on one row, a callsign matched while the traffic is replaced |
| `webapp/supervisor.py`, `ports.py`, `config_store.py`, `settings_api.py` | pid files, settings file | start, stop, restart, status, save | no lock between check and act; reused pids; a second timeout; read-merge-rename |
| `webapp/auth.py`, `credentials.py` | sessions, attempts | login, logout, new password | the check and the record of a login are apart, and neither locks |
| `webapp/proxy_data.py`, `health.py` | cached collections, lamps | read through a lock, look | old data shown as new; a lamp that lies |
| `ais_station_count.py` | tallies by hour, receivers, record | receive, poll the page, heartbeat, prune | lines split over reads; the hour turns between two looks |
| `ContinuousRecorder.cs`, `ChunkRecorder.cs`; filters; the plugin's form | | | see "Not modelled" |

What makes each correct:

* detector: speech is sent in order, once, with its onset, and never trimmed; noise is not sent.
* pipeline: order, the oldest is what is dropped, losses are counted, nothing stalls.
* transcription: a stuck call is cut short and the table of calls is exact; what was heard is
  answered and journalled whatever fails behind it; order is lost only to a timeout.
* conversations: every transmission ends in one conversation or is lost by a named event; talk is
  cut only at a silence; what is filed stays filed and survives a restart.
* vessel cache: one entry a ship; every ship found under its present name and never under an old one;
  what a name shows is ranked under the scope that is published; a restart loses no ship.
* identification: a callsign is evidence only if said, and always if said; a name two ships have is
  shown as such; one conversation's context edits no other's words.
* feed: retries back off and come back; silence is reported.
* air: the evidence of a row is what was recorded around it, wherever it was read from; it is decided
  once; an operator's move wins; a row that fails while it is decided stalls no other (one that does not
  decode does, `air_stall`); no flight is named whose number was not said.
* supervisor and settings: one child of a name, and the panel can find it; nothing else is killed;
  a save takes back no key that was changed before the save read the file (of saves at once the
  last wins); a setting that a running child read and that has changed since has been named.
* panel: a count of failed logins takes in no more than the limit and one per other thread; a stale
  copy flagged; a green lamp is a feed that delivers.
* station counter: an hour, a day and a week of a heartbeat count exactly the stations heard whole
  in them.
* labels: the exported verdicts are read back to the same conversations and ships.

## 2. Modules

| module | models | checked by |
|---|---|---|
| `Ledger` | what the journal and its stores promise: heard, in hand, filed for good or lost | refined by `Conversations` |
| `Conversations` | `conversations.py` and the inserts of `conversation_archive.py` | `MCConversations` |
| `Vad` | `VoiceActivityDetector.cs` | `MCParts` |
| `AudioPipeline` | `AudioProcessor.cs`, extends `Vad` | `MCAudioPipeline` |
| `Transcription` | `WhisperClient.cs`, `do_POST`, `backends.py` | `MCTranscription` |
| `VesselCache` | `ais.py` (cache part) and one poll of `aishub.py` | `MCVesselCache` |
| `Corrections`, `AisMatch`, `Identify` | `corrections.py`; lookups of `ais.py`; `identify.py`, the resolver's half of `conversations.py`, `conversation_correct.py` | `MCIdentify`, in `MCParts` |
| `AirAttribution` | `adsb.py` (poller, ring, log), `flight_attribution.py`, `air_archive.py`, the panel's move, `air_view.py`'s strips | `MCAirAttribution` |
| `SettingsStore`, `Supervisor`, `Panel` | the settings form and file; child processes; both together under a restart of the panel | `MCPanel` |
| `PanelLogin`, `PanelFeeds` | logins and sessions; cached pages and lamps | `MCFeeds`, in `MCParts` |
| `AisStream`, `StationCounter` | the websocket feed of `ais.py`; `ais_station_count.py` | `MCFeeds`, in `MCParts` |
| `FlightIdentify`, `Labels` | `flight_identify.py`; comments, their export, and `bench_identify.py`'s reading and scoring | `MCFeeds`, in `MCParts` |
| `ConversationsProofs` | theorems about `Conversations` | `tlapm` |
| `AudioProofs` | theorems about `Vad` and `AudioPipeline` | `tlapm` |
| `TranscriptionProofs` | theorems about `Transcription` | `tlapm` |
| `AisProofs` | theorems about `VesselCache`, `AisStream` and `StationCounter` | `tlapm` |
| `AirProofs` | theorems about `AirAttribution` | `tlapm` |
| `IdentifyProofs` | theorems about `Identify` and `FlightIdentify` | `tlapm` |
| `PanelProofs` | theorems about `Panel` (with `SettingsStore` and `Supervisor`), `PanelLogin`, `PanelFeeds` | `tlapm` |
| `LeastElement` | a set of naturals has a least element, a bounded one a greatest | `tlapm` |

### Conversations

`Record` is `_record_chunk` on a request thread. The reaper is a sequence of steps told apart by `pc`, cut
where another thread or a crash can come between: `ReadClock` (the clock is read before the lock),
`TakeClosedWindows`, then for each window `BeginWindow`, `Resolve` or `ResolveRaises`, `StoreResolved`,
`OpenFile`, `WriteFile`, `Archive` (a row at a time) and `ArchiveDone` or `ArchiveFails`. The main thread's
save at exit is three steps as well: `ExitSnapshot` copies the list under the lock, `ExitOpens` truncates
the file, `ExitWrites` fills it with the copy; the daemon reaper runs on between them, so an older copy may
replace what it has saved, and two open files may clash (`Dump`, `clash`); `Crash` loses memory and keeps
file and table; `Restart` and `LoadConversations` read the file and archive it again. A transmission is its
number in a history of everything heard; the text is left out. A reply of the model is any function from
exchanges to sets of ids, one of them unknown. Rows are kept with their place among all rows ever added, so
a list is a set of rows.

An earlier exchange of a reply wins a chunk, as in the code. A chunk id repeated
*inside* one exchange is repeated in its row; sets do not show that. The clock is
monotone; `datetime.now()` is not (summer time).

`Ledger` is the abstract specification: `Hear`, `File` a set of transmissions
into conversations that partition it, `Lose`. The refinement maps what is
journalled, waiting or in hand to *held*, and what a raised resolution or a crash
took to *lost*. It says that a transmission is filed once and for good. It leaves
open that losing is what a crash may do; `OneHome` names where it may happen.

### Vad and AudioPipeline

A frame is its number. Whether it is active is a free choice for each frame,
which covers every level, noise floor and squelch. `SilenceMs` is chosen anew for
each frame, because the panel may set it at any time. `ProcessFrame` is split by
its outcome into `StayIdle`, `OpenSegment`, `Continue`, `CloseSegment` and
`FlushSegment`; the last two include `FinalizeChunk`.

`AudioPipeline` adds the two queues. `Process` and `EnqueueForSend` are three
steps each (add; take the oldest; add again), with the other thread free between
them, as in the code. The consumer reads `VadLevel` once for a frame; a switch
resets the detector and the buffers. `SendEnds` is any end of a POST, and nothing
says it comes. `SendLoopCrashes` is an exception outside the two `try` blocks of `SendChunk`
(conditioning, decimation, normalising): the loop ends, and nothing is posted again. A buffer of
SDR#'s is one detector frame; the sample rate does not
change. `Dispose`, filters, statistics and the channel read at send time are left out.

### Transcription

One thread of the proxy for each chunk a client sends. `Send`, `Arrives` and `GivesUp`
are the client, which goes on to its next chunk after `CLIENT_TIMEOUT` while the thread
runs; `Attempt`, `WhisperAnswers`, `CallRaises`, `GroqServes`, `GroqRead` and `Resumes`
are a backend's attempts with their retries; `Extracted`, `Record` and
`PostProcessRaises` are the rest of `do_POST`: log, journal, reply, each failure
where the code catches it. `Look`, `Restart`, `RestartFails`, `Cooled` and `Loaded` are
the watchdog and the server it kills and reloads; `Hangs` is the server's own fault.
Quota replies may be read in another order than they were served, and across `Midnight`.
Time is in ticks, and what is due happens before the clock moves: timeouts are exact,
scheduling delay is left out.

### VesselCache

An entry is an id into `heap`, because the code's indexes share mutable dicts;
of its fields are kept MMSI, name, callsign, distance and time of the last fix.
Each operation under `_cache_lock` is one action. `Record` is `record()`: `Update`
for a known or adopted entry, `Hold` for a ship without a name, `Admit` for its
first name. `PollBegins`, `PollRecords`, `PollRaises` and `SetInScope` are a poll
of AISHub, `StreamFrame` a frame of aisstream; a deployment has one of the feeds.
`Snapshot` is the copy a name lookup works on, `MatchByName` what it then answers.
A save is three steps, and may fail in the second or third; `Load` is a restart.
Ties of the ranking are left open: the code settles them by the order in which
ships took the name. The type of ship in the ranking, the fuzzy score and the
freshness window are left out. The exit's own save is the saver's.

### Corrections, AisMatch, Identify

`Corrections` has the text functions: a text is a sequence of words, the code's tables
(phonetic alphabet, stop lines, respellings) are constants, and spelled-out callsigns
are sequences of characters. The rule that respells "center" and its kin before Maas
(`_correct_maas_before_centre`) is left out. `AisMatch` has the lookups over a fleet in which a ship has
one entry: by name, by resemblance, by callsign, by a part of one; how alike two names
sound is the table `Ratio`. `Identify` follows one window from the text heard to the row
stored: `Hear`, `Extracts` (any answer of the extraction model, or none that parses),
`Ask` (the candidates as they then stand), `Resolves` or `Unresolved`, `Correct` for each
exchange with any reply, and `Store`. `Feed` changes the fleet between any two steps.

### AirAttribution and FlightIdentify

`Poll` is a good response: the cache is replaced and the ring grows; `WriteLog`
follows, and may fail and leave part of a line, which spoils the next one as well. What was
ever polled is kept as `history`, and the places of it that the log lacks as `unlogged`.
`PollFails` learns nothing. `Hear` and `Record` are stage 1 with its two reads of the
cache; `PassBegins`, `RecheckRow` and `RecheckFails` are a pass of stage 2, row by row,
each with its own look at the ring or the log. `PassRaises` is a pass that ends before its first row:
the archive cannot be read, or a pending row's JSON does not decode (`Undecodable`), which
`pending_echo` does for all rows at once. `Move` is the panel, another process;
the strips and evidence it shows are read from the rows. `Restart` empties what is in
memory and may switch `AIR_ECHO_ENABLED`. Numbers are equal or not (the tolerances of
`_close` are left out); a callsign names the aircraft of that hex or none. The cache of
parsed day files is left out because it is keyed by size and time of the file; pruning
concerns days that no window reaches. Passes that find nothing due, and the 15 s between
passes, are left out: a pass may begin at any time. The clock is monotone, and the few
statements between a request's clue and its row, and between ring and log, take no tick.

`FlightIdentify` is how the callsign is found: `Hears` a transmission, then
`MatchesExactly`, `MatchesFuzzily` and `QnhRepair`, each reading what is in range by
itself, with `Replaced` between any two.

### SettingsStore, Supervisor, Panel

`SettingsStore` has one setting of each type the schema has (text, integer, path, box, choice, switch,
secret), with what a submitted text strips, parses and splits to as functions. A save is `Submit`,
`ReadStored`, `Replace` or `WriteRaises`, without a lock. `Supervisor` has the operating system's processes
in `os`, each with image, port, creation number and what it was started with (`Carries`: every exported
setting for every child, and for the counter the port and the log directory of its argv; `Reads` is what the
child makes of it: the proxy its environment, the counter only its argv); a request is a chain of steps, cut
at each read, unlink, kill, spawn and write of the code, since nothing locks a pid file. Three histories
name what a property makes an exception of: `crossed`, the names on which two requests acted at once, which
a panel left in a request or under a changed `LOG_DIR`, or whose new pid file a status request was about to
unlink; `undone`, the keys that a save took back because it had read the file before they were acknowledged;
`mended`, that a damaged file was replaced by such a save. What goes wrong there is not passed over:
`OneListener`, which a run of its own refutes, `SavesMerge` and `LogDirReported` are the same promises
without the exceptions. `Exit`, `Bind`, `Stranger` (on a free pid) and `WaitTimesOut` are the world's.
`Panel` puts both together: a save's reply says whom to restart, and the panel itself may restart, also
under its requests.

### PanelLogin, PanelFeeds

Nothing of a login is locked, so it is cut where the interpreter may change threads, at calls: `Check`
(`_by_client.get`), `Weigh` (the clock, and the verdict on the object it was given), the slow verification,
then `Succeeds`, or `WrongPassword` (the clock), `FindRecord` (`get`) and `Fails` (a new object stored, or
one added to the one it was given, be it still the client's or not). `made` are the objects of attempts,
`attempts` the one `_by_client` holds; `discarded` counts the guesses that a thread took out of the count by
storing or popping over one it had not seen. `Get` serves a session that has not idled or aged out.
`PanelFeeds` adds readers of a cached collection (`Ask`, `Acquire`, `FetchArrives`, `FetchFails`), the
AISHub poller as its status shows it, the heartbeat log (a line may be half written), and the two lamps. The
loop waits `HEARTBEAT_SEC` and then polls the range map before it writes, so a line is due after
`BeatPeriod`, the wait and that call's timeout. (In the code the timeout is one of each socket operation; a
map that trickles may take longer.)

### AisStream, StationCounter

`AisStream` is `_ais_loop` and `_watch_silence`: attempts, the delay before each with its
jitter, frames that carry AIS data or not, and the watchdog's looks. `StationCounter` has
a sentence in two halves and a newline, and a `Receive` that may end after any of them;
`CountHour`, `RollDay`, `RollWeek` and `Prune` each read the clock (`HeartbeatTakesHour`) and then take
the lock, each by itself, and lines may arrive and the hour may turn between any two of these.

### Labels

A text is a sequence of pieces. `Archived` is a row the proxy inserts, `ImportFiles` the
offline import of day files, `Upsert` is an operator's verdict and note, `LabelsText` the export, `ParseLabels`
what `bench_identify.py` makes of it, `TurnsScored` how a label judges a conversation. `LabelAssumption`
says what a record is: its start and end are the times of its first and last turn
(`conversations.py:1034-1035`), and turns get number and time together under one lock, so the others lie
between; a local clock set back within a conversation is excluded, like everywhere.

## 3. Runs

| run | question | bounds | states |
|---|---|---|---|
| `conversations` | `OneHome`, `InOneRow`, `NoEarlyClose`, `RollingFileCurrent`, `ArchiveCovers`, `ImplementsLedger` | 2 channels, 3 transmissions, 4 s, gap 1, windows of 2, 2 rows kept, 1 crash, 2 exchanges | 5.5 M |
| `conversations_live` | `Settles` | 1 channel, no crash, 1 row kept | 90 k |
| `reply` | expected violation: a reply can lose a window | 1 channel, no crash | |
| `pipeline` | `InOrder`, `LossesCounted`, `NoMixedModes`, `NeverStalls` | 6 frames, queues of 2 and 1, 2 switches, a send loop that may end | 400 k |
| `vessel_cache` | `OwnEntry`, `FoundUnderOwnName`, `BestShown`, `NoGhosts`, `SurvivesRestart` | 2 ships, 3 names (one an artefact), 2 callsigns, 2 polls or frames, 1 save, 1 crash | 410 k |
| `air` | `EvidenceIsTheRecord`, `StatesAreOfThatMoment`, `EveryRowIsDecided` | 2 aircraft, 2 transmissions (the row of one unreadable), 10 ticks, ring of 5, 1 change of traffic, 1 failure, 1 restart, 1 move | 294 k |
| `air_stall` | expected violation: a row that does not decode stalls stage 2 | the same | |
| `panel` | `OneChild`, `SettingsStick`, `RestartReported`, `KillsOnlyOurs` | 2 programs, 3 requests, 2 saves, 3 pids and lives, 1 stranger, 2 waits that time out, 1 failing write, 1 restart of the panel | 1.4 M |
| `one_listener` | expected violation: two starts at once | the same | |
| `parts` | of the panel and the feeds: `GuessesBounded`, `FreshOrFlagged`, `LampsHonest`, `FeedPaced`, `SilenceSaid`, `RollingExact`, `FlightWasHeard`, `LabelsAgree` | below | 3.3 M |
| | of the identification: `CorrectedInOwnExchange`, `CallsignEvidence`, `SharedNameShown` | 2 transmissions of 7, 4 ships, 1 report | (0.7 M of these) |
| | of the detector: `SentInOrder`, `SpeechKept` | 16 frames, onset 2 of 3, pre-roll 4, two silences, flush at 6, minimum 3 and 50 % | (0.3 M of these) |
| `backend` | `StuckIsCutShort`, `OutOfOrderOnlyAfterTimeout`, `SpeechSurvives`, `QuotaSaid` | 2 clients, 3 chunks, 2 faults, a quota of 4 | 1.9 M |
| `callsign_wins` | expected violation: a ship that said its callsign loses its row | as the identification of `parts` | |

`parts` is one run over parts that share no state: the variables `part` and `moving` pick the one
that a behaviour moves, and the others stay as they began, so each behaviour satisfies the
part's own specification (`VadSpec`, `IdentifySpec`, `LoginSpec`, `StreamSpec`, ...) and all
interleavings inside a part are explored.

Why these bounds are enough:

* Conversations: three transmissions make a full window and one that is superseded, or two
  channels with a window each; two exchanges overlap, omit and leave a rest; two rows kept make a
  third push one out; a gap of 1 in a clock to 4 gives silences below, at and above it.
* Vad: sixteen frames hold an onset, a flush at 6, and a second segment. Pipeline: a send queue of
  one and a frame queue of two fill, and both drop.
* Vessel cache: every collision and rename there is, is between a pair of ships; one save and one
  crash make a restart from what was saved and from what was not.
* Air: a window begins five ticks before and the ring holds five polls of two ticks; a prompt pass
  finds it in the ring, a late one and one after the restart in the log. Polls are answered at
  once (`FETCH_TIMEOUT` 0; with 1 the invariants hold as well, over 13 M states).
* Transcription: timeouts keep the order of the code's (the client's shorter than the socket's,
  the threshold shorter than the client's); two clients overlap calls, a chunk after a timed-out
  one overtakes it, and two faults make a restart that fails or a server that hangs again.
* Panel: the bounds are spent in four ways, chosen in the initial state: three requests; two with a
  save; two with a stranger and a restart of the panel; one with two saves and a restart. Two
  requests on one name, a stop whose waits time out, a reused pid (three pids, three lives), both
  programs at once and overlapping saves all occur.
* Feeds: two guessers pass the throttle together, and three objects of attempts in a window of one and a
  clock to three are enough for one to be replaced, popped or added to behind the other's back; two readers
  share a fetch; four failures double the delay past its cap; two receivers split every sentence over reads
  and hours; the vocabularies hold each shape of callsign, QNH and altitude the code tells apart; verdicts
  and notes hold every separator, and conversations share times, run past midnight or have no end.
* Identify: two transmissions, four ships of which two have one name, one report that renames or
  adds a ship; the vocabulary has a name, a misheard name, a callsign whole, in part and wrong.

`MaxHeard`, `MaxTime`, `MaxCrashes`, `MaxExchanges`, `MaxFrames`, `MaxToggles`, `MaxReports`, `MaxSaves`,
`MaxFailures`, `MaxChanges`, `MaxMoves`, `HeardAt`, `RestartAt`, `MaxFaults`, `MaxRequests`, `MaxBorn`,
`MaxMade`, `MaxStrangers`, `MaxStuck`, `MaxPanelRestarts`, `MaxClock`, `ShortClock`, `LoginClock`,
`MaxSignIns`, `MaxFetches`, `MaxEvents`, `MaxRead`, `MaxHour`, `MaxPolls`, `MaxReplaced`, `MaxEdits` and
`MaxTurns` bound the models only. `CHECK_DEADLOCK FALSE` is set where those bounds end the behaviour:
everywhere but in the runs of `Conversations`, where the reaper never ends.

### Fairness

`FairSpec` of Conversations: the reaper is a loop whose steps end - the resolver's
call has a timeout, the rest is local - and time passes; a process that died is
started again. Nothing is assumed of the request threads. `PipeFairSpec`: the
consumer has a thread and none of its steps waits; the audio thread and the send
loop are not assumed fair, so `NeverStalls` holds with a server that never answers.
`Fairness` of AirAttribution: the poller and stage 2 are endless loops in daemon threads
that catch what a step raises, a request that has its clue ends, and time passes; which rows
fail is not assumed fair, only that a failure other than an unreadable row is not for ever.
Elsewhere a promise in time is a bound: `StuckIsCutShort`, `SilenceSaid` and `FeedPaced`
are invariants over ages.

### What the expected violations say

* `reply` - `conversations.py:860`. A reply of the wrong shape raises outside the `try` of
  `resolve_conversation`; the window is out of the journal and in no store.
* `callsign_wins` - `conversations.py:615`. The resolver's answer is looked up by name in a dict in
  which the last candidate of a name wins, so a ship that spelled out its callsign loses its row to
  a weaker candidate of the same name.
* `air_stall` - `air_archive.py:122`. `pending_echo` decodes every pending row in the header of the
  loop, outside the `try` around one row, so a row that does not decode ends each pass before it
  begins and later rows stay pending: what `flight_attribution.py:159` means to exclude.
* `one_listener` - `supervisor.py:163`. Two starts at once both find the program stopped and the
  port free, and two children listen on it, which `supervisor.py:7` means to exclude.

### Other divergences seen while modelling

Those with a name in brackets are stated in the module and fail at the bounds above
(`OutageIsNoNegative` at the code's windows in ticks of 5 s: `POLL_SEC` 3, `WINDOW_BEFORE` 2,
`WINDOW_AFTER` 12, four failed polls, a transmission at 4); no run is kept for them.

* A report older than all held ones is kept and nothing makes room: `ais.py:769` [`PendingBounded`].
  A former callsign still finds a ship: `ais.py:759` [`CallsignFindsItsShip`].
* After a flush the rest of a transmission is judged by counters that started again, and rejected
  against the comment: `VoiceActivityDetector.cs:202` [`RejectsOnlyNoise`].
* A snapshot of the ten seconds before a transmission counts as one after it, so an outage is scored
  as a negative: `flight_attribution.py:57` [`OutageIsNoNegative`].
* A status request's unlink of a stale pid file can remove the file of a process started since. A
  changed `LOG_DIR` leaves pid files behind and `restart_needed` does not name the panel, against
  `settings_api.py:7` [`LogDirReported`].
* Of two saves at once both read the file, and the second `os.replace` takes the first one's
  acknowledged key back, though "values MERGE over what is already stored", `config_store.py:89`
  [`SavesMerge`].
* Every exported setting is in the counter's environment and the log directory in its argv, but a change of
  them names only the proxy or nobody, against the words of `settings_api.py:46` [`CarriersReported`]. The
  counter reads none of them, so what a change needs is still said (`RestartReported`).
* A connection that delivered other frames than AIS is said to be "going stale" though it never
  delivered: `ais.py:468` [`NeverSentSaid`]. An error frame counts as delivered, so a server that
  refuses politely resets the back-off.
* "KLM november two" names KLM2, though `match_flight` says the tail must match exactly
  [`TailExactlySpoken`]; "KLM four one two thousand" gives KLM41.
* A note with a line boundary other than CR and LF makes the whole exported file unreadable
  (`parse_labels` splits with `str.splitlines`), and a tab inside a verdict cuts it
  [`LabelsAlwaysAgree`]. Labels carry no channel, and turns after midnight are placed a day early
  against the docstring at `bench_identify.py:301`, so such turns are not scored [`EveryTurnJudged`].
* A heartbeat whose record has `"ships": null` ends the counter's heartbeat thread; messages of
  hours without an MMSI are never pruned.
* Groq's worst case (30 + 5 + 30 s) is longer than the plugin waits (60 s).
* `validate_reply` accepts a rewritten text that its `changes` do not explain; a ship renamed
  between the question and the validation is looked up under its new name.
* The buffer of recent vessels is never given its fuzzy flag (`conversations.py:83` against the
  comment at 68); the vessel log's page is read without `_log_lock`; the tag shown and the row
  stored for one airband transmission look into the cache separately and may differ.

## 4. Proofs

All theorems hold for every value of the constants that the named assumptions admit. Every
safety invariant and every action property that a run checks is one of them.

### ConversationsProofs

From `WindowAssumption` and `BoundAssumption`: `TypeCorrect` (`TypeOK`),
`EveryTransmissionHasOneHome` (`OneHome`), `ImplementsTheLedger`
(`Spec => ImplementsLedger`) and `TheArchiveIsAppendOnly` (`ArchiveNeverRewrites`).
`OneHome` is not inductive alone: that filing a window's exchanges accounts for
the window depends on what the reaper holds at each step. `IInv` adds `Handover`:
there is no empty window, a batch exists only after it was taken, a window is in
hand only while it is resolved and stored, and at the store its exchanges share it
out. The lemmas under it are about operators: `ValidateSharesOut` (whatever the
reply, `_validate_exchanges` puts each chunk of the window in one row),
`WindowsShareOut` (closed windows are disjoint, not empty, and in the journal) and
`ValidateRows`.

`TheArchiveCovers` (`ArchiveCovers`). The invariant `Covered` follows a row of the
rolling store: it is in the archive, or it is one of those still to be inserted; a torn
file shows no rows. `KeyStays` is what makes a row's key a fact of the past.

`EachInOneRow` (`InOneRow`). The invariant `Filing` says of the list and of the file that their rows
share no transmission and no place, show only what was filed, are at most as many as the bound and have
no place beyond the number of transmissions filed; the rows of a new window, whose places `Numbered` bounds,
are put behind all of them.

`TheFileIsCurrent` (`RollingFileCurrent`). The invariant `Current` extends it to every place the reaper may
stand: unless the last save failed, the file is the list except before it is loaded, between a new row and
the write that follows it, and for what the save at exit does: it is writing, it and the reaper had the file
open together, or its copy is older than the list. Loading keeps it, since a list within the bound loses
nothing when it is read (`NewestKeepsAll`).

`TalkIsNotCutShort` (`NoEarlyClose`). `TalkStart` and the division into windows
are about sets of chunks: `WindowIsAStretch` shows that what lies between two chunks of a window
is in it, `WindowSize` that a window is full when its talk goes on behind it (places in a talk go up
by one, and a window begins at a multiple of the size). The invariant `Cut` says that times never
fall, that a closed window is full or further back than the gap, that what its channel still has
in the journal was recorded after it, and that between a journalled chunk and now nothing
has left but into closed windows. The last two make `Taken` possible: a window that the reaper
takes on a clock read too early is still over, because it is measured against an earlier time.

### AudioProofs

From `VadAssumption` (the pre-roll holds an onset window, the limit is longer than the
pre-roll):

* `VadTypeCorrect` and `TheBufferIsBounded`. `IInv` adds that the running count is the
  number of active verdicts in the circle (`CountKept` shows that taking one out and
  putting one in keeps it so), that the pre-roll keeps to its capacity, and that only
  one of pre-roll and speech buffer is in use;
* `EverythingIsSentInOrder` (`SentInOrder`). `Ordered` places chunks before buffers and
  buffers before frames to come; `ChunkOrdered` is the step that appends a chunk;
* `NoSpeechIsLost` (`SpeechKept`). `SilentTail` says that the last `silentFrames` frames
  of the buffer are silent; what `FinalizeChunk` trims is never longer than that (`TrimKeeps`);
* `SegmentsOpenOnSpeech` (`OpensOnSpeech`). `Circle` dates every verdict of the circle: the one at `i` was given
  `Age` frames ago, so an active one is of a frame that is still in the pre-roll, which is never shorter
  than the circle. `EnoughAtTheOnset` counts those frames by the verdicts, one to one, and `Opened` keeps
  the count until the first chunk of the segment is out.

And with `QueueAssumption`, about the pipeline around the detector: `PipelineTypes`, `LossesAreCounted`
(`LossesCounted`), `AudioStaysInOrder` (`InOrder`), `ModesAreNotMixed` (`NoMixedModes`),
`TheOldestIsDropped` (`DropsOldest`) and `NoHeardSpeechIsLost` (`SpeechKept` of the detector inside the
pipeline, which gets a stream with gaps and is reset between frames). `Piped` has the types, which values of
the audio thread's and the consumer's counters go together, and the queues within their capacities: the
second `TryAdd` finds room because only its own thread adds. `Flowing` lines up everything a frame passes
through: what is in hand, in the queue, in the detector's buffers, in the raw buffer, in chunks and on its
way to the server lies one behind the other, and each of them is of one mode. `Dropped` adds that no chunk
is ever empty (`HeardStep`: a segment with active frames is longer than the silence at its end, so trimming
leaves something) and that a chunk which was thrown out has a later one in the outbox, at first the one it
made room for.

### TranscriptionProofs

From `TranscriptionAssumption` (the watchdog's threshold is below the socket's timeout, its
cooldown at most the threshold and a reload): `TranscriptionTypeOK`, `TableIsExact`
(`InflightExact`; `Entered` says which calls are in the table at each step), `StuckCallsAreCutShort`
(`StuckIsCutShort`; `Watched` bounds the age of a call by the phase of the watchdog and by the
rounds that failed), `JournalOrder` (`OutOfOrderOnlyAfterTimeout`; `Ordered` says which chunks of
a client are settled, awaited and journalled), `SpeechIsAnswered` (`SpeechSurvives`) and
`LowsAreSaid` (`QuotaSaid`).

### AisProofs

From `CacheAssumption`, for any ships, reports, polls, saves and restarts: `CacheTypes`,
`EachShipHasItsEntry` (`OwnEntry`), `ShipsAreFound` (`FoundUnderOwnName`), `TheBestIsShown`
(`BestShown`), `NoGhostAnswers` (`NoGhosts`) and `ShipsSurviveARestart` (`SurvivesRestart`).
The invariant `Found` is the types, `OwnEntry` and `FoundUnderOwnName` together, since the adoption
of an entry needs all three. `BestShown` is preserved beside it. `NoGhosts` needs `Haunts`: a view, new or
old, leads to a ship of that name or to one its own MMSI still finds. `SurvivesRestart` needs `Saved`: what a
save under way has collected, and that an intact file has a row of each ship it was taken from.
`TheScopeIsCaptured` (`ScopeCaptured`, the promise of `aishub.py:247`) needs `ToBeCaptured`: a ship of the poll
under way is captured or still to be recorded, so a poll that is given up publishes nothing.

From `StreamAssumption`: `SilenceIsSaid` (`SilenceSaid`), with `Watching` relating the
watchdog's next look, the silence and what has been said, and `TheFeedIsPaced` (`FeedPaced`), with
`Pacing` relating the delay in force to the failures in a row.

From `CounterAssumption`: `WindowsAreExact` (`RollingExact`: hour, day and week of a heartbeat). What a
connection holds back is the run of tokens after its last newline, whatever the reads were (`HeldBack`,
`ReadIsARun`); so the lines of a read are whole sentences (`LinesAre`), and `CounterInv` says that each hour
less than a week before the step under way holds exactly the ships heard in it, whether its bucket is kept
or there was none.

### AirProofs

From `AirAssumption`: `AirTypes`, `TheEvidenceIsTheRecord` (`EvidenceIsTheRecord`),
`StatesAreNeverLater` (`StatesAreOfThatMoment`) and `ShadowModeHolds`
(`ShadowModeRegroupsNothing`). The invariant `AirInv` says: the history is in time order, and a snapshot not yet
written is its last; the ring is the end of the history; the log is the history without the places it
lacks; a row has the state of its own moment, and a decided row the clue that the history gives; a
row of the pass under way is pending and its window over. The lemma everything rests on is
`SameClue`: a part of the history that covers the window shows the same clue as all of it
(`FoundInEither` for ring and log). That a part covers it takes one clause more than one expects:
after a restart two snapshots may bear the same second.

### IdentifyProofs

From `MatchAssumption` and `IdentifyAssumption` (a row of the file and a report have a number and a name; a name
scores 100 with itself, and nothing more):

* `EachCorrectedAlone` (`CorrectedInOwnExchange`). `Settling` adds that exchanges share no turn
  (`GroupedApart`, whatever the resolver answers) and that one not yet asked about has no correction;
* `CallsignsAreEvidence` (`CallsignEvidence`, an action property). `MarkedByCallsign` shows that the first kind of
  evidence marks a ship, `ExactIs` that such evidence is a callsign of the cache that was spoken;
* `SharedNamesAreShown` (`SharedNameShown`, an action property). `Indexed` says that every ship's name is a
  key of the matcher, `HoldersAreFound` that a name matches itself, however close the next.

From `FlightAssumption`: `NamedFlightsWereHeard` (`FlightWasHeard`). `Identifying` ties the designator in
hand to the transmission, across the two looks into a cache that is replaced in between; `ReachIsTheNumber`
shows that the words taken are all of the number and none beyond, `ExtractedIsSpoken` that what is extracted
was spoken. That a text stays a text through the substitutions (`WordsIsAText`) goes by the least
counterexample: `StepsExist` shows that a function defined by its predecessor exists, `StepsStay` that it
stays in its set, `FlattenIsASequence` applies both to `FlattenSeq`.

From `LabelAssumption`, for any records and any typed texts: `LabelsAgreeAlways` (`LabelsAgree`). `LabelInv`
says that a verdict is stored trimmed and on one line, a note trimmed, and that what is archived under an id
is a record of it. The rest is about text. `FlattenLays` says where every piece of a flattened sequence
lies, by offsets that grow (`OffsetsExist`, `OffsetsGrow`); `CutIntoLines` that a text of lines is cut at
line boundaries into exactly these lines; `LineIs` that a line is understood and its verdict found again;
`FileRead` and `ParsedIs` that the labels are one for each conversation with one ship (`AsMany` counts
them), and `OwnTurnsJudged` that each judges its own turns.

### PanelProofs

From `StoreAssumption` and `DefaultsAssumption`: `SettingsAreKept` (`SettingsStick`; `StoreInv` adds that a
save about to write carries its own values and, of every other key it has not missed, what was
acknowledged), `PanelKnowsItsOwn` (the invariant `Provenance`: pids, pid files and the records that requests
hold are of processes the panel started), `OnlyOursAreKilled` (`KillsOnlyOurs`), `OneChildRuns` (`OneChild`;
`Alone` follows a name that one request at a time acts on) and `RestartsAreReported` (`RestartReported`;
`Honest` says the same of requests that have still to spawn, and `ReadIsNamed` that what a child reads is
among what a reply names it for).

From `LoginAssumption`, for any number of threads: `GuessesStayBounded` (`GuessesBounded`). `Counted` says
that every guess is a failure on the client's object or was taken out of it by a thread that had looked
before, and that the object's failures and the threads which may still add one, because they are past the
check or weigh an object no longer the client's, stay within the bound together.

From `FeedsAssumption`: `OldIsFlagged` (`FreshOrFlagged`; `Fetching` says that a reader which waits with the
lock free took its time just now, or that a fetch has ended since) and `LampsAreHonest` (`LampsHonest`;
`Sources` relates each lamp to the times of its source).

### Only model-checked

* All liveness (`Settles`, `NeverStalls`, `EveryRowIsDecided`): it rests on ENABLED under fairness,
  which the prover does not reach.
* The statements refuted by the four runs that expect a violation.

The modules also state what no run lists but TLC finds true on the bounds of the run of that
module: the type invariants, `BufferBounded`, `ArchiveNeverRewrites`, `InflightExact`, `OpensOnSpeech`,
`DropsOldest`, `ScopeCaptured` and `ShadowModeRegroupsNothing`, all proved, and `MovesWin` and
`SessionsEnd`, each of which follows from one definition and one guard.

## 5. Plan

What is stated of safety is proved. What is left is the recorders' queue, if its loss matters to someone:
it is the pipeline's queue again, of one producer and one writer.

### Not modelled

* `Dsp/` filters, noise estimates, resampling, and the IQ and replay tools: floating-point
  arithmetic over samples, run in one thread.
* The plugin's form and settings dialog: user interface; the two settings that reach a state
  machine (VAD on or off, `SilenceMs`) are free changes in `Vad` and `AudioPipeline`.
* `ContinuousRecorder.cs`, `ChunkRecorder.cs`: see the plan.
* Prompts, few-shot examples, vocabularies and the arithmetic of fuzzy scores: tables in the models.
* Reports of the benches, pages that only read (conversations, clips, logs), HTML.
* The clock going back: all models have a monotone clock, where the code has `datetime.now()`.
