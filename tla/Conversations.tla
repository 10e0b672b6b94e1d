----------------------------- MODULE Conversations -----------------------------
(***************************************************************************)
(* stt_proxy/conversations.py and conversation_archive.py: the journal of   *)
(* maritime transmissions, the reaper that takes closed windows out of it   *)
(* and has them resolved into exchanges, the rolling store with its JSON    *)
(* file, and the SQLite archive.  Three actors: the request threads of the  *)
(* proxy (Record), the reaper thread (ReadClock ... ArchiveFails), and the   *)
(* process itself: its main thread's save at exit (ExitSnapshot ...         *)
(* ExitWrites), its end and its restart.                                    *)
(*                                                                          *)
(* A chunk is named by its place in `log`, the history of every             *)
(* transmission ever recorded.  _chunk_seq starts again at 0 in a new       *)
(* process, but no id outlives the process, so only their order within one  *)
(* life matters.  Text, identities and corrections are left out: what is    *)
(* kept of a row is its place in the list and the transmissions it covers.  *)
(***************************************************************************)
EXTENDS Integers, Sequences, FiniteSets, FiniteSetsExt

CONSTANTS Channel,                  \* the X-Whisper-Channel values that are journalled
          CONVERSATION_GAP_S,       \* silence that closes a window
          CONVERSATION_MAX_CHUNKS,  \* chunks that close a window
          CONVERSATIONS_KEEP,       \* rows the rolling store keeps
          MaxHeard,                 \* bound: transmissions of a behaviour
          MaxTime,                  \* bound: the clock stops here
          MaxCrashes,               \* bound: crashes of a behaviour
          MaxExchanges              \* bound: exchanges in one resolver reply

ASSUME WindowAssumption ==
    /\ CONVERSATION_GAP_S \in Nat
    /\ CONVERSATION_MAX_CHUNKS \in Nat \ {0}
    /\ CONVERSATIONS_KEEP \in Nat \ {0}
ASSUME BoundAssumption ==
    /\ MaxHeard \in Nat /\ MaxTime \in Nat /\ MaxCrashes \in Nat /\ MaxExchanges \in Nat

VARIABLES
    now,          \* datetime.now(), in seconds
    log,          \* history: what was recorded, and when
    journal,      \* _conversation_chunks
    pc,           \* where the reaper, or the process starting up, is
    asOf,         \* `now` of _take_closed_windows, read before the lock is taken
    batch,        \* `windows` of _reap_pass not yet begun
    window,       \* the window in hand
    exchanges,    \* what resolve_conversation returned for it
    resolved,     \* _resolved
    file,         \* conversations.json
    todo,         \* rows _archive_rows has still to insert
    db,           \* the conversations table
    saveFailed,   \* the last _save_conversations logged an error
    archFailed,   \* an _archive_rows of this process logged an error
    exitPc,       \* where the main thread is in _save_conversations at exit
    exitRows,     \* `data` of that save, read before the file is opened
    clash,        \* the file was opened for writing while the other thread was writing it
    crashes,      \* bound
    closed,       \* history: windows taken out of the journal in this life
    filed,        \* history: conversations ever added to the rolling store
    raised,       \* history: chunks of windows whose resolution raised
    wiped         \* history: chunks that were only in memory at a crash

proc   == <<pc, asOf, batch, window, exchanges, todo>>
stores == <<resolved, file, db, saveFailed, archFailed>>
hist   == <<closed, filed, raised, wiped>>
exits  == <<exitPc, exitRows, clash>>
vars   == <<now, log, journal, proc, stores, exits, crashes, hist>>

-----------------------------------------------------------------------------
(* _split_windows.  Chunks are recorded under the lock with the time they    *)
(* are recorded at, so journal order, id order and time order agree.         *)

Time(c) == log[c].time

OnChannel(J, ch) == {c \in J : log[c].channel = ch}

(* The chunk at which the talk that c is part of began: no silence longer    *)
(* than the gap between it and c.                                            *)
TalkStart(S, c) ==
    Max({d \in S : d <= c /\ \A e \in S : e < d => Time(d) - Time(e) > CONVERSATION_GAP_S})

(* Windows of one talk are filled in order, CONVERSATION_MAX_CHUNKS each.     *)
WindowNo(S, c) ==
    LET first == TalkStart(S, c)
    IN  <<first, Cardinality({d \in S : first <= d /\ d < c}) \div CONVERSATION_MAX_CHUNKS>>

SplitWindows(S) == {{d \in S : WindowNo(S, d) = WindowNo(S, c)} : c \in S}

(* Mutants of Closed: a silence of exactly the gap ends a window; a window    *)
(* that merely falls quiet is never taken.                                    *)
ClosedAtGap(W, S) ==
    \/ \E d \in S : d > Max(W)
    \/ Cardinality(W) >= CONVERSATION_MAX_CHUNKS
    \/ asOf - Time(Max(W)) >= CONVERSATION_GAP_S

ClosedNeverQuiet(W, S) ==
    (\E d \in S : d > Max(W)) \/ Cardinality(W) >= CONVERSATION_MAX_CHUNKS

(* The condition of _take_closed_windows on one window of a channel's chunks. *)
Closed(W, S) ==
    \/ \E d \in S : d > Max(W)                       \* superseded
    \/ Cardinality(W) >= CONVERSATION_MAX_CHUNKS      \* full
    \/ asOf - Time(Max(W)) > CONVERSATION_GAP_S       \* quiet

ClosedWindows ==
    UNION {{W \in SplitWindows(OnChannel(journal, ch)) : Closed(W, OnChannel(journal, ch))}
           : ch \in Channel}

-----------------------------------------------------------------------------
(* _validate_exchanges.  A reply is the chunk_ids of each exchange of the     *)
(* model's answer: any ids, in several exchanges or none.  An earlier         *)
(* exchange wins a chunk, an exchange left without any is skipped, and what    *)
(* no exchange claimed makes one last row.  The turns of a row are a set: an   *)
(* id that one exchange repeats is repeated in its row, and is not told here.  *)

Replies(W) == UNION {[1..n -> SUBSET (W \union {0})] : n \in 0..MaxExchanges}

(* Mutant of Claimed: a chunk named by two exchanges stays in both.          *)
ClaimedTwice(reply, W, i) == reply[i] \intersect W

Claimed(reply, W, i) == (reply[i] \intersect W) \ UNION {reply[j] : j \in 1..(i - 1)}

(* Mutant of Unclaimed: what no exchange names is forgotten.                  *)
UnclaimedForgotten(reply, W) == {}

Unclaimed(reply, W) == W \ UNION {reply[i] : i \in DOMAIN reply}

RowsUpTo(reply, W, i) == Cardinality({j \in 1..i : Claimed(reply, W, j) # {}})

ValidateExchanges(reply, W) ==
    {[at |-> RowsUpTo(reply, W, i), turns |-> Claimed(reply, W, i)] :
        i \in {j \in DOMAIN reply : Claimed(reply, W, j) # {}}}
    \union
    IF Unclaimed(reply, W) = {} THEN {}
    ELSE {[at |-> RowsUpTo(reply, W, Cardinality(DOMAIN reply)) + 1,
           turns |-> Unclaimed(reply, W)]}

(* The fallback of resolve_conversation: one exchange of the whole window.    *)
Unresolved(W) == {[at |-> 1, turns |-> W]}

-----------------------------------------------------------------------------
(* The stores.  A row's start is the time of its first turn, to the second,   *)
(* and start|channel is the archive's primary key.                            *)

Key(turns) == <<Time(Min(turns)), log[Min(turns)].channel>>

Turns(rows) == {r.turns : r \in rows}

(* Mutant of Newest: the list is never cut.                                   *)
NewestUncut(rows) == rows

(* list[-CONVERSATIONS_KEEP:]                                                 *)
Newest(rows) ==
    {r \in rows : Cardinality({q \in rows : q.at > r.at}) < CONVERSATIONS_KEEP}

(* _resolved.extend(rows), then del _resolved[:-CONVERSATIONS_KEEP].  A row    *)
(* is placed by its number among all rows ever added, so lists keep order.    *)
Extend(list, rows) ==
    Newest(list \union {[r EXCEPT !.at = Cardinality(filed) + r.at] : r \in rows})

Torn == [intact |-> FALSE, rows |-> {}]

Saved(rows) == [intact |-> TRUE, rows |-> rows]

(* No file is read like an empty list: nothing is loaded or re-archived.      *)
NoFile == Saved({})
-----------------------------------------------------------------------------
Init ==
    /\ now = 0 /\ log = <<>> /\ journal = {}
    /\ pc = "load" /\ asOf = 0 /\ batch = {} /\ window = {} /\ exchanges = {} /\ todo = {}
    /\ resolved = {} /\ file = NoFile /\ db = {} /\ saveFailed = FALSE /\ archFailed = FALSE
    /\ exitPc = "no" /\ exitRows = {} /\ clash = FALSE /\ crashes = 0
    /\ closed = {} /\ filed = {} /\ raised = {} /\ wiped = {}

Running == pc \notin {"down", "load", "rearchive"}

Tick ==
    /\ now < MaxTime
    /\ now' = now + 1
    /\ UNCHANGED <<log, journal, proc, stores, exits, crashes, hist>>

(* _record_chunk, on a request thread.  The last transmission of a behaviour  *)
(* comes early enough for its window to fall quiet before the clock stops.    *)
Record(ch) ==
    /\ Running
    /\ Len(log) < MaxHeard
    /\ now + CONVERSATION_GAP_S < MaxTime
    /\ log' = Append(log, [time |-> now, channel |-> ch])
    /\ journal' = journal \union {Len(log) + 1}
    /\ UNCHANGED <<now, proc, stores, exits, crashes, hist>>

(* _conversation_reaper wakes: _take_closed_windows reads the clock ...       *)
ReadClock ==
    /\ pc = "idle"
    /\ asOf' = now
    /\ pc' = "take"
    /\ UNCHANGED <<now, log, journal, batch, window, exchanges, todo, stores,
                   exits, crashes, hist>>

(* ... and, under the lock, moves every closed window out of the journal.     *)
TakeClosedWindows ==
    /\ pc = "take"
    /\ batch' = ClosedWindows
    /\ journal' = journal \ UNION ClosedWindows
    /\ closed' = closed \union ClosedWindows
    /\ pc' = "next"
    /\ UNCHANGED <<now, log, asOf, window, exchanges, todo, stores, exits, crashes,
                   filed, raised, wiped>>

(* The loop of _reap_pass: windows in order of their first chunk's time.      *)
BeginWindow ==
    /\ pc = "next"
    /\ \E W \in batch :
        /\ \A V \in batch : Time(Min(W)) <= Time(Min(V))
        /\ window' = W
        /\ batch' = batch \ {W}
    /\ pc' = "resolve"
    /\ UNCHANGED <<now, log, journal, asOf, exchanges, todo, stores, exits, crashes, hist>>

EndPass ==
    /\ pc = "next"
    /\ batch = {}
    /\ pc' = "idle"
    /\ UNCHANGED <<now, log, journal, asOf, batch, window, exchanges, todo, stores,
                   exits, crashes, hist>>

(* resolve_conversation, and the correction of each exchange, which changes   *)
(* no state and rejects whatever it cannot validate.                          *)
Resolve ==
    /\ pc = "resolve"
    /\ \/ exchanges' = Unresolved(window)
       \/ \E reply \in Replies(window) : exchanges' = ValidateExchanges(reply, window)
    /\ pc' = "store"
    /\ UNCHANGED <<now, log, journal, asOf, batch, window, todo, stores, exits, crashes, hist>>

(* An exchange that is not an object, a null chunk_ids or a vessel that is    *)
(* not a string raises in _validate_exchanges, outside resolve_conversation's *)
(* try.  _reap_pass logs it and goes on with the next window.                 *)
ResolveRaises ==
    /\ pc = "resolve"
    /\ raised' = raised \union window
    /\ window' = {}
    /\ pc' = "next"
    /\ UNCHANGED <<now, log, journal, asOf, batch, exchanges, todo, stores, exits, crashes,
                   closed, filed, wiped>>

(* Mutant of StoreResolved: what is stored is archived, and saved with the     *)
(* next window that is resolved.                                              *)
StoreUnsaved ==
    /\ pc = "store"
    /\ resolved' = Extend(resolved, exchanges)
    /\ filed' = filed \union Turns(exchanges)
    /\ todo' = exchanges
    /\ window' = {}
    /\ exchanges' = {}
    /\ pc' = "archive"
    /\ UNCHANGED <<now, log, journal, asOf, batch, file, db, saveFailed, archFailed,
                   exits, crashes, closed, raised, wiped>>

(* _store_resolved, up to the release of _resolved_lock.                      *)
StoreResolved ==
    /\ pc = "store"
    /\ resolved' = Extend(resolved, exchanges)
    /\ filed' = filed \union Turns(exchanges)
    /\ todo' = exchanges
    /\ window' = {}
    /\ exchanges' = {}
    /\ pc' = "open"
    /\ UNCHANGED <<now, log, journal, asOf, batch, file, db, saveFailed, archFailed,
                   exits, crashes, closed, raised, wiped>>

(* _save_conversations: open(..., "w") empties the file ...                   *)
OpenFile ==
    /\ pc = "open"
    /\ \/ /\ file' = Torn /\ pc' = "write" /\ clash' = (exitPc = "write")
          /\ UNCHANGED saveFailed
       \/ saveFailed' = TRUE /\ pc' = "archive" /\ UNCHANGED <<file, clash>>
    /\ UNCHANGED <<now, log, journal, asOf, batch, window, exchanges, todo, resolved, db,
                   archFailed, exitPc, exitRows, crashes, hist>>

(* ... and json.dump fills it again.  Either may fail, and is swallowed.  Two  *)
(* threads with the file open each write from its start: one list over the    *)
(* other is the longer one whole, or neither.                                 *)
Dump(rows) ==
    \/ file' \in {Saved(rows)} \union (IF clash THEN {file, Torn} ELSE {}) /\ saveFailed' = FALSE
    \/ file' \in {Torn} \union (IF clash THEN {file} ELSE {}) /\ saveFailed' = TRUE

WriteFile ==
    /\ pc = "write"
    /\ Dump(resolved)
    /\ pc' = "archive"
    /\ UNCHANGED <<now, log, journal, asOf, batch, window, exchanges, todo, resolved, db,
                   archFailed, exits, crashes, hist>>

(* insert_conversation: INSERT OR IGNORE.                                     *)
Insert(turns) == IF Key(turns) \in {Key(t) : t \in db} THEN db ELSE db \union {turns}

(* insert_many commits row by row.                                            *)
Archive ==
    /\ pc \in {"archive", "rearchive"}
    /\ \E r \in todo :
        /\ \A q \in todo : r.at <= q.at
        /\ db' = Insert(r.turns)
        /\ todo' = todo \ {r}
    /\ UNCHANGED <<now, log, journal, pc, asOf, batch, window, exchanges, resolved, file,
                   saveFailed, archFailed, exits, crashes, hist>>

AfterArchive == IF pc = "archive" THEN "next" ELSE "idle"

ArchiveDone ==
    /\ pc \in {"archive", "rearchive"}
    /\ todo = {}
    /\ pc' = AfterArchive
    /\ UNCHANGED <<now, log, journal, asOf, batch, window, exchanges, todo, stores,
                   exits, crashes, hist>>

(* The database cannot be opened, or an insert fails: the rows that were      *)
(* inserted stay, the rest are given up, and the error is swallowed.          *)
ArchiveFails ==
    /\ pc \in {"archive", "rearchive"}
    /\ todo # {}
    /\ archFailed' = TRUE
    /\ todo' = {}
    /\ pc' = AfterArchive
    /\ UNCHANGED <<now, log, journal, asOf, batch, window, exchanges, resolved, file, db,
                   saveFailed, exits, crashes, hist>>

(* An orderly exit runs _save_conversations on the main thread while the      *)
(* daemon reaper goes on: it copies the list under the lock, and ...          *)
ExitSnapshot ==
    /\ Running /\ exitPc = "no"
    /\ exitPc' = "open" /\ exitRows' = resolved
    /\ UNCHANGED <<now, log, journal, proc, stores, clash, crashes, hist>>

(* ... empties the file, whatever the reaper has saved since, ...             *)
ExitOpens ==
    /\ exitPc = "open"
    /\ \/ /\ file' = Torn /\ exitPc' = "write" /\ clash' = (pc = "write")
          /\ UNCHANGED saveFailed
       \/ saveFailed' = TRUE /\ exitPc' = "done" /\ UNCHANGED <<file, clash>>
    /\ UNCHANGED <<now, log, journal, proc, resolved, db, archFailed, exitRows, crashes, hist>>

(* ... and fills it with the copy.  The process then dies (Crash).            *)
ExitWrites ==
    /\ exitPc = "write"
    /\ Dump(exitRows)
    /\ exitPc' = "done"
    /\ UNCHANGED <<now, log, journal, proc, resolved, db, archFailed, exitRows, clash, crashes,
                   hist>>

AtExit == ExitSnapshot \/ ExitOpens \/ ExitWrites

(* The process ends: by itself, or terminated by the panel's supervisor.      *)
Crash ==
    /\ pc # "down"
    /\ crashes < MaxCrashes
    /\ crashes' = crashes + 1
    /\ pc' = "down"
    /\ wiped' = wiped \union journal \union (UNION batch) \union window
    /\ journal' = {} /\ batch' = {} /\ window' = {} /\ exchanges' = {} /\ todo' = {}
    /\ resolved' = {} /\ closed' = {}
    /\ exitPc' = "no" /\ exitRows' = {} /\ clash' = FALSE
    /\ UNCHANGED <<now, log, asOf, file, db, saveFailed, archFailed, filed, raised>>

Restart ==
    /\ pc = "down"
    /\ pc' = "load"
    /\ saveFailed' = FALSE /\ archFailed' = FALSE
    /\ UNCHANGED <<now, log, journal, asOf, batch, window, exchanges, todo, resolved, file,
                   db, exits, crashes, hist>>

(* Mutant of LoadConversations: what is loaded is not archived again.         *)
LoadOnly ==
    /\ pc = "load"
    /\ resolved' = Newest(file.rows)
    /\ pc' = "idle"
    /\ UNCHANGED <<now, log, journal, asOf, batch, window, exchanges, todo, file, db,
                   saveFailed, archFailed, exits, crashes, hist>>

(* _load_conversations, before any other thread is started.                   *)
LoadConversations ==
    /\ pc = "load"
    /\ resolved' = Newest(file.rows)
    /\ todo' = resolved'
    /\ pc' = IF file.intact THEN "rearchive" ELSE "idle"
    /\ UNCHANGED <<now, log, journal, asOf, batch, window, exchanges, file, db,
                   saveFailed, archFailed, exits, crashes, hist>>

Reaper ==
    \/ ReadClock \/ TakeClosedWindows \/ BeginWindow \/ EndPass
    \/ Resolve \/ ResolveRaises \/ StoreResolved
    \/ OpenFile \/ WriteFile \/ Archive \/ ArchiveDone \/ ArchiveFails

Next ==
    \/ Tick
    \/ \E ch \in Channel : Record(ch)
    \/ Reaper
    \/ AtExit \/ Crash \/ Restart \/ LoadConversations

Spec == Init /\ [][Next]_vars

(* Time passes; the reaper is a loop that sleeps CONVERSATION_POLL_S, and     *)
(* every step of it ends: the resolver's call has a timeout, the others are   *)
(* local.  A process that died is started again.                              *)
FairSpec ==
    /\ Spec
    /\ WF_vars(Tick) /\ WF_vars(Reaper) /\ WF_vars(Restart) /\ WF_vars(LoadConversations)
-----------------------------------------------------------------------------
(* Properties.                                                                *)

Rows == [at : Nat, turns : (SUBSET (1..Len(log))) \ {{}}]

(* Every variable has its type; in particular nothing but recorded            *)
(* transmissions gets into a row, whatever ids the model's reply holds.       *)
TypeOK ==
    /\ now \in Nat
    /\ log \in Seq([time : Nat, channel : Channel])
    /\ journal \subseteq 1..Len(log)
    /\ pc \in {"down", "load", "rearchive", "idle", "take", "next", "resolve", "store",
               "open", "write", "archive"}
    /\ asOf \in Nat
    /\ batch \subseteq SUBSET (1..Len(log))
    /\ window \subseteq 1..Len(log)
    /\ exchanges \subseteq Rows /\ todo \subseteq Rows
    /\ resolved \subseteq Rows
    /\ file \in [intact : BOOLEAN, rows : SUBSET Rows]
    /\ db \subseteq SUBSET (1..Len(log))
    /\ saveFailed \in BOOLEAN /\ archFailed \in BOOLEAN
    /\ exitPc \in {"no", "open", "write", "done"} /\ exitRows \subseteq Rows /\ clash \in BOOLEAN
    /\ crashes \in Nat
    /\ closed \subseteq SUBSET (1..Len(log)) /\ filed \subseteq SUBSET (1..Len(log))
    /\ raised \subseteq 1..Len(log) /\ wiped \subseteq 1..Len(log)

Disjoint(C) == \A a, b \in C : a # b => a \intersect b = {}

(* A transmission is in one place only: journalled, in a window waiting or in *)
(* hand, in a conversation, or lost with its window or its process.  Neither  *)
(* a request thread recording while the reaper takes windows, nor a window    *)
(* that raises, nor a reply that names a chunk twice or not at all, loses or  *)
(* doubles one (_take_closed_windows, _validate_exchanges, _reap_pass).       *)
OneHome ==
    /\ 1..Len(log) = journal \union (UNION batch) \union window
                        \union (UNION filed) \union raised \union wiped
    /\ Disjoint(batch) /\ Disjoint(filed)
    /\ (UNION batch) \intersect (journal \union window \union (UNION filed) \union raised \union wiped) = {}
    /\ journal \intersect (window \union (UNION filed) \union raised \union wiped) = {}
    /\ window \intersect ((UNION filed) \union raised \union wiped) = {}
    /\ (UNION filed) \intersect (raised \union wiped) = {}

(* However often the process restarts, reloads conversations.json and         *)
(* archives it again, no two rows of a list share a transmission, list and    *)
(* table show nothing that was not resolved, and a list has one order and at  *)
(* most CONVERSATIONS_KEEP rows (_load_conversations, _store_resolved).       *)
InOneRow ==
    /\ \A rows \in {resolved, file.rows} : Cardinality(rows) <= CONVERSATIONS_KEEP
    /\ Turns(resolved) \union Turns(file.rows) \union db \subseteq filed
    /\ \A rows \in {resolved, file.rows} :
          \A p, q \in rows : p # q => p.turns \intersect q.turns = {} /\ p.at # q.at

(* Talk is cut only at a silence longer than the gap or at the size limit:    *)
(* no transmission is recorded within the gap of a window the reaper has      *)
(* already closed as quiet, though it reads the clock before it has the lock. *)
NoEarlyClose ==
    \A W \in closed : \A c \in 1..Len(log) :
        /\ log[c].channel = log[Max(W)].channel
        /\ c > Max(W)
        /\ Time(c) - Time(Max(W)) <= CONVERSATION_GAP_S
        => Cardinality(W) = CONVERSATION_MAX_CHUNKS

(* Between two passes the JSON file is the list in memory, unless the last    *)
(* save failed: killing an idle proxy costs no conversation.  The save of an  *)
(* orderly exit may spoil this in three ways only: it is under way, the       *)
(* reaper was writing while it was, or it put back a list that the reaper has *)
(* added to since it was copied.                                              *)
RollingFileCurrent ==
    /\ pc \in {"idle", "take"} /\ ~saveFailed
    /\ exitPc # "write" /\ ~clash /\ (exitPc = "done" => exitRows = resolved)
    => file.rows = resolved

(* Between two passes every conversation in memory is in the archive, or lost *)
(* its start|channel to another one, unless an insert failed since the        *)
(* process started: the restart repairs what an earlier process left out.     *)
ArchiveCovers ==
    pc \in {"idle", "take"} /\ ~archFailed =>
        \A r \in resolved : \E turns \in db : Key(turns) = Key(r.turns)

(* What the archive holds is never replaced or removed (INSERT OR IGNORE).    *)
ArchiveNeverRewrites == [][db \subseteq db']_vars

InHand == journal \union (UNION batch) \union window

(* Every journalled transmission leaves the journal and the reaper's hands:   *)
(* its window falls quiet, however the other windows end.                     *)
Settles == \A c \in 1..MaxHeard : c \in InHand ~> c \notin InHand

(* The journal, the windows and the stores implement the ledger.              *)
Promise == INSTANCE Ledger WITH heard <- Len(log), held <- InHand,
                                lost <- raised \union wiped
ImplementsLedger == Promise!Spec

(* conversations.py:850, _validate_exchanges is to "account for every         *)
(* transmission": no window is dropped for what the model's reply looks like. *)
EveryReplyAccountsForAll == raised = {}
===============================================================================
