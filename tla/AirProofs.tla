-------------------------------- MODULE AirProofs --------------------------------
(***************************************************************************)
(* AirAttribution.tla for any traffic, transmissions, windows and ring:       *)
(* types, what the evidence and the states of the rows are of, and that       *)
(* shadow mode regroups nothing.                                             *)
(***************************************************************************)
EXTENDS AirAttribution, LeastElement

(* Types, and the clock: nothing is later than now.                            *)
Call == [epoch : Nat, callsign : Callsign \union {Nobody}, hex : Aircraft \union {Nobody},
         numbers : SUBSET Number]

MoveRow == [tx : Tx, to : Key, state : State]

Shapes ==
    /\ AirTypeOK
    /\ now \in Nat /\ sky \in InRange /\ cache.t <= now
    /\ \A x \in DOMAIN calls : calls[x] \in Call /\ calls[x].epoch = now
    /\ \A x \in DOMAIN rows : rows[x].epoch <= now
    /\ unlogged \subseteq DOMAIN history
    /\ heard \subseteq Tx /\ moves \in Seq(MoveRow)

(* Snapshots are in the order of their times; the one about to be logged is of  *)
(* now, and the log does not have it.                                          *)
Taken ==
    /\ \A i, j \in DOMAIN history : i <= j => history[i].t <= history[j].t
    /\ \A i \in DOMAIN history : history[i].t <= now
    /\ unwritten => history # <<>> /\ history[Len(history)].t = now
                                   /\ Len(history) \in unlogged

(* s has, in order, the snapshots of the places e.                             *)
PartOf(s, h, e) ==
    /\ \A i \in DOMAIN s : e[i] \in DOMAIN h /\ s[i] = h[e[i]]
    /\ \A i, j \in DOMAIN s : i < j => e[i] < e[j]

(* The ring is the last of history, the log all of it but what was not logged.  *)
Offset == Len(history) - Len(ring)

RingKept == Offset \in Nat /\ \A i \in DOMAIN ring : ring[i] = history[Offset + i]

LoggedAt(e) ==
    /\ PartOf(log, history, e)
    /\ \A i \in DOMAIN log : e[i] \notin unlogged
    /\ \A k \in DOMAIN history \ unlogged : \E i \in DOMAIN log : e[i] = k

LogKept == \E e : LoggedAt(e)

(* The row of a transmission: a flight it is filed under is one of its clues',  *)
(* and its state that flight's, by the time it was heard.                      *)
Reasoned(key, hex, echoHex) ==
    key.kind = "flight" => \E h \in {hex, echoHex} \ {Nobody} : key = Flight(h)

Filing(r) ==
    /\ r.state.t <= r.epoch
    /\ Reasoned(r.key, r.hex, r.echo.hex)
    /\ r.key.kind = "flight" /\ r.state # NoState => r.state.hex = r.key.of
    /\ r.echo = Pending => /\ r.key = Combine(r.callsign, r.hex, Pending, FALSE)
                           /\ r.state # NoState => r.key.kind = "flight"

(* What is decided was decided after the window, of what history has of it.     *)
Over(r, clock) == r.epoch + WINDOW_AFTER + POLL_SEC <= clock

Start(r) == r.epoch - WINDOW_BEFORE - 2 * POLL_SEC

Missed(r, h, missing) ==
    \E i \in missing : Start(r) <= h[i].t /\ h[i].t <= r.epoch + WINDOW_AFTER

OfRecord(r, clock, h, missing) ==
    r.echo # Pending => /\ Over(r, clock)
                        /\ \/ Missed(r, h, missing)
                           \/ r.echo = EchoClue(r.numbers, r.epoch, h, Start(r))

RowsKept ==
    \A x \in DOMAIN rows : Filing(rows[x]) /\ OfRecord(rows[x], now, history, unlogged)

Waiting == \A x \in pass : rows[x].echo = Pending /\ Over(rows[x], now)

MovesKept ==
    \A i \in DOMAIN moves :
        moves[i].state # NoState =>
            /\ moves[i].to.kind = "flight" /\ moves[i].state.hex = moves[i].to.of
            /\ Gap(moves[i].state, rows[moves[i].tx].epoch) <= MAX_GAP

AirInv == Shapes /\ Taken /\ RingKept /\ LogKept /\ RowsKept /\ Waiting /\ MovesKept
-----------------------------------------------------------------------------
LEMMA ConstantsAre ==
    /\ POLL_SEC \in Nat \ {0} /\ WINDOW_BEFORE \in Nat \ {0} /\ WINDOW_AFTER \in Nat \ {0}
    /\ RING_LEN \in Nat \ {0} /\ MAX_GAP \in Nat
    /\ Nobody \notin Aircraft /\ Nobody \notin Callsign
    /\ InitialSky \in InRange /\ Sky \subseteq InRange /\ Target \subseteq Key
    /\ \A x \in Tx : Utterance[x] \subseteq [callsign : Callsign \union {Nobody}, numbers : SUBSET Number]
<1>1. Utterance \in [Tx -> SUBSET [callsign : Callsign \union {Nobody}, numbers : SUBSET Number]]
  BY AirAssumption
<1> QED BY <1>1, AirAssumption

LEMMA MaxIs ==
    ASSUME NEW n \in Nat, NEW S \in SUBSET (1..n), S # {}
    PROVE  Max(S) \in S /\ \A k \in S : k <= Max(S)
<1>1. S \in SUBSET Nat /\ \A k \in S : k <= n
  OBVIOUS
<1>2. PICK m \in S : \A k \in S : m >= k
  BY <1>1, GreatestNat
<1>3. Max(S) \in S /\ \A k \in S : Max(S) >= k
  BY <1>2 DEF Max
<1>4. \A k \in S : k \in Nat /\ Max(S) \in Nat
  BY <1>1, <1>3
<1> QED BY <1>3, <1>4

LEMMA NothingIs == DOMAIN Nothing = {} /\ Nothing \in InRange
<1>1. DOMAIN Nothing = {} /\ Nothing \in [{} -> Report]
  BY DEF Nothing
<1>2. {} \in SUBSET Aircraft
  OBVIOUS
<1> QED BY <1>1, <1>2 DEF InRange

LEMMA SkyIs ==
    ASSUME NEW s \in InRange
    PROVE  DOMAIN s \subseteq Aircraft
BY DEF InRange

LEMMA SnapshotIs ==
    ASSUME NEW snap \in Snapshot
    PROVE  snap.t \in Nat /\ snap.aircraft \in InRange /\ DOMAIN snap.aircraft \subseteq Aircraft
<1>1. snap.t \in Nat /\ snap.aircraft \in InRange
  BY DEF Snapshot
<1> QED BY <1>1, SkyIs

LEMMA WithinIs ==
    ASSUME NEW s \in Seq(Snapshot), NEW a, NEW b
    PROVE  /\ Len(s) \in Nat /\ DOMAIN s = 1..Len(s)
           /\ Within(s, a, b) \in SUBSET (1..Len(s))
           /\ \A i \in DOMAIN s : s[i] \in Snapshot /\ s[i].t \in Nat
                                  /\ (i \in Within(s, a, b) <=> a <= s[i].t /\ s[i].t <= b)
<1>1. Len(s) \in Nat /\ DOMAIN s = 1..Len(s) /\ \A i \in DOMAIN s : s[i] \in Snapshot
  OBVIOUS
<1>2. \A i \in DOMAIN s : s[i].t \in Nat
  BY <1>1, SnapshotIs
<1> QED BY <1>1, <1>2 DEF Within

(* The clues and what they amount to.                                          *)
LEMMA ClueTypes ==
    ASSUME NEW s \in Seq(Snapshot), NEW numbers, NEW t, NEW since
    PROVE  LET c == EchoClue(numbers, t, s, since)
           IN  c \in Echo /\ c # Pending /\ c.hex \in Aircraft \union {Nobody}
<1> DEFINE before == Within(s, since, t - WINDOW_BEFORE)
           after  == Within(s, t - WINDOW_BEFORE + 1, t + WINDOW_AFTER)
           hits   == Hits(numbers, s[Max(before)].aircraft, {s[i] : i \in after})
           c      == EchoClue(numbers, t, s, since)
<1>1. ASSUME before # {} PROVE hits \subseteq Aircraft
  <2>1. Max(before) \in before
    BY <1>1, WithinIs, MaxIs
  <2>2. DOMAIN s[Max(before)].aircraft \subseteq Aircraft
    <3>1. s[Max(before)] \in Snapshot
      BY <2>1, WithinIs
    <3> QED BY <3>1, SnapshotIs
  <2> QED BY <2>2 DEF Hits
<1>2. \/ \E w \in {"no_numbers", "no_snapshots", "none", "ambiguous"} : c = [status |-> w, hex |-> Nobody]
      \/ before # {} /\ hits # {} /\ c = [status |-> "match", hex |-> CHOOSE h \in hits : TRUE]
  BY DEF EchoClue
<1> HIDE DEF c, hits
<1>3. ASSUME NEW w \in {"no_numbers", "no_snapshots", "none", "ambiguous", "match"},
             NEW h \in Aircraft \union {Nobody}, c = [status |-> w, hex |-> h]
      PROVE  c \in Echo /\ c # Pending /\ c.hex \in Aircraft \union {Nobody}
  <2>1. c.status = w /\ c.hex = h /\ w # "pending" /\ Pending.status = "pending"
    BY <1>3 DEF Pending
  <2>2. c \in Echo
    BY <1>3 DEF Echo
  <2> QED BY <2>1, <2>2
<1>4. ASSUME before # {} /\ hits # {} /\ c = [status |-> "match", hex |-> CHOOSE h \in hits : TRUE]
      PROVE  c \in Echo /\ c # Pending /\ c.hex \in Aircraft \union {Nobody}
  <2> DEFINE g == CHOOSE h \in hits : TRUE
  <2>1. g \in hits
    BY <1>4
  <2>2. c = [status |-> "match", hex |-> g]
    BY <1>4
  <2> HIDE DEF g
  <2>3. g \in Aircraft \union {Nobody}
    BY <1>1, <1>4, <2>1
  <2>4. c \in Echo /\ c # Pending /\ c.hex \in Aircraft \union {Nobody}
    BY <1>3, <2>2, <2>3
  <2> QED BY <2>4
<1>5. ASSUME NEW w \in {"no_numbers", "no_snapshots", "none", "ambiguous"}, c = [status |-> w, hex |-> Nobody]
      PROVE  c \in Echo /\ c # Pending /\ c.hex \in Aircraft \union {Nobody}
  <2>1. w \in {"no_numbers", "no_snapshots", "none", "ambiguous", "match"} /\ Nobody \in Aircraft \union {Nobody}
    BY <1>5
  <2> HIDE DEF Nobody
  <2> QED BY ONLY <1>3, <1>5, <2>1
<1>6. c \in Echo /\ c # Pending /\ c.hex \in Aircraft \union {Nobody}
  BY <1>2, <1>4, <1>5
<1> QED BY <1>6 DEF c

LEMMA CombineIs ==
    ASSUME NEW callsign \in Callsign \union {Nobody}, NEW hex \in Aircraft \union {Nobody},
           NEW echo, echo.hex \in Aircraft \union {Nobody}, NEW enabled
    PROVE  LET k == Combine(callsign, hex, echo, enabled)
           IN  /\ k \in Key
               /\ Reasoned(k, hex, echo.hex)
               /\ hex # Nobody /\ k.kind = "flight" => k = Flight(hex)
<1> DEFINE k == Combine(callsign, hex, echo, enabled)
<1>1. \/ k = Unknown(callsign) /\ callsign # Nobody
      \/ k = Review
      \/ k = Flight(hex) /\ hex # Nobody
      \/ k = Flight(echo.hex) /\ echo.hex # Nobody /\ hex = Nobody
      \/ k = Unassigned
  BY DEF Combine
<1> HIDE DEF k
<1>2. k \in Key /\ Reasoned(k, hex, echo.hex)
              /\ (hex # Nobody /\ k.kind = "flight" => k = Flight(hex))
  BY <1>1 DEF Key, Unknown, Review, Flight, Unassigned, Reasoned
<1> QED BY <1>2 DEF k

(* Stage 1 has no echo clue, so the mode is nothing to it; stage 2, in shadow    *)
(* mode, files what stage 1 did.                                               *)
LEMMA ShadowCombine ==
    \A callsign, hex, echo, enabled :
        /\ Combine(callsign, hex, Pending, enabled) = Combine(callsign, hex, Pending, FALSE)
        /\ Combine(callsign, hex, echo, FALSE) = Combine(callsign, hex, Pending, FALSE)
BY DEF Combine, Pending

(* A row filed under a flight of stage 1 stays with it or goes to review.       *)
LEMMA StaysOrReview ==
    ASSUME NEW callsign, NEW hex, NEW echo, NEW enabled,
           Combine(callsign, hex, Pending, FALSE).kind = "flight",
           Combine(callsign, hex, echo, enabled).kind = "flight"
    PROVE  Combine(callsign, hex, echo, enabled) = Combine(callsign, hex, Pending, FALSE)
<1>1. hex # Nobody
  BY DEF Combine, Pending, Unknown, Unassigned, Review, Flight
<1>2. Combine(callsign, hex, Pending, FALSE) = Flight(hex)
  BY <1>1 DEF Combine, Pending
<1>3. \/ Combine(callsign, hex, echo, enabled) = Review
      \/ Combine(callsign, hex, echo, enabled) = Flight(hex)
  BY <1>1 DEF Combine
<1>4. Review.kind # "flight"
  BY DEF Review
<1> QED BY <1>2, <1>3, <1>4

LEMMA StateIs ==
    ASSUME NEW key \in Key, NEW snap \in Snapshot
    PROVE  /\ StateOf(key, snap) \in State
           /\ StateOf(key, snap) # NoState => /\ key.kind = "flight"
                                              /\ StateOf(key, snap).hex = key.of
                                              /\ StateOf(key, snap).t = snap.t
           /\ StateOf(key, snap).t <= snap.t
<1>1. snap.t \in Nat /\ DOMAIN snap.aircraft \subseteq Aircraft
  BY SnapshotIs
<1>2. NoState \in State /\ NoState.t = 0
  BY DEF NoState, State
<1>3. CASE key.kind = "flight" /\ key.of \in DOMAIN snap.aircraft
  <2>1. StateOf(key, snap) = [hex |-> key.of, t |-> snap.t]
    BY <1>3 DEF StateOf
  <2> QED BY <1>1, <1>3, <2>1 DEF State
<1>4. CASE ~(key.kind = "flight" /\ key.of \in DOMAIN snap.aircraft)
  <2>1. StateOf(key, snap) = NoState
    BY <1>4 DEF StateOf
  <2> QED BY <1>1, <1>2, <2>1
<1> QED BY <1>3, <1>4
-----------------------------------------------------------------------------
(* A part of history shows of a transmission what history does, when it has all *)
(* that was taken after the window's start, and one of the start if any.       *)
Covers(s, h, e, since, until) ==
    \A k \in DOMAIN h : since <= h[k].t /\ h[k].t <= until =>
        \E i \in DOMAIN s : k <= e[i] /\ h[e[i]].t = h[k].t /\ (h[k].t > since => e[i] = k)

Seen(s, places) == {s[i] : i \in places}

LEMMA SameWindow ==
    ASSUME NEW s \in Seq(Snapshot), NEW h \in Seq(Snapshot), NEW e, PartOf(s, h, e),
           NEW since \in Int, NEW until \in Int, Covers(s, h, e, since, until),
           NEW a \in Int, since < a
    PROVE  Seen(s, Within(s, a, until)) = Seen(h, Within(h, a, until))
<1>1. ASSUME NEW i \in Within(s, a, until)
      PROVE  e[i] \in Within(h, a, until) /\ s[i] = h[e[i]]
  <2>1. i \in DOMAIN s /\ a <= s[i].t /\ s[i].t <= until
    BY WithinIs
  <2>2. e[i] \in DOMAIN h /\ s[i] = h[e[i]]
    BY <2>1 DEF PartOf
  <2> QED BY <2>1, <2>2, WithinIs
<1>2. ASSUME NEW k \in Within(h, a, until)
      PROVE  \E i \in Within(s, a, until) : s[i] = h[k]
  <2>1. k \in DOMAIN h /\ h[k].t \in Nat /\ a <= h[k].t /\ h[k].t <= until
    BY WithinIs
  <2>2. since <= h[k].t /\ h[k].t > since /\ h[k].t <= until
    BY <2>1
  <2>3. PICK i \in DOMAIN s : e[i] = k
    BY <2>1, <2>2 DEF Covers
  <2>4. s[i] = h[k]
    BY <2>3 DEF PartOf
  <2>5. i \in Within(s, a, until)
    BY <2>1, <2>3, <2>4, WithinIs
  <2> QED BY <2>4, <2>5
<1> DEFINE ss == Seen(s, Within(s, a, until))
           hh == Seen(h, Within(h, a, until))
<1>3. \A x \in ss : x \in hh
  BY <1>1 DEF Seen
<1>4. \A x \in hh : x \in ss
  BY <1>2 DEF Seen
<1> HIDE DEF ss, hh
<1>5. ss = hh
  BY <1>3, <1>4
<1> QED BY <1>5 DEF ss, hh

LEMMA SameLast ==
    ASSUME NEW s \in Seq(Snapshot), NEW h \in Seq(Snapshot), NEW e, PartOf(s, h, e),
           NEW since \in Int, NEW until \in Int, Covers(s, h, e, since, until),
           NEW b \in Int, b <= until
    PROVE  /\ Within(s, since, b) = {} <=> Within(h, since, b) = {}
           /\ Within(s, since, b) # {} => s[Max(Within(s, since, b))] = h[Max(Within(h, since, b))]
<1> DEFINE S == Within(s, since, b)
           H == Within(h, since, b)
<1>1. S \in SUBSET (1..Len(s)) /\ H \in SUBSET (1..Len(h)) /\ Len(s) \in Nat /\ Len(h) \in Nat
      /\ DOMAIN s = 1..Len(s) /\ DOMAIN h = 1..Len(h)
  BY WithinIs
<1> HIDE DEF S, H
<1>7. (\A i \in S : i \in Nat) /\ (\A k \in H : k \in Nat)
  BY <1>1
<1> USE DEF S, H
<1>2. ASSUME NEW i \in S PROVE i \in DOMAIN s /\ e[i] \in H /\ s[i] = h[e[i]]
  <2>1. i \in DOMAIN s /\ since <= s[i].t /\ s[i].t <= b
    BY WithinIs
  <2>2. e[i] \in DOMAIN h /\ s[i] = h[e[i]]
    BY <2>1 DEF PartOf
  <2> QED BY <2>1, <2>2, WithinIs
<1>3. ASSUME NEW k \in H PROVE \E i \in S : k <= e[i]
  <2>1. k \in DOMAIN h /\ h[k].t \in Nat /\ since <= h[k].t /\ h[k].t <= b
    BY WithinIs
  <2>2. h[k].t <= until
    BY <2>1
  <2>3. PICK i \in DOMAIN s : k <= e[i] /\ h[e[i]].t = h[k].t
    BY <2>1, <2>2 DEF Covers
  <2>4. s[i] = h[e[i]]
    BY <2>3 DEF PartOf
  <2>5. i \in S
    BY <2>1, <2>3, <2>4, WithinIs
  <2> QED BY <2>3, <2>5
<1> HIDE DEF S, H
<1>4. S = {} <=> H = {}
  BY <1>2, <1>3
<1>5. ASSUME S # {} PROVE s[Max(S)] = h[Max(H)]
  <2>1. Max(S) \in S /\ \A i \in S : i <= Max(S)
    BY <1>1, <1>5, MaxIs
  <2>2. Max(H) \in H /\ \A k \in H : k <= Max(H)
    BY <1>1, <1>4, <1>5, MaxIs
  <2>3. PICK i \in S : Max(H) <= e[i]
    BY <1>3, <2>2
  <2>4. i \in DOMAIN s /\ Max(S) \in DOMAIN s /\ e[i] \in H /\ e[Max(S)] \in H /\ s[Max(S)] = h[e[Max(S)]]
    BY <1>2, <2>1
  <2>5. i = Max(S) \/ e[i] < e[Max(S)]
    <3>1. i <= Max(S) /\ i \in Nat /\ Max(S) \in Nat
      BY <1>7, <2>1
    <3>2. i < Max(S) => e[i] < e[Max(S)]
      BY <2>4 DEF PartOf
    <3> QED BY <3>1, <3>2
  <2>6. e[Max(S)] <= Max(H) /\ e[Max(S)] \in Nat /\ Max(H) \in Nat /\ e[i] \in Nat
    BY <1>7, <2>2, <2>4
  <2>7. e[Max(S)] = Max(H)
    BY <2>3, <2>5, <2>6
  <2> QED BY <2>4, <2>7
<1> QED BY <1>4, <1>5 DEF S, H

LEMMA SameClue ==
    ASSUME NEW s \in Seq(Snapshot), NEW h \in Seq(Snapshot), NEW e, PartOf(s, h, e),
           NEW t \in Nat, NEW since \in Int, since = t - WINDOW_BEFORE - 2 * POLL_SEC,
           Covers(s, h, e, since, t + WINDOW_AFTER), NEW numbers
    PROVE  EchoClue(numbers, t, s, since) = EchoClue(numbers, t, h, since)
<1> DEFINE until == t + WINDOW_AFTER
           a == t - WINDOW_BEFORE + 1
           b == t - WINDOW_BEFORE
           sb == Within(s, since, b)
           hb == Within(h, since, b)
           sa == Within(s, a, until)
           ha == Within(h, a, until)
<1>1. until \in Int /\ a \in Int /\ b \in Int /\ since < a /\ b <= until
  BY ConstantsAre
<1>2. Seen(s, sa) = Seen(h, ha)
  <2>1. Covers(s, h, e, since, until)
    OBVIOUS
  <2> HIDE DEF until, a, b
  <2>2. Seen(s, Within(s, a, until)) = Seen(h, Within(h, a, until))
    BY <1>1, <2>1, SameWindow
  <2> QED BY <2>2
<1>3. (sb = {} <=> hb = {}) /\ (sb # {} => s[Max(sb)] = h[Max(hb)])
  BY <1>1, SameLast
<1>4. sa = {} <=> ha = {}
  <2>1. sa = {} <=> Seen(s, sa) = {}
    BY DEF Seen
  <2>2. ha = {} <=> Seen(h, ha) = {}
    BY DEF Seen
  <2> QED BY <1>2, <2>1, <2>2
<1>5. CASE sb = {} \/ sa = {}
  <2>1. hb = {} \/ ha = {}
    BY <1>3, <1>4, <1>5
  <2> QED BY <1>5, <2>1 DEF EchoClue
<1>6. CASE sb # {} /\ sa # {}
  <2>1. hb # {} /\ ha # {}
    BY <1>3, <1>4, <1>6
  <2>2. Hits(numbers, s[Max(sb)].aircraft, Seen(s, sa))
            = Hits(numbers, h[Max(hb)].aircraft, Seen(h, ha))
    BY <1>2, <1>3, <1>6
  <2> QED BY <1>6, <2>1, <2>2 DEF EchoClue, Seen
<1> QED BY <1>5, <1>6
-----------------------------------------------------------------------------
LEMMA Starts == Init => AirInv
<1> SUFFICES ASSUME Init PROVE AirInv
  OBVIOUS
<1>1. cache \in Snapshot /\ cache.t = 0
  BY NothingIs DEF Init, Snapshot
<1>2. <<>> \in Seq(Snapshot) /\ Len(<<>>) = 0 /\ DOMAIN <<>> = {}
  OBVIOUS
<1>3. DOMAIN calls = {} /\ DOMAIN rows = {} /\ pass = {} /\ now = 0
  BY NothingIs DEF Init
<1>4. AirTypeOK
  <2>1. ring = <<>> /\ log = <<>> /\ history = <<>> /\ moves = <<>>
    BY DEF Init
  <2>2. torn \in BOOLEAN /\ unwritten \in BOOLEAN /\ echoEnabled \in BOOLEAN
    BY DEF Init
  <2>3. DOMAIN moves = {} /\ Len(ring) <= RING_LEN
    BY <1>2, <2>1, ConstantsAre
  <2> QED BY <1>1, <1>2, <1>3, <2>1, <2>2, <2>3 DEF AirTypeOK
<1>5. Shapes
  <2>1. heard \subseteq Tx /\ moves = <<>> /\ <<>> \in Seq(MoveRow)
    BY DEF Init
  <2> QED BY <1>1, <1>2, <1>3, <1>4, <2>1, ConstantsAre DEF Init, Shapes
<1>6. Taken /\ RingKept
  BY <1>2 DEF Init, Taken, RingKept, Offset
<1>7. LoggedAt(<<>>)
  BY <1>2 DEF Init, LoggedAt, PartOf
<1>8. RowsKept /\ Waiting /\ MovesKept
  BY <1>2, <1>3 DEF Init, RowsKept, Waiting, MovesKept
<1> QED BY <1>5, <1>6, <1>7, <1>8 DEF AirInv, LogKept

LEMMA AppendIs ==
    ASSUME NEW S, NEW s \in Seq(S), NEW v \in S
    PROVE  /\ Append(s, v) \in Seq(S) /\ Len(s) \in Nat /\ Len(Append(s, v)) = Len(s) + 1
           /\ DOMAIN s = 1..Len(s) /\ DOMAIN Append(s, v) = 1..(Len(s) + 1)
           /\ Append(s, v)[Len(s) + 1] = v
           /\ \A i \in DOMAIN s : Append(s, v)[i] = s[i]
OBVIOUS

(* The ring with one more: the last RING_LEN of them.                          *)
LEMMA RingWithIs ==
    ASSUME ring \in Seq(Snapshot), Len(ring) <= RING_LEN, NEW snap \in Snapshot
    PROVE  /\ RingWith(snap) \in Seq(Snapshot) /\ Len(RingWith(snap)) \in 1..RING_LEN
           /\ Len(RingWith(snap)) <= Len(ring) + 1
           /\ \A i \in DOMAIN RingWith(snap) :
                 LET j == i + Len(ring) + 1 - Len(RingWith(snap))
                 IN  IF i = Len(RingWith(snap)) THEN RingWith(snap)[i] = snap
                     ELSE j \in DOMAIN ring /\ RingWith(snap)[i] = ring[j]
<1>1. RING_LEN \in Nat \ {0} /\ Len(ring) \in Nat
  BY ConstantsAre
<1>2. CASE Len(ring) < RING_LEN
  <2>1. RingWith(snap) = Append(ring, snap)
    BY <1>2 DEF RingWith
  <2> QED BY <1>1, <1>2, <2>1
<1>3. CASE ~(Len(ring) < RING_LEN)
  <2>1. Len(ring) = RING_LEN /\ ring # <<>>
    BY <1>1, <1>3
  <2>2. /\ Tail(ring) \in Seq(Snapshot) /\ Len(Tail(ring)) = RING_LEN - 1
        /\ \A i \in 1..(RING_LEN - 1) : Tail(ring)[i] = ring[i + 1]
    BY <1>1, <2>1
  <2>3. RingWith(snap) = Append(Tail(ring), snap)
    BY <1>3 DEF RingWith
  <2>4. /\ RingWith(snap) \in Seq(Snapshot) /\ Len(RingWith(snap)) = RING_LEN
        /\ RingWith(snap)[RING_LEN] = snap
        /\ \A i \in 1..(RING_LEN - 1) : RingWith(snap)[i] = ring[i + 1]
        /\ DOMAIN RingWith(snap) = 1..RING_LEN /\ DOMAIN ring = 1..RING_LEN
    BY <1>1, <2>1, <2>2, <2>3
  <2> QED BY <1>1, <2>1, <2>4
<1> QED BY <1>2, <1>3

(* What an action that touches no row, call or move leaves of their types.      *)
RowTypes ==
    /\ \A x \in DOMAIN rows : x \in heard /\ rows[x] \in Row
    /\ DOMAIN calls \subseteq heard \ DOMAIN rows /\ pass \subseteq DOMAIN rows
    /\ \A i \in DOMAIN moves : moves[i].tx \in DOMAIN rows /\ moves[i].to \in Key
                               /\ moves[i].state \in State
    /\ \A x \in DOMAIN calls : calls[x] \in Call /\ calls[x].epoch = now
    /\ \A x \in DOMAIN rows : rows[x].epoch <= now
    /\ echoEnabled \in BOOLEAN
    /\ heard \subseteq Tx /\ moves \in Seq(MoveRow)

FeedTypes ==
    /\ cache \in Snapshot /\ ring \in Seq(Snapshot) /\ Len(ring) <= RING_LEN
    /\ log \in Seq(Snapshot) /\ history \in Seq(Snapshot)
    /\ torn \in BOOLEAN /\ unwritten \in BOOLEAN
    /\ now \in Nat /\ sky \in InRange /\ cache.t <= now
    /\ unlogged \subseteq DOMAIN history

LEMMA ShapesAre == Shapes <=> RowTypes /\ FeedTypes
BY DEF Shapes, AirTypeOK, RowTypes, FeedTypes

LEMMA ShapesAreNext == Shapes' <=> RowTypes' /\ FeedTypes'
BY ShapesAre, PTL

LEMMA FeedTypesStep ==
    ASSUME AirInv, Next
    PROVE  FeedTypes'
<1> USE DEF FeedTypes
<1>0. FeedTypes
  BY ShapesAre DEF AirInv
<1>1. CASE Tick
  <2>1. cache.t \in Nat
    BY <1>0, SnapshotIs
  <2>2. now' = now + 1 /\ UNCHANGED <<sky, cache, ring, log, torn, unwritten, history, unlogged>>
    BY <1>1 DEF Tick, poller
  <2>3. now' \in Nat /\ cache.t <= now'
    BY <1>0, <2>1, <2>2
  <2> QED BY <1>0, <2>2, <2>3
<1>2. ASSUME NEW traffic \in Sky \union {sky}, Poll(traffic)
      PROVE  FeedTypes'
  <2> DEFINE snap == [t |-> now, aircraft |-> traffic]
  <2>1. traffic \in InRange
    BY <1>0, ConstantsAre
  <2>2. snap \in Snapshot /\ snap.t = now
    BY <1>0, <2>1 DEF Snapshot
  <2>3. /\ sky' = traffic /\ cache' = snap /\ ring' = RingWith(snap)
        /\ history' = Append(history, snap) /\ unlogged' = unlogged \union {Len(history')}
        /\ unwritten' = TRUE /\ UNCHANGED <<now, log, torn>>
    BY <1>2 DEF Poll
  <2> HIDE DEF snap
  <2>4. ring' \in Seq(Snapshot) /\ Len(ring') <= RING_LEN
    <3>1. RingWith(snap) \in Seq(Snapshot) /\ Len(RingWith(snap)) \in 1..RING_LEN /\ RING_LEN \in Nat
      BY <1>0, <2>2, RingWithIs, ConstantsAre
    <3> QED BY <2>3, <3>1
  <2>5. history' \in Seq(Snapshot) /\ unlogged' \subseteq DOMAIN history'
    <3>1. /\ Append(history, snap) \in Seq(Snapshot) /\ Len(history) \in Nat
          /\ Len(Append(history, snap)) = Len(history) + 1
          /\ DOMAIN history = 1..Len(history) /\ DOMAIN Append(history, snap) = 1..(Len(history) + 1)
      BY <1>0, <2>2, AppendIs
    <3>2. unlogged \subseteq 1..Len(history)
      BY <1>0, <3>1
    <3>3. Len(history') = Len(history) + 1 /\ DOMAIN history' = 1..(Len(history) + 1)
      BY <2>3, <3>1
    <3>4. unlogged' = unlogged \union {Len(history) + 1}
      BY <2>3, <3>3
    <3>5. \A i \in unlogged' : i \in 1..(Len(history) + 1)
      BY <3>1, <3>2, <3>4
    <3>6. history' \in Seq(Snapshot)
      BY <2>3, <3>1
    <3> QED BY <3>3, <3>5, <3>6
  <2>6. cache' \in Snapshot /\ cache'.t <= now'
    BY <1>0, <2>2, <2>3
  <2> QED BY <1>0, <2>1, <2>3, <2>4, <2>5, <2>6
<1>3. CASE PollFails
  BY <1>0, <1>3 DEF PollFails
<1>4. CASE WriteLog
  <2>1. log' \in Seq(Snapshot) /\ unlogged' \subseteq unlogged
    <3>1. CASE torn
      BY <1>0, <1>4, <3>1 DEF WriteLog
    <3>2. CASE ~torn
      <4>1. history # <<>>
        BY <1>4 DEF WriteLog, AirInv, Taken
      <4>2. history[Len(history)] \in Snapshot
        BY <1>0, <4>1
      <4>3. Append(log, history[Len(history)]) \in Seq(Snapshot)
        BY <1>0, <4>2, AppendIs
      <4>4. log' = Append(log, history[Len(history)]) /\ unlogged' = unlogged \ {Len(history)}
        BY <1>4, <3>2 DEF WriteLog
      <4> QED BY <4>3, <4>4
    <3> QED BY <3>1, <3>2
  <2> QED BY <1>0, <1>4, <2>1 DEF WriteLog
<1>5. CASE WriteLogFails
  BY <1>0, <1>5 DEF WriteLogFails
<1>6. ASSUME NEW x \in Tx, NEW said \in Utterance[x], Hear(x, said)
      PROVE  FeedTypes'
  BY <1>0, <1>6 DEF Hear, poller
<1>7. ASSUME NEW x \in DOMAIN calls, Record(x) \/ RecordFails(x)
      PROVE  FeedTypes'
  BY <1>0, <1>7 DEF Record, RecordFails, poller
<1>8. CASE Recheck
  BY <1>0, <1>8 DEF Recheck, PassBegins, PassRaises, RecheckRow, RecheckFails, poller
<1>9. ASSUME NEW x \in DOMAIN rows, NEW to \in Target, Move(x, to)
      PROVE  FeedTypes'
  BY <1>0, <1>9 DEF Move, poller
<1>10. CASE Restart
  <2>1. cache' \in Snapshot /\ cache'.t = now
    BY <1>0, <1>10, NothingIs DEF Restart, Snapshot
  <2>2. ring' \in Seq(Snapshot) /\ Len(ring') <= RING_LEN
    <3>1. ring' = <<>> /\ <<>> \in Seq(Snapshot) /\ Len(<<>>) = 0
      BY <1>10 DEF Restart
    <3> QED BY <3>1, ConstantsAre
  <2>3. torn' \in BOOLEAN /\ unwritten' \in BOOLEAN
    BY <1>0, <1>10 DEF Restart
  <2>4. UNCHANGED <<now, sky, log, history, unlogged>>
    BY <1>10 DEF Restart
  <2>5. cache'.t <= now'
    BY <1>0, <2>1, <2>4
  <2> QED BY <1>0, <2>1, <2>2, <2>3, <2>4, <2>5
<1> QED BY <1>1, <1>2, <1>3, <1>4, <1>5, <1>6, <1>7, <1>8, <1>9, <1>10 DEF Next
-----------------------------------------------------------------------------
(* The rows as the two stages file them, and the states moves keep.             *)
LEMMA FiledIs ==
    ASSUME Shapes, NEW x \in DOMAIN calls
    PROVE  /\ Filed(calls[x]) \in Row /\ Filed(calls[x]).epoch = now
           /\ Filed(calls[x]).echo = Pending /\ Filing(Filed(calls[x]))
<1> DEFINE c == calls[x]
           key == Combine(c.callsign, c.hex, Pending, echoEnabled)
           state == StateOf(key, cache)
           r == Filed(c)
<1>1. c \in Call /\ c.epoch = now /\ now \in Nat /\ cache \in Snapshot /\ cache.t <= now /\ cache.t \in Nat
      /\ echoEnabled \in BOOLEAN
  BY SnapshotIs DEF Shapes, AirTypeOK
<1>2. Pending \in Echo /\ Pending.hex = Nobody
  BY DEF Pending, Echo
<1>3. c.callsign \in Callsign \union {Nobody} /\ c.hex \in Aircraft \union {Nobody} /\ c.numbers \in SUBSET Number
  BY <1>1 DEF Call
<1>4. key \in Key /\ Reasoned(key, c.hex, Pending.hex)
      /\ key = Combine(c.callsign, c.hex, Pending, FALSE)
  <2> DEFINE k == Combine(c.callsign, c.hex, Pending, echoEnabled)
  <2>1. Pending.hex \in Aircraft \union {Nobody}
    BY <1>2
  <2> HIDE DEF c
  <2>2. k \in Key
    BY ONLY <1>3, <2>1, CombineIs
  <2>3. Reasoned(k, c.hex, Pending.hex)
    BY ONLY <1>3, <2>1, CombineIs
  <2>4. k = Combine(c.callsign, c.hex, Pending, FALSE)
    BY ShadowCombine
  <2> QED BY <2>2, <2>3, <2>4
<1>5. state \in State /\ state.t <= now
      /\ (state # NoState => key.kind = "flight" /\ state.hex = key.of)
  <2>1. state \in State /\ state.t <= cache.t /\ (state # NoState => key.kind = "flight" /\ state.hex = key.of)
    BY <1>1, <1>4, StateIs
  <2>2. state.t \in Nat
    BY <2>1 DEF State
  <2> QED BY <1>1, <2>1, <2>2
<1>6. r = [epoch |-> c.epoch, callsign |-> c.callsign, hex |-> c.hex, numbers |-> c.numbers,
           echo |-> Pending, key |-> key, state |-> state]
  BY DEF Filed
<1> HIDE DEF key, state, c, r
<1>7. r \in Row
  BY <1>1, <1>2, <1>3, <1>4, <1>5, <1>6 DEF Row
<1>8. r.epoch = now /\ r.echo = Pending /\ r.key = key /\ r.state = state /\ r.hex = c.hex /\ r.callsign = c.callsign
  BY <1>1, <1>6
<1>9. Filing(r)
  BY <1>4, <1>5, <1>8 DEF Filing
<1> QED BY <1>7, <1>8, <1>9 DEF r, c

LEMMA SourceIs ==
    ASSUME Shapes, NEW since
    PROVE  SnapshotsFrom(since) \in Seq(Snapshot)
BY DEF Shapes, AirTypeOK, SnapshotsFrom

(* The state stage 2 takes from a snapshot is not later than the transmission.  *)
LEMMA ThatMoment ==
    ASSUME NEW s \in Seq(Snapshot), NEW row \in Row, NEW key \in Key, NEW since
    PROVE  LET state == StateAtThatMoment(row, key, s, since)
           IN  /\ state \in State /\ state.t <= row.epoch
               /\ state # NoState => key.kind = "flight" /\ state.hex = key.of
<1> DEFINE before == Within(s, since, row.epoch)
           state == StateAtThatMoment(row, key, s, since)
<1>0. row.epoch \in Nat
  BY DEF Row
<1>1. CASE before = {} \/ key = row.key
  <2>1. state = NoState
    BY <1>1 DEF StateAtThatMoment
  <2> HIDE DEF state
  <2>2. state \in State /\ state.t = 0
    BY <2>1 DEF NoState, State
  <2>3. state \in State /\ state.t <= row.epoch /\ state = NoState
    BY <1>0, <2>1, <2>2
  <2> QED BY <2>3 DEF state
<1>2. CASE ~(before = {} \/ key = row.key)
  <2> DEFINE last == s[Max(before)]
  <2>1. state = StateOf(key, last)
    BY <1>2 DEF StateAtThatMoment
  <2>2. Max(before) \in before
    BY <1>2, WithinIs, MaxIs
  <2>3. last \in Snapshot /\ last.t \in Nat /\ last.t <= row.epoch
    BY <2>2, WithinIs
  <2> HIDE DEF last, state
  <2>4. state \in State /\ state.t <= last.t /\ (state # NoState => key.kind = "flight" /\ state.hex = key.of)
    BY <2>1, <2>3, StateIs
  <2>5. state.t \in Nat
    BY <2>4 DEF State
  <2>6. state.t <= row.epoch
    BY <1>0, <2>3, <2>4, <2>5
  <2> QED BY <2>4, <2>6 DEF state
<1> QED BY <1>1, <1>2

(* What stage 2 makes of a row.                                                *)
Rechecked(r, s, since) ==
    LET echo == EchoClue(r.numbers, r.epoch, s, since)
        key  == Combine(r.callsign, r.hex, echo, echoEnabled)
    IN  WithEcho(r, echo, key, StateAtThatMoment(r, key, s, since))

(* What a row rechecked with this clue may be.                                  *)
Fit(echo, r, new) ==
    /\ new \in Row /\ Filing(new) /\ new.echo = echo /\ echo # Pending
    /\ new.epoch = r.epoch /\ new.numbers = r.numbers
    /\ ~echoEnabled => new.key = r.key

LEMMA RecheckedIs ==
    ASSUME Shapes, NEW r \in Row, Filing(r), r.echo = Pending,
           NEW s \in Seq(Snapshot), NEW since
    PROVE  Fit(EchoClue(r.numbers, r.epoch, s, since), r, Rechecked(r, s, since))
<1> DEFINE echo == EchoClue(r.numbers, r.epoch, s, since)
           key  == Combine(r.callsign, r.hex, echo, echoEnabled)
           state == StateAtThatMoment(r, key, s, since)
           new  == WithEcho(r, echo, key, state)
<1>1. /\ r.epoch \in Nat /\ r.callsign \in Callsign \union {Nobody} /\ r.hex \in Aircraft \union {Nobody}
      /\ r.numbers \in SUBSET Number /\ r.key \in Key /\ r.state \in State
  BY DEF Row
<1>2. echo \in Echo /\ echo # Pending /\ echo.hex \in Aircraft \union {Nobody}
      /\ echoEnabled \in BOOLEAN
  BY ClueTypes DEF Shapes, AirTypeOK
<1> HIDE DEF echo
<1>3. /\ key \in Key
      /\ Reasoned(key, r.hex, echo.hex)
  <2>1. r.callsign \in Callsign \union {Nobody} /\ r.hex \in Aircraft \union {Nobody}
        /\ echo.hex \in Aircraft \union {Nobody}
    BY <1>1, <1>2
  <2>2. key \in Key
    BY ONLY <2>1, CombineIs
  <2>3. Reasoned(key, r.hex, echo.hex)
    BY ONLY <2>1, CombineIs
  <2> QED BY <2>2, <2>3
<1>4. r.key = Combine(r.callsign, r.hex, Pending, FALSE) /\ (r.state # NoState => r.key.kind = "flight")
      /\ r.state.t <= r.epoch /\ (r.key.kind = "flight" /\ r.state # NoState => r.state.hex = r.key.of)
  BY DEF Filing
<1>5. ~echoEnabled => key = r.key
  <2>1. Combine(r.callsign, r.hex, echo, FALSE) = r.key
    BY <1>4, ShadowCombine
  <2> QED BY <1>2, <2>1
<1>6. r.state # NoState /\ key.kind = "flight" => key = r.key
  <2>1. ASSUME r.state # NoState, key.kind = "flight"
        PROVE  key = r.key
    <3>1. Combine(r.callsign, r.hex, Pending, FALSE).kind = "flight"
      BY <1>4, <2>1
    <3>2. key = Combine(r.callsign, r.hex, Pending, FALSE)
      BY ONLY <2>1, <3>1, StaysOrReview
    <3> QED BY <1>4, <3>2
  <2> QED BY <2>1
<1> HIDE DEF key
<1>7. state \in State /\ state.t <= r.epoch /\ (state # NoState => key.kind = "flight" /\ state.hex = key.of)
  BY <1>3, ThatMoment
<1> HIDE DEF state
<1>8. new = [r EXCEPT !.echo = echo, !.key = key, !.state = IF state = NoState THEN r.state ELSE state]
  BY DEF WithEcho
<1>9. /\ new.echo = echo /\ new.key = key /\ new.epoch = r.epoch /\ new.numbers = r.numbers
      /\ new.hex = r.hex /\ new.callsign = r.callsign
      /\ new.state = IF state = NoState THEN r.state ELSE state
  BY <1>8 DEF Row
<1>10. new \in Row
  BY <1>1, <1>2, <1>3, <1>7, <1>8 DEF Row
<1> HIDE DEF new
<1>11. Filing(new)
  <2>1. new.state.t <= new.epoch
    BY <1>4, <1>7, <1>9
  <2>2. Reasoned(new.key, new.hex, new.echo.hex)
    BY <1>3, <1>9
  <2>3. new.key.kind = "flight" /\ new.state # NoState => new.state.hex = new.key.of
    BY <1>4, <1>6, <1>7, <1>9
  <2>4. new.echo # Pending
    BY <1>2, <1>9
  <2> QED BY <2>1, <2>2, <2>3, <2>4 DEF Filing
<1>12. Fit(echo, r, new)
  BY ONLY <1>2, <1>5, <1>9, <1>10, <1>11 DEF Fit
<1> QED BY ONLY <1>12 DEF Rechecked, new, state, key, echo

(* The snapshot the panel shows a moved row by is within the gap it allows.     *)
LEMMA NearestIs ==
    ASSUME Shapes, NEW t \in Nat
    PROVE  /\ Nearest(t) \in Snapshot
           /\ DOMAIN Nearest(t).aircraft # {} => Gap(Nearest(t), t) <= MAX_GAP
<1> DEFINE near == Within(log, t - MAX_GAP, t + MAX_GAP)
           gap(i) == Gap(log[i], t)
           gaps == {gap(i) : i \in near}
<1>1. log \in Seq(Snapshot) /\ MAX_GAP \in Nat
  BY ConstantsAre DEF Shapes, AirTypeOK
<1>2. CASE near = {}
  <2>1. Nearest(t) = [t |-> 0, aircraft |-> Nothing]
    BY <1>2 DEF Nearest
  <2>2. Nearest(t) \in Snapshot
    BY <2>1, NothingIs DEF Snapshot
  <2> QED BY <2>1, <2>2, NothingIs
<1>3. CASE near # {}
  <2>1. near \in SUBSET (1..Len(log))
    BY <1>1, WithinIs
  <2>2. ASSUME NEW i \in near
        PROVE  i \in Nat /\ log[i] \in Snapshot /\ gap(i) \in Nat /\ gap(i) <= MAX_GAP
    <3>1. i \in DOMAIN log /\ i \in Nat /\ log[i] \in Snapshot /\ log[i].t \in Nat
          /\ t - MAX_GAP <= log[i].t /\ log[i].t <= t + MAX_GAP
      BY <1>1, WithinIs
    <3> QED BY <1>1, <3>1 DEF Gap
  <2>3. Nearest(t) = log[CHOOSE i \in near : \A j \in near : gap(i) < gap(j) \/ (gap(i) = gap(j) /\ i <= j)]
    BY <1>3 DEF Nearest
  <2> HIDE DEF near, gap
  <2>4. gaps \in SUBSET Nat /\ gaps # {}
    BY <1>3, <2>2
  <2>5. PICK g \in gaps : \A k \in gaps : g <= k
    BY <2>4, LeastNat
  <2> DEFINE nearest == {i \in near : gap(i) = g}
  <2>6. nearest \in SUBSET Nat /\ nearest # {}
    BY <2>2, <2>5
  <2>7. PICK f \in nearest : \A i \in nearest : f <= i
    BY <2>6, LeastNat
  <2>8. f \in near /\ \A j \in near : gap(f) < gap(j) \/ (gap(f) = gap(j) /\ f <= j)
    <3> SUFFICES ASSUME NEW j \in near
                 PROVE  f \in near /\ (gap(f) < gap(j) \/ (gap(f) = gap(j) /\ f <= j))
      BY <2>7
    <3>1. gap(j) \in gaps /\ g <= gap(j) /\ gap(f) = g /\ f \in near
      BY <2>5, <2>7
    <3>2. gap(j) \in Nat /\ g \in Nat
      BY <2>2, <3>1
    <3>3. gap(j) = g => f <= j
      BY <2>7
    <3> QED BY <3>1, <3>2, <3>3
  <2> DEFINE c == CHOOSE i \in near : \A j \in near : gap(i) < gap(j) \/ (gap(i) = gap(j) /\ i <= j)
  <2>9. c \in near
    BY <2>8
  <2>10. Nearest(t) = log[c]
    BY <2>3
  <2> HIDE DEF c
  <2>11. Gap(log[c], t) <= MAX_GAP /\ log[c] \in Snapshot
    BY <2>2, <2>9 DEF gap
  <2> QED BY <2>10, <2>11
<1> QED BY <1>2, <1>3

(* So are the states moves keep.                                               *)
LEMMA MovedStateIs ==
    ASSUME Shapes, NEW t \in Nat, NEW to \in Key
    PROVE  LET state == StateOf(to, Nearest(t))
           IN  /\ state \in State
               /\ state # NoState => to.kind = "flight" /\ state.hex = to.of /\ Gap(state, t) <= MAX_GAP
<1> DEFINE snap == Nearest(t)
           state == StateOf(to, snap)
<1>1. snap \in Snapshot /\ (DOMAIN snap.aircraft # {} => Gap(snap, t) <= MAX_GAP)
  BY NearestIs
<1> HIDE DEF snap
<1>2. state # NoState => DOMAIN snap.aircraft # {}
  BY DEF StateOf
<1>3. state \in State /\ (state # NoState => to.kind = "flight" /\ state.hex = to.of /\ state.t = snap.t)
  BY <1>1, StateIs
<1> HIDE DEF state
<1>4. state # NoState => Gap(state, t) <= MAX_GAP
  BY <1>1, <1>2, <1>3 DEF Gap
<1> QED BY <1>3, <1>4 DEF state, snap
-----------------------------------------------------------------------------
LEMMA MovesAre ==
    ASSUME moves \in Seq(MoveRow), NEW m \in MoveRow, moves' = Append(moves, m)
    PROVE  /\ moves' \in Seq(MoveRow) /\ Len(moves) \in Nat /\ Len(moves') = Len(moves) + 1
           /\ DOMAIN moves = 1..Len(moves) /\ DOMAIN moves' = 1..(Len(moves) + 1)
           /\ moves'[Len(moves) + 1] = m
           /\ \A i \in DOMAIN moves' : (i \in DOMAIN moves /\ moves'[i] = moves[i]) \/ moves'[i] = m
  OBVIOUS

LEMMA HearTypes ==
    ASSUME AirInv, NEW x \in Tx, NEW said \in Utterance[x], Hear(x, said)
    PROVE  RowTypes'
<1> DEFINE c == [epoch |-> now, callsign |-> said.callsign, hex |-> Matched(said.callsign),
                 numbers |-> said.numbers]
<1>1. RowTypes /\ FeedTypes
  BY ShapesAre DEF AirInv
<1>2. /\ x \notin heard /\ heard' = heard \union {x} /\ calls' = Put(calls, x, c)
      /\ UNCHANGED <<now, rows, pass, moves, echoEnabled>>
  BY DEF Hear
<1>3. c \in Call /\ c.epoch = now
  <2>1. said.callsign \in Callsign \union {Nobody} /\ said.numbers \in SUBSET Number
    BY ConstantsAre
  <2>2. Matched(said.callsign) \in Aircraft \union {Nobody}
    <3>1. DOMAIN cache.aircraft \subseteq Aircraft
      BY <1>1, SnapshotIs DEF FeedTypes
    <3> QED BY <3>1 DEF Matched
  <2>3. now \in Nat
    BY <1>1 DEF FeedTypes
  <2> QED BY <2>1, <2>2, <2>3 DEF Call
<1> HIDE DEF c
<1>4. /\ DOMAIN calls' = DOMAIN calls \union {x} /\ calls'[x] = c
      /\ \A y \in DOMAIN calls : y # x => calls'[y] = calls[y]
  BY <1>2 DEF Put
<1>5. \A y \in DOMAIN calls' : calls'[y] \in Call /\ calls'[y].epoch = now
  BY <1>1, <1>3, <1>4 DEF RowTypes
<1>6. DOMAIN calls' \subseteq heard' \ DOMAIN rows
  BY <1>1, <1>2, <1>4 DEF RowTypes
<1>7. heard' \subseteq Tx /\ \A y \in DOMAIN rows : y \in heard'
  BY <1>1, <1>2 DEF RowTypes
<1> QED BY <1>1, <1>2, <1>5, <1>6, <1>7 DEF RowTypes

LEMMA RecordTypes ==
    ASSUME AirInv, NEW x \in DOMAIN calls, Record(x)
    PROVE  RowTypes'
<1>1. RowTypes /\ FeedTypes
  BY ShapesAre DEF AirInv
<1>2. /\ calls' = Without(calls, x) /\ rows' = Put(rows, x, Filed(calls[x]))
      /\ UNCHANGED <<now, heard, pass, moves, echoEnabled>>
  BY DEF Record
<1>3. Filed(calls[x]) \in Row /\ Filed(calls[x]).epoch = now
  BY FiledIs DEF AirInv
<1>4. /\ DOMAIN calls' = DOMAIN calls \ {x} /\ \A y \in DOMAIN calls' : calls'[y] = calls[y]
      /\ DOMAIN rows' = DOMAIN rows \union {x} /\ rows'[x] = Filed(calls[x])
      /\ \A y \in DOMAIN rows : y # x => rows'[y] = rows[y]
  <2> DEFINE r == Filed(calls[x])
  <2>1. calls' = Without(calls, x) /\ rows' = Put(rows, x, r)
    BY <1>2
  <2> HIDE DEF r
  <2>2. DOMAIN rows' = DOMAIN rows \union {x} /\ rows'[x] = r /\ \A y \in DOMAIN rows : y # x => rows'[y] = rows[y]
    BY <2>1 DEF Put
  <2>3. DOMAIN calls' = DOMAIN calls \ {x} /\ \A y \in DOMAIN calls' : calls'[y] = calls[y]
    BY <2>1 DEF Without
  <2> QED BY <2>2, <2>3 DEF r
<1>5. x \in heard /\ x \notin DOMAIN rows
  BY <1>1 DEF RowTypes
<1>6. now \in Nat
  BY <1>1 DEF FeedTypes
<1>7. \A y \in DOMAIN rows' : y \in heard' /\ rows'[y] \in Row /\ rows'[y].epoch <= now
  BY <1>1, <1>2, <1>3, <1>4, <1>5, <1>6 DEF RowTypes
<1>8. DOMAIN calls' \subseteq heard' \ DOMAIN rows' /\ pass' \subseteq DOMAIN rows'
  BY <1>1, <1>2, <1>4 DEF RowTypes
<1>9. \A y \in DOMAIN calls' : calls'[y] \in Call /\ calls'[y].epoch = now
  BY <1>1, <1>4 DEF RowTypes
<1>10. \A i \in DOMAIN moves : moves[i].tx \in DOMAIN rows'
  BY <1>1, <1>4 DEF RowTypes
<1> QED BY <1>1, <1>2, <1>7, <1>8, <1>9, <1>10 DEF RowTypes

(* The row a pass looks at, before and after.                                   *)
LEMMA RecheckIs ==
    ASSUME AirInv, NEW x \in pass, RecheckRow(x)
    PROVE  /\ x \in DOMAIN rows /\ DOMAIN rows' = DOMAIN rows
           /\ rows[x] \in Row /\ rows[x].echo = Pending
           /\ rows'[x] \in Row /\ Filing(rows'[x]) /\ rows'[x].echo # Pending
           /\ rows'[x].echo = EchoClue(rows[x].numbers, rows[x].epoch,
                                       SnapshotsFrom(Start(rows[x])), Start(rows[x]))
           /\ rows'[x].epoch = rows[x].epoch /\ rows'[x].numbers = rows[x].numbers
           /\ ~echoEnabled => rows'[x].key = rows[x].key
           /\ \A y \in DOMAIN rows : y # x => rows'[y] = rows[y]
           /\ pass' = pass \ {x}
           /\ UNCHANGED <<now, sky, poller, heard, calls, moves, echoEnabled, env>>
<1> DEFINE row   == rows[x]
           since == Start(row)
           snaps == SnapshotsFrom(since)
           echo  == EchoClue(row.numbers, row.epoch, snaps, since)
           key   == Combine(row.callsign, row.hex, echo, echoEnabled)
           new   == WithEcho(row, echo, key, StateAtThatMoment(row, key, snaps, since))
<1>1. x \in DOMAIN rows /\ row \in Row /\ row.echo = Pending /\ Filing(row)
  BY ShapesAre DEF AirInv, RowTypes, Waiting, RowsKept
<1>2. /\ rows' = [rows EXCEPT ![x] = new] /\ pass' = pass \ {x}
      /\ UNCHANGED <<now, sky, poller, heard, calls, moves, echoEnabled, env>>
  BY DEF RecheckRow, Start
<1>3. DOMAIN rows' = DOMAIN rows /\ rows'[x] = new /\ \A y \in DOMAIN rows : y # x => rows'[y] = rows[y]
  BY <1>1, <1>2
<1>4. snaps \in Seq(Snapshot)
  BY SourceIs DEF AirInv
<1>5. /\ new \in Row /\ Filing(new) /\ new.echo = echo /\ echo # Pending
      /\ new.epoch = row.epoch /\ new.numbers = row.numbers /\ (~echoEnabled => new.key = row.key)
  <2>1. Shapes
    BY DEF AirInv
  <2>2. row \in Row /\ Filing(row) /\ row.echo = Pending
    BY ONLY <1>1
  <2>3. new = Rechecked(row, snaps, since) /\ echo = EchoClue(row.numbers, row.epoch, snaps, since)
    BY DEF Rechecked
  <2> HIDE DEF row, since, snaps, echo, key, new
  <2>4. Fit(echo, row, new)
    BY ONLY <1>4, <2>1, <2>2, <2>3, RecheckedIs
  <2> QED BY ONLY <2>4 DEF Fit
<1> HIDE DEF new, key
<1> QED BY <1>1, <1>2, <1>3, <1>5

LEMMA RecheckTypes ==
    ASSUME AirInv, NEW x \in pass, RecheckRow(x)
    PROVE  RowTypes'
<1>1. RowTypes /\ now \in Nat
  BY ShapesAre DEF AirInv, FeedTypes
<1>2. /\ x \in DOMAIN rows /\ DOMAIN rows' = DOMAIN rows /\ rows'[x] \in Row /\ rows'[x].epoch = rows[x].epoch
      /\ \A y \in DOMAIN rows : y # x => rows'[y] = rows[y]
      /\ pass' = pass \ {x} /\ UNCHANGED <<now, heard, calls, moves, echoEnabled>>
  BY RecheckIs
<1>3. \A y \in DOMAIN rows' : y \in heard' /\ rows'[y] \in Row /\ rows'[y].epoch <= now'
  BY <1>1, <1>2 DEF RowTypes
<1>4. pass' \subseteq DOMAIN rows'
  BY <1>1, <1>2 DEF RowTypes
<1> QED BY <1>1, <1>2, <1>3, <1>4 DEF RowTypes

LEMMA MoveTypes ==
    ASSUME AirInv, NEW x \in DOMAIN rows, NEW to \in Target, Move(x, to)
    PROVE  RowTypes'
<1> DEFINE state == StateOf(to, Nearest(rows[x].epoch))
           m == [tx |-> x, to |-> to, state |-> state]
<1>1. RowTypes
  BY ShapesAre DEF AirInv
<1>2. moves' = Append(moves, m) /\ UNCHANGED <<now, heard, calls, rows, pass, echoEnabled>>
  BY DEF Move, AddMove, stages
<1>3. to \in Key /\ rows[x].epoch \in Nat
  BY <1>1, ConstantsAre DEF RowTypes, Row
<1>4. state \in State
  BY <1>3, MovedStateIs DEF AirInv
<1> HIDE DEF state
<1>5. m.tx \in DOMAIN rows /\ m.to \in Key /\ m.state \in State /\ m \in MoveRow
  <2>1. x \in Tx
    BY <1>1 DEF RowTypes
  <2> QED BY <1>3, <1>4, <2>1 DEF MoveRow
<1> HIDE DEF m
<1>6. /\ moves' \in Seq(MoveRow)
      /\ \A i \in DOMAIN moves' : (i \in DOMAIN moves /\ moves'[i] = moves[i]) \/ moves'[i] = m
  <2>1. moves \in Seq(MoveRow)
    BY <1>1 DEF RowTypes
  <2> QED BY ONLY <1>2, <1>5, <2>1, MovesAre
<1>7. \A i \in DOMAIN moves' : moves'[i].tx \in DOMAIN rows /\ moves'[i].to \in Key /\ moves'[i].state \in State
  BY <1>1, <1>5, <1>6 DEF RowTypes
<1> QED BY <1>1, <1>2, <1>6, <1>7 DEF RowTypes
LEMMA RowTypesStep ==
    ASSUME AirInv, Next
    PROVE  RowTypes'
<1>0. RowTypes
  BY ShapesAre DEF AirInv
<1>1. CASE Tick
  <2>1. now' = now + 1 /\ calls = Nothing /\ UNCHANGED <<heard, calls, rows, pass, moves, echoEnabled>>
    BY <1>1 DEF Tick, stages
  <2>2. DOMAIN calls = {} /\ now \in Nat
    BY <2>1, NothingIs, ShapesAre DEF AirInv, FeedTypes
  <2>3. \A x \in DOMAIN rows : rows[x].epoch <= now'
    <3>1. \A x \in DOMAIN rows : rows[x].epoch \in Nat /\ rows[x].epoch <= now
      BY <1>0 DEF RowTypes, Row
    <3> QED BY <2>1, <2>2, <3>1
  <2> QED BY <1>0, <2>1, <2>2, <2>3 DEF RowTypes
<1>2. ASSUME NEW traffic \in Sky \union {sky}, Poll(traffic)
      PROVE  RowTypes'
  BY <1>0, <1>2 DEF Poll, stages, RowTypes
<1>3. CASE PollFails \/ WriteLog \/ WriteLogFails
  BY <1>0, <1>3 DEF PollFails, WriteLog, WriteLogFails, stages, RowTypes
<1>4. ASSUME NEW x \in Tx, NEW said \in Utterance[x], Hear(x, said)
      PROVE  RowTypes'
  BY <1>4, HearTypes
<1>5. ASSUME NEW x \in DOMAIN calls, Record(x)
      PROVE  RowTypes'
  BY <1>5, RecordTypes
<1>6. ASSUME NEW x \in DOMAIN calls, RecordFails(x)
      PROVE  RowTypes'
  <2>1. calls' = Without(calls, x) /\ UNCHANGED <<now, heard, rows, pass, moves, echoEnabled>>
    BY <1>6 DEF RecordFails
  <2>2. DOMAIN calls' \subseteq DOMAIN calls /\ \A y \in DOMAIN calls' : calls'[y] = calls[y]
    BY <2>1 DEF Without
  <2> QED BY <1>0, <2>1, <2>2 DEF RowTypes
<1>7. CASE PassBegins \/ PassRaises
  <2>1. pass' \subseteq DOMAIN rows /\ UNCHANGED <<now, heard, calls, rows, moves, echoEnabled>>
    BY <1>0, <1>7 DEF PassBegins, PassRaises, Due, stages, RowTypes
  <2> QED BY <1>0, <2>1 DEF RowTypes
<1>8. ASSUME NEW x \in pass, RecheckRow(x)
      PROVE  RowTypes'
  BY <1>8, RecheckTypes
<1>9. ASSUME NEW x \in pass, RecheckFails(x)
      PROVE  RowTypes'
  <2>1. pass' \subseteq pass /\ UNCHANGED <<now, heard, calls, rows, moves, echoEnabled>>
    BY <1>9 DEF RecheckFails, AfterFailure
  <2> QED BY <1>0, <2>1 DEF RowTypes
<1>10. ASSUME NEW x \in DOMAIN rows, NEW to \in Target, Move(x, to)
       PROVE  RowTypes'
  BY <1>10, MoveTypes
<1>11. CASE Restart
  <2>1. DOMAIN calls' = {} /\ pass' = {} /\ echoEnabled' \in BOOLEAN /\ UNCHANGED <<now, heard, rows, moves>>
    BY <1>11, NothingIs DEF Restart
  <2> QED BY <1>0, <2>1 DEF RowTypes
<1> QED BY <1>1, <1>2, <1>3, <1>4, <1>5, <1>6, <1>7, <1>8, <1>9, <1>10, <1>11 DEF Next, Recheck

LEMMA ShapesStep ==
    ASSUME AirInv, Next
    PROVE  Shapes'
BY FeedTypesStep, RowTypesStep, ShapesAreNext
-----------------------------------------------------------------------------
(* The feed: a poll and its line in the log are all that takes or logs one.      *)
Feed == Taken /\ RingKept /\ LogKept

LEMMA PollFeed ==
    ASSUME AirInv, NEW traffic \in Sky \union {sky}, Poll(traffic)
    PROVE  /\ Feed'
           /\ Len(history') = Len(history) + 1 /\ DOMAIN history' = 1..(Len(history) + 1)
           /\ history'[Len(history) + 1].t = now
           /\ \A i \in DOMAIN history : i \in DOMAIN history' /\ history'[i] = history[i]
           /\ unlogged' = unlogged \union {Len(history) + 1}
<1> DEFINE snap == [t |-> now, aircraft |-> traffic]
           n == Len(history)
<1>1. FeedTypes /\ Taken /\ RingKept /\ LogKept
  BY ShapesAre DEF AirInv
<1>2. snap \in Snapshot /\ snap.t = now
  <2>1. traffic \in InRange /\ now \in Nat
    BY <1>1, ConstantsAre DEF FeedTypes
  <2> QED BY <2>1 DEF Snapshot
<1>3. /\ ring' = RingWith(snap) /\ history' = Append(history, snap)
      /\ unlogged' = unlogged \union {Len(history')} /\ unwritten' = TRUE /\ UNCHANGED <<now, log>>
      /\ ~unwritten
  BY DEF Poll
<1> HIDE DEF snap
<1>4. /\ n \in Nat /\ Len(history') = n + 1 /\ DOMAIN history' = 1..(n + 1) /\ DOMAIN history = 1..n
      /\ history'[n + 1] = snap /\ \A i \in 1..n : history'[i] = history[i]
  BY <1>1, <1>2, <1>3, AppendIs DEF FeedTypes
<1>5. unlogged' = unlogged \union {n + 1} /\ unlogged \subseteq 1..n
  BY <1>1, <1>3, <1>4 DEF FeedTypes
<1>6. /\ ring' \in Seq(Snapshot) /\ Len(ring) \in Nat /\ Len(ring') \in Nat /\ Len(ring') <= Len(ring) + 1
      /\ \A i \in DOMAIN ring' :
            LET j == i + Len(ring) + 1 - Len(ring')
            IN  IF i = Len(ring') THEN ring'[i] = snap
                ELSE j \in DOMAIN ring /\ ring'[i] = ring[j]
  <2>1. /\ RingWith(snap) \in Seq(Snapshot) /\ Len(RingWith(snap)) \in 1..RING_LEN
        /\ Len(RingWith(snap)) <= Len(ring) + 1
        /\ \A i \in DOMAIN RingWith(snap) :
              LET j == i + Len(ring) + 1 - Len(RingWith(snap))
              IN  IF i = Len(RingWith(snap)) THEN RingWith(snap)[i] = snap
                  ELSE j \in DOMAIN ring /\ RingWith(snap)[i] = ring[j]
    BY <1>1, <1>2, RingWithIs DEF FeedTypes
  <2>2. Len(ring) \in Nat /\ RING_LEN \in Nat
    BY <1>1, ConstantsAre DEF FeedTypes
  <2> QED BY <1>3, <2>1, <2>2
<1> HIDE DEF n
<1>7. Taken'
  <2>1. \A i \in 1..n : history[i].t \in Nat /\ history[i].t <= now
    <3>1. \A i \in 1..n : history[i] \in Snapshot
      BY <1>1, <1>4 DEF FeedTypes, n
    <3> QED BY <1>1, <1>4, <3>1, SnapshotIs DEF Taken
  <2>2. now \in Nat
    BY <1>1 DEF FeedTypes
  <2>3. \A i \in 1..(n + 1) : history'[i].t <= now
    BY <1>2, <1>4, <2>1, <2>2
  <2>4. ASSUME NEW i \in 1..(n + 1), NEW j \in 1..(n + 1), i <= j
        PROVE  history'[i].t <= history'[j].t
    <3>1. CASE j = n + 1
      BY <1>2, <1>4, <2>3, <3>1
    <3>2. CASE j # n + 1
      <4>1. i \in 1..n /\ j \in 1..n
        BY <1>4, <2>4, <3>2
      <4> QED BY <1>1, <1>4, <2>4, <4>1 DEF Taken
    <3> QED BY <3>1, <3>2
  <2>5. history' # <<>> /\ history'[Len(history')].t = now
    BY <1>2, <1>4
  <2> QED BY <1>3, <1>4, <1>5, <2>3, <2>4, <2>5 DEF Taken
<1>8. RingKept'
  <2>1. n - Len(ring) \in Nat /\ \A j \in DOMAIN ring : ring[j] = history[n - Len(ring) + j]
    BY <1>1 DEF RingKept, Offset, n
  <2>2. Offset' = n + 1 - Len(ring') /\ Offset' \in Nat
    BY <1>4, <1>6, <2>1 DEF Offset
  <2>3. ASSUME NEW i \in DOMAIN ring'
        PROVE  ring'[i] = history'[Offset' + i]
    <3>1. i \in 1..Len(ring')
      BY <1>6
    <3>2. CASE i = Len(ring')
      <4>1. Offset' + i = n + 1
        BY <1>4, <1>6, <2>2, <3>2
      <4> QED BY <1>4, <1>6, <3>2, <4>1
    <3>3. CASE i # Len(ring')
      <4> DEFINE j == i + Len(ring) + 1 - Len(ring')
      <4>1. j \in DOMAIN ring /\ ring'[i] = ring[j]
        BY <1>6, <3>3
      <4>2. j \in 1..Len(ring)
        BY <1>1, <4>1 DEF FeedTypes
      <4>3. n - Len(ring) + j = Offset' + i /\ n - Len(ring) + j \in 1..n
        <5>1. /\ n \in Nat /\ Len(ring) \in Nat /\ Len(ring') \in Nat /\ i \in Nat /\ i <= Len(ring')
              /\ Offset' = n + 1 - Len(ring') /\ n - Len(ring) \in Nat
              /\ j = i + Len(ring) + 1 - Len(ring') /\ j \in Nat /\ 1 <= j /\ j <= Len(ring)
          BY <1>4, <1>6, <2>1, <2>2, <3>1, <4>2
        <5> HIDE DEF j
        <5>2. n - Len(ring) + j = Offset' + i /\ n - Len(ring) + j >= 1 /\ n - Len(ring) + j <= n
          BY ONLY <5>1
        <5> QED BY ONLY <5>1, <5>2
      <4> QED BY <1>4, <2>1, <4>1, <4>3
    <3> QED BY <3>2, <3>3
  <2> QED BY <2>2, <2>3 DEF RingKept
<1>9. LogKept'
  <2>1. PICK e : LoggedAt(e)
    BY <1>1 DEF LogKept
  <2>2. (LoggedAt(e))'
    <3>1. PartOf(log, history', e)
      BY <1>4, <2>1 DEF LoggedAt, PartOf
    <3>2. \A i \in DOMAIN log : e[i] \notin unlogged'
      <4>1. \A i \in DOMAIN log : e[i] \in 1..n /\ e[i] \notin unlogged
        BY <1>4, <2>1 DEF LoggedAt, PartOf
      <4> QED BY <1>4, <1>5, <4>1
    <3>3. \A k \in DOMAIN history' \ unlogged' : k \in DOMAIN history \ unlogged
      BY <1>4, <1>5
    <3> QED BY <1>3, <2>1, <3>1, <3>2, <3>3 DEF LoggedAt
  <2> QED BY <2>2 DEF LogKept
<1> QED BY <1>2, <1>4, <1>5, <1>7, <1>8, <1>9 DEF Feed, n

LEMMA WriteFeed ==
    ASSUME AirInv, WriteLog
    PROVE  Feed' /\ history' = history /\ now' = now
           /\ (unlogged' = unlogged \/ unlogged' = unlogged \ {Len(history)})
           /\ Len(history) \in DOMAIN history /\ history[Len(history)].t = now
<1> DEFINE n == Len(history)
           last == history[n]
<1>1. FeedTypes /\ Taken /\ RingKept /\ LogKept
  BY ShapesAre DEF AirInv
<1>2. unwritten /\ unwritten' = FALSE /\ UNCHANGED <<now, ring, history>>
  BY DEF WriteLog
<1>3. n \in Nat /\ n > 0 /\ DOMAIN history = 1..n /\ last \in Snapshot /\ last.t = now /\ n \in unlogged
  <2>1. history \in Seq(Snapshot) /\ history # <<>> /\ last.t = now /\ n \in unlogged
    BY <1>1, <1>2 DEF Taken, FeedTypes
  <2>2. n \in Nat /\ n > 0 /\ DOMAIN history = 1..n
    BY <2>1
  <2>3. last \in Snapshot
    BY <2>1, <2>2
  <2> QED BY <2>1, <2>2, <2>3
<1>4. Taken' /\ RingKept'
  <2>1. Offset' = Offset
    BY <1>2 DEF Offset
  <2> QED BY <1>1, <1>2, <2>1 DEF Taken, RingKept
<1>5. PICK e : LoggedAt(e)
  BY <1>1 DEF LogKept
<1>6. CASE torn
  <2>1. UNCHANGED <<log, unlogged>>
    BY <1>6 DEF WriteLog
  <2>2. (LoggedAt(e))'
    BY <1>2, <1>5, <2>1 DEF LoggedAt
  <2>3. LogKept'
    BY <2>2 DEF LogKept
  <2> QED BY <1>2, <1>3, <1>4, <2>1, <2>3 DEF Feed
<1>7. CASE ~torn
  <2> HIDE DEF last, n
  <2>1. log' = Append(log, last) /\ unlogged' = unlogged \ {n}
    BY <1>7 DEF WriteLog, last, n
  <2> DEFINE m == Len(log)
             w == [i \in 1..(m + 1) |-> IF i = m + 1 THEN n ELSE e[i]]
  <2>2. /\ m \in Nat /\ DOMAIN log = 1..m /\ DOMAIN log' = 1..(m + 1) /\ log'[m + 1] = last
        /\ \A i \in 1..m : log'[i] = log[i]
    <3>1. log \in Seq(Snapshot)
      BY <1>1 DEF FeedTypes
    <3> QED BY <1>3, <2>1, <3>1, AppendIs
  <2> HIDE DEF m
  <2>3. PICK f : f[m + 1] = n /\ \A i \in 1..m : f[i] = e[i]
    <3>1. w[m + 1] = n /\ \A i \in 1..m : w[i] = e[i]
      BY <2>2
    <3> HIDE DEF w
    <3> QED BY <3>1
  <2>4. \A i \in 1..m : e[i] \in 1..n /\ e[i] \notin unlogged /\ e[i] < n /\ log[i] = history[e[i]]
    BY <1>3, <1>5, <2>2 DEF LoggedAt, PartOf
  <2>5. last = history[n]
    BY DEF last
  <2>6. PartOf(log', history', f)
    <3>1. \A i \in 1..(m + 1) : f[i] \in 1..n /\ log'[i] = history[f[i]]
      <4> SUFFICES ASSUME NEW i \in 1..(m + 1)
                   PROVE  f[i] \in 1..n /\ log'[i] = history[f[i]]
        OBVIOUS
      <4>1. i = m + 1 \/ i \in 1..m
        BY <2>2
      <4> QED BY <1>3, <2>2, <2>3, <2>4, <2>5, <4>1
    <3>2. ASSUME NEW i \in 1..(m + 1), NEW j \in 1..(m + 1), i < j
          PROVE  f[i] < f[j]
      <4>1. i \in 1..m
        BY <2>2, <3>2
      <4>2. CASE j = m + 1
        BY <2>3, <2>4, <4>1, <4>2
      <4>3. CASE j # m + 1
        <5>1. j \in 1..m
          BY <2>2, <4>3
        <5>2. e[i] < e[j]
          BY <1>5, <2>2, <3>2, <4>1, <5>1 DEF LoggedAt, PartOf
        <5> QED BY <2>3, <4>1, <5>1, <5>2
      <4> QED BY <4>2, <4>3
    <3> QED BY <1>2, <1>3, <2>2, <3>1, <3>2 DEF PartOf
  <2>7. \A i \in 1..(m + 1) : f[i] \notin unlogged'
    <3> SUFFICES ASSUME NEW i \in 1..(m + 1)
                 PROVE  f[i] \notin unlogged'
      OBVIOUS
    <3>1. i = m + 1 \/ i \in 1..m
      BY <2>2
    <3> QED BY <2>1, <2>3, <2>4, <3>1
  <2>8. ASSUME NEW k \in DOMAIN history \ unlogged'
        PROVE  \E i \in 1..(m + 1) : f[i] = k
    <3>1. CASE k = n
      <4>1. m + 1 \in 1..(m + 1)
        BY <2>2
      <4> QED BY <2>3, <3>1, <4>1
    <3>2. CASE k # n
      <4>1. PICK i \in 1..m : e[i] = k
        BY <1>5, <2>1, <2>2, <3>2 DEF LoggedAt
      <4>2. i \in 1..(m + 1)
        BY <2>2
      <4> QED BY <2>3, <4>1, <4>2
    <3> QED BY <3>1, <3>2
  <2>9. (LoggedAt(f))'
    BY <1>2, <2>2, <2>6, <2>7, <2>8 DEF LoggedAt
  <2>10. LogKept'
    BY <2>9 DEF LogKept
  <2> QED BY <1>2, <1>3, <1>4, <2>1, <2>10 DEF Feed, last, n
<1> QED BY <1>6, <1>7

(* No other action takes or logs one.                                          *)
LEMMA FeedStands ==
    ASSUME AirInv, UNCHANGED <<history, unlogged, log>>, now' \in Nat, now <= now',
           UNCHANGED ring \/ ring' = <<>>,
           unwritten' = FALSE \/ UNCHANGED <<unwritten, now>>
    PROVE  Feed'
<1>1. FeedTypes /\ Taken /\ RingKept /\ LogKept
  BY ShapesAre DEF AirInv
<1>2. LogKept'
  <2>1. PICK e : LoggedAt(e)
    BY <1>1 DEF LogKept
  <2>2. (LoggedAt(e))'
    BY <2>1 DEF LoggedAt
  <2> QED BY <2>2 DEF LogKept
<1>3. RingKept'
  <2>1. CASE UNCHANGED ring
    <3>1. Offset' = Offset
      BY <2>1 DEF Offset
    <3> QED BY <1>1, <2>1, <3>1 DEF RingKept
  <2>2. CASE ring' = <<>>
    <3>1. Len(ring') = 0 /\ DOMAIN ring' = {} /\ Len(history) \in Nat
      BY <1>1, <2>2 DEF FeedTypes
    <3>2. Offset' \in Nat
      BY <3>1 DEF Offset
    <3> QED BY <3>1, <3>2 DEF RingKept
  <2> QED BY <2>1, <2>2
<1>4. Taken'
  <2>1. \A i \in DOMAIN history : history[i].t \in Nat /\ history[i].t <= now
    <3>1. \A i \in DOMAIN history : history[i] \in Snapshot
      BY <1>1 DEF FeedTypes
    <3> QED BY <1>1, <3>1, SnapshotIs DEF Taken
  <2>2. now \in Nat
    BY <1>1 DEF FeedTypes
  <2>3. \A i \in DOMAIN history : history[i].t <= now'
    BY <2>1, <2>2
  <2>4. unwritten' => UNCHANGED <<unwritten, now>>
    OBVIOUS
  <2> QED BY <1>1, <2>3, <2>4 DEF Taken
<1> QED BY <1>2, <1>3, <1>4 DEF Feed

LEMMA FeedStep ==
    ASSUME AirInv, Next
    PROVE  Feed'
<1>0. now \in Nat /\ now <= now
  BY ShapesAre DEF AirInv, FeedTypes
<1>1. CASE Tick
  <2>1. now' = now + 1 /\ ~unwritten /\ UNCHANGED <<history, unlogged, log, ring, unwritten>>
    BY <1>1 DEF Tick, poller
  <2>2. unwritten' = FALSE
    <3>1. unwritten \in BOOLEAN
      BY ShapesAre DEF AirInv, FeedTypes
    <3> QED BY <2>1, <3>1
  <2>3. now' \in Nat /\ now <= now'
    BY <1>0, <2>1
  <2> QED BY <2>1, <2>2, <2>3, FeedStands
<1>2. ASSUME NEW traffic \in Sky \union {sky}, Poll(traffic)
      PROVE  Feed'
  BY <1>2, PollFeed
<1>3. CASE WriteLog
  BY <1>3, WriteFeed
<1>4. CASE UNCHANGED <<history, unlogged, log, ring, unwritten, now>>
  BY <1>0, <1>4, FeedStands
<1>5. CASE WriteLogFails \/ Restart
  <2>1. unwritten' = FALSE /\ UNCHANGED <<history, unlogged, log, now>> /\ (UNCHANGED ring \/ ring' = <<>>)
    BY <1>5 DEF WriteLogFails, Restart
  <2> QED BY <1>0, <2>1, FeedStands
<1>6. ASSUME PollFails \/ (\E x \in Tx : \E said \in Utterance[x] : Hear(x, said))
             \/ (\E x \in DOMAIN calls : Record(x) \/ RecordFails(x)) \/ Recheck
             \/ (\E x \in DOMAIN rows, to \in Target : Move(x, to))
      PROVE  UNCHANGED <<history, unlogged, log, ring, unwritten, now>>
  <2>1. CASE PollFails
    BY <2>1 DEF PollFails
  <2>2. CASE \E x \in Tx : \E said \in Utterance[x] : Hear(x, said)
    BY <2>2 DEF Hear, poller
  <2>3. CASE \E x \in DOMAIN calls : Record(x) \/ RecordFails(x)
    BY <2>3 DEF Record, RecordFails, poller
  <2>4. CASE Recheck
    BY <2>4 DEF Recheck, PassBegins, PassRaises, RecheckRow, RecheckFails, poller
  <2>5. CASE \E x \in DOMAIN rows, to \in Target : Move(x, to)
    BY <2>5 DEF Move, poller
  <2> QED BY <1>6, <2>1, <2>2, <2>3, <2>4, <2>5
<1> QED BY <1>1, <1>2, <1>3, <1>4, <1>5, <1>6 DEF Next
-----------------------------------------------------------------------------
(* Stage 2 finds in the ring or the log what history has of the window, or some  *)
(* of that was not logged.                                                      *)
LEMMA FoundInEither ==
    ASSUME AirInv, NEW r \in Row
    PROVE  \/ Missed(r, history, unlogged)
           \/ EchoClue(r.numbers, r.epoch, SnapshotsFrom(Start(r)), Start(r))
                = EchoClue(r.numbers, r.epoch, history, Start(r))
<1> DEFINE since == Start(r)
           until == r.epoch + WINDOW_AFTER
           s == SnapshotsFrom(since)
<1>1. FeedTypes /\ Taken /\ RingKept /\ LogKept
  BY ShapesAre DEF AirInv
<1>2. r.epoch \in Nat /\ since \in Int /\ until \in Int /\ since = r.epoch - WINDOW_BEFORE - 2 * POLL_SEC
  BY ConstantsAre DEF Row, Start
<1>3. history \in Seq(Snapshot) /\ Len(history) \in Nat /\ DOMAIN history = 1..Len(history)
      /\ \A k \in DOMAIN history : history[k].t \in Nat
  <2>1. history \in Seq(Snapshot)
    BY <1>1 DEF FeedTypes
  <2>2. \A k \in DOMAIN history : history[k] \in Snapshot
    BY <2>1
  <2> QED BY <2>1, <2>2, SnapshotIs
<1>4. ASSUME NEW part \in Seq(Snapshot), NEW e, PartOf(part, history, e), Covers(part, history, e, since, until)
      PROVE  EchoClue(r.numbers, r.epoch, part, since) = EchoClue(r.numbers, r.epoch, history, since)
  BY <1>2, <1>3, <1>4, SameClue
<1> HIDE DEF since
<1>5. CASE ring # <<>> /\ ring[1].t <= since
  <2> DEFINE e == [i \in DOMAIN ring |-> Offset + i]
  <2>1. s = ring
    BY <1>5 DEF SnapshotsFrom
  <2>2. ring \in Seq(Snapshot) /\ Len(ring) \in Nat \ {0} /\ DOMAIN ring = 1..Len(ring) /\ 1 \in DOMAIN ring
    BY <1>1, <1>5 DEF FeedTypes
  <2>3. Offset \in Nat /\ Offset = Len(history) - Len(ring) /\ \A i \in DOMAIN ring : ring[i] = history[Offset + i]
    BY <1>1 DEF RingKept, Offset
  <2>4. \A i \in DOMAIN ring : e[i] = Offset + i
    OBVIOUS
  <2> HIDE DEF e
  <2>5. PartOf(ring, history, e)
    <3>1. \A i \in DOMAIN ring : Offset + i \in 1..Len(history)
      BY <1>3, <2>2, <2>3
    <3>2. \A i, j \in DOMAIN ring : i < j => Offset + i < Offset + j
      BY <2>2, <2>3
    <3> QED BY <1>3, <2>3, <2>4, <3>1, <3>2 DEF PartOf
  <2>6. Covers(ring, history, e, since, until)
    <3> SUFFICES ASSUME NEW k \in DOMAIN history, since <= history[k].t, history[k].t <= until
                 PROVE  \E i \in DOMAIN ring : k <= e[i] /\ history[e[i]].t = history[k].t
                                               /\ (history[k].t > since => e[i] = k)
      BY DEF Covers
    <3>1. CASE k > Offset
      <4>1. k - Offset \in DOMAIN ring /\ k \in Nat
        BY <1>3, <2>2, <2>3, <3>1
      <4>2. e[k - Offset] = k
        BY <2>3, <2>4, <4>1
      <4> QED BY <4>1, <4>2
    <3>2. CASE ~(k > Offset)
      <4>1. e[1] = Offset + 1 /\ Offset + 1 \in DOMAIN history /\ k <= Offset + 1
        BY <1>3, <2>2, <2>3, <2>4, <3>2
      <4>2. history[k].t <= history[Offset + 1].t
        BY <1>1, <4>1 DEF Taken
      <4>3. ring[1] = history[Offset + 1]
        BY <2>2, <2>3
      <4>4. history[Offset + 1].t = history[k].t /\ history[k].t = since
        BY <1>2, <1>3, <1>5, <4>1, <4>2, <4>3
      <4>5. ~(history[k].t > since)
        BY <1>2, <1>3, <4>4
      <4> QED BY <2>2, <4>1, <4>4, <4>5
    <3> QED BY <3>1, <3>2
  <2> QED BY <1>4, <2>1, <2>2, <2>5, <2>6 DEF since
<1>6. CASE ~(ring # <<>> /\ ring[1].t <= since) /\ ~Missed(r, history, unlogged)
  <2>1. s = log /\ log \in Seq(Snapshot)
    BY <1>1, <1>6 DEF SnapshotsFrom, FeedTypes
  <2>2. PICK e : LoggedAt(e)
    BY <1>1 DEF LogKept
  <2>3. PartOf(log, history, e)
    BY <2>2 DEF LoggedAt
  <2>4. Covers(log, history, e, since, until)
    <3> SUFFICES ASSUME NEW k \in DOMAIN history, since <= history[k].t, history[k].t <= until
                 PROVE  \E i \in DOMAIN log : e[i] = k
      BY <1>3 DEF Covers
    <3>1. k \notin unlogged
      BY <1>6 DEF Missed, since
    <3> QED BY <2>2, <3>1 DEF LoggedAt
  <2> QED BY <1>4, <2>1, <2>3, <2>4 DEF since
<1> QED BY <1>5, <1>6 DEF since

(* What was decided of a transmission stands: what is taken later is not of its   *)
(* window, nor is what may still be logged.                                     *)
LEMMA PollLeavesRecord ==
    ASSUME AirInv, NEW traffic \in Sky \union {sky}, Poll(traffic),
           NEW r \in Row, OfRecord(r, now, history, unlogged)
    PROVE  OfRecord(r, now', history', unlogged')
<1> DEFINE n == Len(history)
           since == Start(r)
           until == r.epoch + WINDOW_AFTER
<1>1. /\ Len(history') = n + 1 /\ DOMAIN history' = 1..(n + 1) /\ history'[n + 1].t = now
      /\ \A i \in DOMAIN history : i \in DOMAIN history' /\ history'[i] = history[i]
      /\ unlogged' = unlogged \union {n + 1}
  BY PollFeed
<1>2. history \in Seq(Snapshot) /\ n \in Nat /\ DOMAIN history = 1..n /\ unlogged \subseteq 1..n /\ now \in Nat
  <2>1. history \in Seq(Snapshot) /\ unlogged \subseteq DOMAIN history /\ now \in Nat
    BY ShapesAre DEF AirInv, FeedTypes
  <2> QED BY <2>1
<1>3. history' \in Seq(Snapshot)
  BY FeedTypesStep DEF Next, FeedTypes
<1>4. now' = now
  BY DEF Poll
<1>5. r.epoch \in Nat /\ since \in Int /\ until \in Int /\ since = r.epoch - WINDOW_BEFORE - 2 * POLL_SEC
  BY ConstantsAre DEF Row, Start
<1>6. CASE r.echo = Pending
  BY <1>6 DEF OfRecord
<1>7. CASE r.echo # Pending
  <2>1. Over(r, now) /\ until < now
    <3>1. Over(r, now)
      BY <1>7 DEF OfRecord
    <3> QED BY <1>2, <1>5, <3>1, ConstantsAre DEF Over
  <2>2. CASE Missed(r, history, unlogged)
    <3>1. PICK i \in unlogged : Start(r) <= history[i].t /\ history[i].t <= r.epoch + WINDOW_AFTER
      BY <2>2 DEF Missed
    <3>2. i \in unlogged' /\ history'[i] = history[i]
      BY <1>1, <1>2, <3>1
    <3>3. Missed(r, history', unlogged')
      BY <3>1, <3>2 DEF Missed
    <3> QED BY <1>4, <2>1, <3>3 DEF OfRecord
  <2>3. CASE r.echo = EchoClue(r.numbers, r.epoch, history, Start(r))
    <3> DEFINE e == [i \in DOMAIN history |-> i]
    <3>1. \A i \in DOMAIN history : e[i] = i
      OBVIOUS
    <3> HIDE DEF e
    <3>2. PartOf(history, history', e)
      BY <1>1, <3>1 DEF PartOf
    <3>3. Covers(history, history', e, since, until)
      <4> SUFFICES ASSUME NEW k \in DOMAIN history', since <= history'[k].t, history'[k].t <= until
                   PROVE  \E i \in DOMAIN history : e[i] = k
        BY <1>1 DEF Covers
      <4>1. k # n + 1
        BY <1>1, <1>2, <1>5, <2>1
      <4>2. k \in DOMAIN history
        BY <1>1, <1>2, <4>1
      <4> QED BY <3>1, <4>2
    <3>4. EchoClue(r.numbers, r.epoch, history, since) = EchoClue(r.numbers, r.epoch, history', since)
      <4> HIDE DEF since
      <4> QED BY <1>2, <1>3, <1>5, <3>2, <3>3, SameClue
    <3> QED BY <1>4, <2>1, <2>3, <3>4 DEF OfRecord
  <2> QED BY <1>7, <2>2, <2>3 DEF OfRecord
<1> QED BY <1>6, <1>7

LEMMA WriteLeavesRecord ==
    ASSUME AirInv, WriteLog, NEW r \in Row, OfRecord(r, now, history, unlogged)
    PROVE  OfRecord(r, now', history', unlogged')
<1>1. /\ history' = history /\ now' = now
      /\ (unlogged' = unlogged \/ unlogged' = unlogged \ {Len(history)})
      /\ history[Len(history)].t = now
  BY WriteFeed
<1>2. now \in Nat /\ r.epoch \in Nat
  BY ShapesAre DEF AirInv, FeedTypes, Row
<1>3. Over(r, now) => r.epoch + WINDOW_AFTER < now
  BY <1>2, ConstantsAre DEF Over
<1>4. Over(r, now) /\ Missed(r, history, unlogged) => Missed(r, history, unlogged')
  <2> SUFFICES ASSUME Over(r, now), Missed(r, history, unlogged)
               PROVE  Missed(r, history, unlogged')
    OBVIOUS
  <2>1. PICK i \in unlogged : Start(r) <= history[i].t /\ history[i].t <= r.epoch + WINDOW_AFTER
    BY DEF Missed
  <2>2. i # Len(history)
    BY <1>1, <1>2, <1>3, <2>1, ConstantsAre
  <2> QED BY <1>1, <2>1, <2>2 DEF Missed
<1> QED BY <1>1, <1>4 DEF OfRecord

LEMMA TimeLeavesRecord ==
    ASSUME NEW r, NEW clock \in Nat, NEW later \in Nat, clock <= later, r \in Row
    PROVE  /\ Over(r, clock) => Over(r, later)
           /\ \A h, missing : OfRecord(r, clock, h, missing) => OfRecord(r, later, h, missing)
<1>1. Over(r, clock) => Over(r, later)
  BY ConstantsAre DEF Over, Row
<1> QED BY <1>1 DEF OfRecord
-----------------------------------------------------------------------------
LEMMA RowsStand ==
    ASSUME AirInv, UNCHANGED <<rows, history, unlogged>>, now' \in Nat, now <= now'
    PROVE  RowsKept'
<1>1. now \in Nat /\ \A x \in DOMAIN rows : rows[x] \in Row
  BY ShapesAre DEF AirInv, FeedTypes, RowTypes
<1>2. \A x \in DOMAIN rows : Filing(rows[x]) /\ OfRecord(rows[x], now, history, unlogged)
  BY DEF AirInv, RowsKept
<1>3. \A x \in DOMAIN rows : OfRecord(rows[x], now', history, unlogged)
  BY <1>1, <1>2, TimeLeavesRecord
<1> QED BY <1>2, <1>3 DEF RowsKept

LEMMA RowsStep ==
    ASSUME AirInv, Next
    PROVE  RowsKept'
<1>0. /\ now \in Nat /\ now <= now
      /\ \A x \in DOMAIN rows : /\ rows[x] \in Row /\ Filing(rows[x])
                                /\ OfRecord(rows[x], now, history, unlogged)
  BY ShapesAre DEF AirInv, FeedTypes, RowTypes, RowsKept
<1>1. CASE Tick
  <2>1. now' = now + 1 /\ UNCHANGED <<rows, history, unlogged>>
    BY <1>1 DEF Tick, poller, stages
  <2>2. now' \in Nat /\ now <= now'
    BY <1>0, <2>1
  <2> QED BY <2>1, <2>2, RowsStand
<1>2. ASSUME NEW traffic \in Sky \union {sky}, Poll(traffic)
      PROVE  RowsKept'
  <2>1. \A x \in DOMAIN rows : OfRecord(rows[x], now', history', unlogged')
    BY <1>0, <1>2, PollLeavesRecord
  <2>2. rows' = rows
    BY <1>2 DEF Poll, stages
  <2> QED BY <1>0, <2>1, <2>2 DEF RowsKept
<1>3. CASE WriteLog
  <2>1. \A x \in DOMAIN rows : OfRecord(rows[x], now', history', unlogged')
    BY <1>0, <1>3, WriteLeavesRecord
  <2>2. rows' = rows
    BY <1>3 DEF WriteLog, stages
  <2> QED BY <1>0, <2>1, <2>2 DEF RowsKept
<1>4. CASE UNCHANGED <<rows, history, unlogged, now>>
  BY <1>0, <1>4, RowsStand
<1>5. ASSUME NEW x \in DOMAIN calls, Record(x)
      PROVE  RowsKept'
  <2> DEFINE r == Filed(calls[x])
  <2>1. r.echo = Pending /\ Filing(r)
    BY FiledIs DEF AirInv
  <2>2. rows' = Put(rows, x, r) /\ UNCHANGED <<now, history, unlogged>>
    BY <1>5 DEF Record, poller
  <2> HIDE DEF r
  <2>3. \A y \in DOMAIN rows' : (y \in DOMAIN rows /\ rows'[y] = rows[y]) \/ rows'[y] = r
    BY <2>2 DEF Put
  <2>4. OfRecord(r, now, history, unlogged)
    BY <2>1 DEF OfRecord
  <2>5. \A y \in DOMAIN rows' : Filing(rows'[y]) /\ OfRecord(rows'[y], now, history, unlogged)
    BY <1>0, <2>1, <2>3, <2>4
  <2> QED BY <2>2, <2>5 DEF RowsKept
<1>6. ASSUME NEW x \in pass, RecheckRow(x)
      PROVE  RowsKept'
  <2> DEFINE old == rows[x]
             new == rows'[x]
  <2>1. /\ x \in DOMAIN rows /\ DOMAIN rows' = DOMAIN rows /\ old \in Row /\ Filing(new)
        /\ new.echo = EchoClue(old.numbers, old.epoch, SnapshotsFrom(Start(old)), Start(old))
        /\ new.epoch = old.epoch /\ new.numbers = old.numbers
        /\ \A y \in DOMAIN rows : y # x => rows'[y] = rows[y]
        /\ UNCHANGED <<now, history, unlogged>>
    BY <1>6, RecheckIs DEF poller
  <2>2. Over(old, now)
    BY DEF AirInv, Waiting
  <2>3. \/ Missed(old, history, unlogged)
        \/ new.echo = EchoClue(old.numbers, old.epoch, history, Start(old))
    BY <2>1, FoundInEither
  <2> HIDE DEF old, new
  <2>4. Start(new) = Start(old)
    BY <2>1 DEF Start
  <2>5. OfRecord(new, now, history, unlogged)
    BY <2>1, <2>2, <2>3, <2>4 DEF OfRecord, Over, Missed
  <2>6. \A y \in DOMAIN rows : y # x => Filing(rows'[y]) /\ OfRecord(rows'[y], now, history, unlogged)
    BY <1>0, <2>1
  <2> QED BY <2>1, <2>5, <2>6 DEF RowsKept, new
<1>7. ASSUME PollFails \/ WriteLogFails \/ (\E x \in Tx : \E said \in Utterance[x] : Hear(x, said))
             \/ (\E x \in DOMAIN calls : RecordFails(x)) \/ PassBegins \/ PassRaises
             \/ (\E x \in pass : RecheckFails(x))
             \/ (\E x \in DOMAIN rows, to \in Target : Move(x, to)) \/ Restart
      PROVE  UNCHANGED <<rows, history, unlogged, now>>
  <2>1. CASE PollFails \/ WriteLogFails
    BY <2>1 DEF PollFails, WriteLogFails, stages
  <2>2. CASE \E x \in Tx : \E said \in Utterance[x] : Hear(x, said)
    BY <2>2 DEF Hear, poller
  <2>3. CASE \E x \in DOMAIN calls : RecordFails(x)
    BY <2>3 DEF RecordFails, poller
  <2>4. CASE PassBegins \/ PassRaises \/ \E x \in pass : RecheckFails(x)
    BY <2>4 DEF PassBegins, PassRaises, RecheckFails, poller, stages
  <2>5. CASE \E x \in DOMAIN rows, to \in Target : Move(x, to)
    BY <2>5 DEF Move, poller, stages
  <2>6. CASE Restart
    BY <2>6 DEF Restart
  <2> QED BY <1>7, <2>1, <2>2, <2>3, <2>4, <2>5, <2>6
<1> QED BY <1>1, <1>2, <1>3, <1>4, <1>5, <1>6, <1>7 DEF Next, Recheck

(* The rows of a pass are still pending: only the pass itself decides one.       *)
LEMMA WaitingStep ==
    ASSUME AirInv, Next
    PROVE  Waiting'
<1>0. /\ now \in Nat /\ now' \in Nat /\ pass \subseteq DOMAIN rows
      /\ \A x \in pass : rows[x] \in Row /\ rows[x].echo = Pending /\ Over(rows[x], now)
  <2>1. FeedTypes'
    BY FeedTypesStep
  <2> QED BY <2>1, ShapesAre DEF AirInv, FeedTypes, RowTypes, Waiting
<1>1. ASSUME now <= now', pass' \subseteq pass, \A x \in pass' : rows'[x] = rows[x]
      PROVE  Waiting'
  <2>1. \A x \in pass' : Over(rows[x], now')
    BY <1>0, <1>1, TimeLeavesRecord
  <2> QED BY <1>0, <1>1, <2>1 DEF Waiting
<1>2. CASE Tick
  <2>1. now' = now + 1 /\ UNCHANGED <<pass, rows>>
    BY <1>2 DEF Tick, stages
  <2> QED BY <1>0, <1>1, <2>1
<1>3. CASE UNCHANGED <<now, rows>> /\ pass' \subseteq pass
  BY <1>0, <1>1, <1>3
<1>4. ASSUME NEW x \in DOMAIN calls, Record(x)
      PROVE  Waiting'
  <2>1. x \notin pass
    BY ShapesAre DEF AirInv, RowTypes
  <2>2. rows' = Put(rows, x, Filed(calls[x])) /\ UNCHANGED <<now, pass>>
    BY <1>4 DEF Record
  <2>3. \A y \in pass : rows'[y] = rows[y]
    BY <1>0, <2>1, <2>2 DEF Put
  <2> QED BY <1>0, <1>1, <2>2, <2>3
<1>5. CASE PassBegins
  <2>1. pass' = Due /\ UNCHANGED <<now, rows>>
    BY <1>5 DEF PassBegins
  <2>2. \A x \in Due : rows[x].echo = Pending /\ Over(rows[x], now)
    <3> SUFFICES ASSUME NEW x \in Due
                 PROVE  rows[x].echo = Pending /\ Over(rows[x], now)
      OBVIOUS
    <3>1. x \in DOMAIN rows /\ rows[x].echo = Pending /\ rows[x].epoch <= now - WINDOW_AFTER - POLL_SEC
      BY DEF Due
    <3>2. rows[x].epoch \in Nat
      BY <3>1, ShapesAre DEF AirInv, RowTypes, Row
    <3> QED BY <1>0, <3>1, <3>2, ConstantsAre DEF Over
  <2> QED BY <2>1, <2>2 DEF Waiting
<1>6. ASSUME NEW x \in pass, RecheckRow(x)
      PROVE  Waiting'
  <2>1. pass' = pass \ {x} /\ now' = now /\ \A y \in DOMAIN rows : y # x => rows'[y] = rows[y]
    BY <1>6, RecheckIs
  <2> QED BY <1>0, <1>1, <2>1
<1>7. ASSUME (\E traffic \in Sky \union {sky} : Poll(traffic)) \/ PollFails \/ WriteLog \/ WriteLogFails
             \/ (\E x \in Tx : \E said \in Utterance[x] : Hear(x, said))
             \/ (\E x \in DOMAIN calls : RecordFails(x)) \/ (\E x \in pass : RecheckFails(x))
             \/ (\E x \in DOMAIN rows, to \in Target : Move(x, to)) \/ Restart \/ PassRaises
      PROVE  UNCHANGED <<now, rows>> /\ pass' \subseteq pass
  <2>1. CASE (\E traffic \in Sky \union {sky} : Poll(traffic)) \/ PollFails \/ WriteLog \/ WriteLogFails
    BY <2>1 DEF Poll, PollFails, WriteLog, WriteLogFails, stages
  <2>2. CASE \E x \in Tx : \E said \in Utterance[x] : Hear(x, said)
    BY <2>2 DEF Hear
  <2>3. CASE (\E x \in DOMAIN calls : RecordFails(x)) \/ (\E x \in pass : RecheckFails(x))
    BY <2>3 DEF RecordFails, RecheckFails, AfterFailure
  <2>4. CASE \E x \in DOMAIN rows, to \in Target : Move(x, to)
    BY <2>4 DEF Move, stages
  <2>5. CASE Restart
    BY <2>5 DEF Restart
  <2>6. CASE PassRaises
    BY <2>6 DEF PassRaises, stages
  <2> QED BY <1>7, <2>1, <2>2, <2>3, <2>4, <2>5, <2>6
<1> QED BY <1>2, <1>3, <1>4, <1>5, <1>6, <1>7 DEF Next, Recheck

(* A move is of a row that is there, whose time stands.                         *)
LEMMA MovesStep ==
    ASSUME AirInv, Next
    PROVE  MovesKept'
<1>0. RowTypes /\ MovesKept
  BY ShapesAre DEF AirInv
<1>1. \A x \in DOMAIN rows : rows'[x].epoch = rows[x].epoch
  <2>1. CASE UNCHANGED rows
    BY <2>1
  <2>2. ASSUME NEW y \in DOMAIN calls, Record(y)
        PROVE  \A x \in DOMAIN rows : rows'[x] = rows[x]
    <3>1. y \notin DOMAIN rows /\ rows' = Put(rows, y, Filed(calls[y]))
      BY <1>0, <2>2 DEF RowTypes, Record
    <3> QED BY <3>1 DEF Put
  <2>3. ASSUME NEW y \in pass, RecheckRow(y)
        PROVE  \A x \in DOMAIN rows : rows'[x].epoch = rows[x].epoch
    BY <2>3, RecheckIs
  <2>4. \/ UNCHANGED rows
        \/ \E y \in DOMAIN calls : Record(y)
        \/ \E y \in pass : RecheckRow(y)
    BY DEF Next, Tick, Poll, PollFails, WriteLog, WriteLogFails, Hear, RecordFails, Recheck, PassBegins,
           PassRaises, RecheckFails, Move, Restart, stages
  <2> QED BY <2>1, <2>2, <2>3, <2>4
<1>2. CASE UNCHANGED moves
  <2>1. \A i \in DOMAIN moves : moves[i].tx \in DOMAIN rows
    BY <1>0 DEF RowTypes
  <2> QED BY <1>0, <1>1, <1>2, <2>1 DEF MovesKept
<1>3. ASSUME NEW x \in DOMAIN rows, NEW to \in Target, Move(x, to)
      PROVE  MovesKept'
  <2> DEFINE state == StateOf(to, Nearest(rows[x].epoch))
             m == [tx |-> x, to |-> to, state |-> state]
  <2>1. moves' = Append(moves, m) /\ rows' = rows
    BY <1>3 DEF Move, AddMove, stages
  <2>2. to \in Key /\ rows[x].epoch \in Nat /\ x \in Tx
    BY <1>0, ConstantsAre DEF RowTypes, Row
  <2>3. /\ state \in State
        /\ state # NoState => to.kind = "flight" /\ state.hex = to.of /\ Gap(state, rows[x].epoch) <= MAX_GAP
    BY <2>2, MovedStateIs DEF AirInv
  <2> HIDE DEF state
  <2>4. m.tx = x /\ m.to = to /\ m.state = state /\ m \in MoveRow
    BY <2>2, <2>3 DEF MoveRow
  <2> HIDE DEF m
  <2>5. \A i \in DOMAIN moves' : (i \in DOMAIN moves /\ moves'[i] = moves[i]) \/ moves'[i] = m
    <3>1. moves \in Seq(MoveRow)
      BY <1>0 DEF RowTypes
    <3> QED BY ONLY <2>1, <2>4, <3>1, MovesAre
  <2> QED BY <1>0, <2>1, <2>3, <2>4, <2>5 DEF MovesKept
<1>4. UNCHANGED moves \/ \E x \in DOMAIN rows, to \in Target : Move(x, to)
  BY DEF Next, Tick, Poll, PollFails, WriteLog, WriteLogFails, Hear, Record, RecordFails, Recheck, PassBegins,
         PassRaises, RecheckRow, RecheckFails, Restart
<1> QED BY <1>2, <1>3, <1>4

LEMMA AirStep == AirInv /\ [Next]_vars => AirInv'
<1> SUFFICES ASSUME AirInv, [Next]_vars
             PROVE  AirInv'
  OBVIOUS
<1>1. CASE Next
  <2>1. Feed'
    BY <1>1, FeedStep
  <2> QED BY <1>1, <2>1, ShapesStep, RowsStep, WaitingStep, MovesStep DEF AirInv, Feed
<1>2. CASE UNCHANGED vars
  <2>1. UNCHANGED <<now, sky, cache, ring, log, torn, unwritten, pollAt, history, unlogged,
                    heard, calls, rows, pass, moves, echoEnabled>>
    BY <1>2 DEF vars, poller, stages
  <2>2. Shapes'
    BY <2>1 DEF AirInv, Shapes, AirTypeOK
  <2>3. Taken' /\ RingKept'
    BY <2>1 DEF AirInv, Taken, RingKept, Offset
  <2>4. LogKept'
    <3>1. PICK e : LoggedAt(e)
      BY DEF AirInv, LogKept
    <3>2. (LoggedAt(e))'
      BY <2>1, <3>1 DEF LoggedAt
    <3> QED BY <3>2 DEF LogKept
  <2>5. RowsKept' /\ Waiting' /\ MovesKept'
    BY <2>1 DEF AirInv, RowsKept, Waiting, MovesKept
  <2> QED BY <2>2, <2>3, <2>4, <2>5 DEF AirInv
<1> QED BY <1>1, <1>2

LEMMA AirInductive == Spec => []AirInv
<1>1. Init => AirInv
  BY Starts
<1> QED BY <1>1, AirStep, PTL DEF Spec

(* The last move of a row, when it has any.                                     *)
LEMMA LastMoveIs ==
    ASSUME AirInv, NEW x, Moved(x)
    PROVE  \E i \in DOMAIN moves : i = Max(MovesOf(x)) /\ moves[i].tx = x /\ LastMove(x) = moves[i]
<1>1. moves \in Seq(MoveRow)
  BY ShapesAre DEF AirInv, RowTypes
<1>2. Len(moves) \in Nat /\ DOMAIN moves = 1..Len(moves)
  BY <1>1
<1>3. MovesOf(x) \in SUBSET (1..Len(moves)) /\ MovesOf(x) # {}
  BY <1>2 DEF MovesOf, Moved
<1>4. Max(MovesOf(x)) \in MovesOf(x)
  BY <1>2, <1>3, MaxIs
<1> QED BY <1>4 DEF MovesOf, LastMove

(* The types of the rows, calls, moves and snapshots; the ring keeps to its bound. *)
THEOREM AirTypes == Spec => []AirTypeOK
<1>1. AirInv => AirTypeOK
  BY DEF AirInv, Shapes
<1> QED BY <1>1, AirInductive, PTL

(* EvidenceIsTheRecord, for any traffic, windows, ring, restarts and failures:   *)
(* the echo clue of a decided row is what all that was ever taken shows of it,   *)
(* whether stage 2 read the ring or the log, unless one of the window's was      *)
(* never logged (adsb.py, snapshots_between; flight_attribution.py).            *)
THEOREM TheEvidenceIsTheRecord == Spec => []EvidenceIsTheRecord
<1>1. AirInv => EvidenceIsTheRecord
  <2> SUFFICES ASSUME AirInv, NEW x \in DOMAIN rows
               PROVE  LET t0 == rows[x].epoch - WINDOW_BEFORE - 2 * POLL_SEC
                          t1 == rows[x].epoch + WINDOW_AFTER
                      IN  /\ \/ rows[x].echo = Pending
                             \/ \E i \in unlogged : t0 <= history[i].t /\ history[i].t <= t1
                             \/ rows[x].echo = EchoClue(rows[x].numbers, rows[x].epoch, history, t0)
                          /\ EffectiveKey(x).kind = "flight" => EffectiveKey(x) \in Evidence(x)
    BY DEF EvidenceIsTheRecord
  <2>1. OfRecord(rows[x], now, history, unlogged) /\ Filing(rows[x])
    BY DEF AirInv, RowsKept
  <2>2. EffectiveKey(x).kind = "flight" => EffectiveKey(x) \in Evidence(x)
    <3>1. CASE Moved(x)
      BY <3>1 DEF EffectiveKey, Evidence
    <3>2. CASE ~Moved(x)
      <4>1. Reasoned(rows[x].key, rows[x].hex, rows[x].echo.hex)
        BY <2>1 DEF Filing
      <4>2. EffectiveKey(x) = rows[x].key
        BY <3>2 DEF EffectiveKey
      <4>3. Evidence(x) = {Flight(h) : h \in {rows[x].hex, rows[x].echo.hex} \ {Nobody}}
        BY <3>2 DEF Evidence
      <4> QED BY <4>1, <4>2, <4>3 DEF Reasoned
    <3> QED BY <3>1, <3>2
  <2> QED BY <2>1, <2>2 DEF OfRecord, Missed, Start
<1> QED BY <1>1, AirInductive, PTL

(* StatesAreOfThatMoment, likewise: no strip is named after an aircraft as it was *)
(* after the transmission, or after another than its rows are filed under.       *)
THEOREM StatesAreNeverLater == Spec => []StatesAreOfThatMoment
<1>1. ASSUME AirInv, NEW x \in DOMAIN rows
      PROVE  rows[x].state.t <= rows[x].epoch
  BY <1>1 DEF AirInv, RowsKept, Filing
<1>2. ASSUME AirInv, NEW x, Moved(x), LastMove(x).state # NoState
      PROVE  /\ Gap(LastMove(x).state, rows[x].epoch) <= MAX_GAP
             /\ LastMove(x).state.hex = LastMove(x).to.of
  <2>1. PICK i \in DOMAIN moves : moves[i].tx = x /\ LastMove(x) = moves[i]
    BY <1>2, LastMoveIs
  <2> QED BY <1>2, <2>1 DEF AirInv, MovesKept
<1>3. ASSUME AirInv, NEW key \in Strips, key.kind = "flight", NEW s \in NamedAfter(key)
      PROVE  s.hex = key.of
  <2>1. PICK x \in DOMAIN rows : EffectiveKey(x) = key /\ StateForStrip(x) # NoState /\ s = StateForStrip(x)
    BY DEF NamedAfter
  <2>2. CASE Moved(x)
    BY <1>2, <1>3, <2>1, <2>2 DEF EffectiveKey, StateForStrip
  <2>3. CASE ~Moved(x)
    <3>1. key = rows[x].key /\ s = rows[x].state /\ s # NoState
      BY <2>1, <2>3 DEF EffectiveKey, StateForStrip
    <3> QED BY <1>3, <3>1 DEF AirInv, RowsKept, Filing
  <2> QED BY <2>2, <2>3
<1>4. AirInv => StatesAreOfThatMoment
  BY <1>1, <1>2, <1>3 DEF StatesAreOfThatMoment
<1> QED BY <1>4, AirInductive, PTL

(* ShadowModeRegroupsNothing: with AIR_ECHO_ENABLED off, stage 2 stores its       *)
(* evidence and leaves every row where stage 1 filed it, even when the mode was   *)
(* another then; and a row that was decided is never filed again.                *)
THEOREM ShadowModeHolds == Spec => ShadowModeRegroupsNothing
<1>1. ASSUME AirInv, [Next]_vars, NEW x \in DOMAIN rows, rows'[x].key # rows[x].key
      PROVE  echoEnabled /\ rows[x].echo = Pending
  <2>1. rows' # rows
    BY <1>1
  <2>2. \/ \E y \in DOMAIN calls : Record(y)
        \/ \E y \in pass : RecheckRow(y)
    BY <1>1, <2>1 DEF vars, Next, Tick, Poll, PollFails, WriteLog, WriteLogFails, Hear, RecordFails, Recheck,
           PassBegins, PassRaises, RecheckFails, Move, Restart, stages
  <2>3. ASSUME NEW y \in DOMAIN calls, Record(y)
        PROVE  rows'[x] = rows[x]
    <3>1. y \notin DOMAIN rows /\ rows' = Put(rows, y, Filed(calls[y]))
      BY <1>1, <2>3, ShapesAre DEF AirInv, RowTypes, Record
    <3> QED BY <1>1, <3>1 DEF Put
  <2>4. PICK y \in pass : RecheckRow(y)
    BY <1>1, <2>2, <2>3
  <2>5. x = y
    BY <1>1, <2>4, RecheckIs
  <2>6. rows[y].echo = Pending /\ (~echoEnabled => rows'[y].key = rows[y].key)
    BY <1>1, <2>4, RecheckIs
  <2>7. echoEnabled \in BOOLEAN
    BY <1>1, ShapesAre DEF AirInv, RowTypes
  <2> QED BY <1>1, <2>5, <2>6, <2>7
<1>2. AirInv /\ [Next]_vars => [\A x \in DOMAIN rows :
        rows'[x].key # rows[x].key => echoEnabled /\ rows[x].echo = Pending]_vars
  BY <1>1
<1> QED BY <1>2, AirInductive, PTL DEF Spec, ShadowModeRegroupsNothing
===============================================================================
