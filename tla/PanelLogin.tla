------------------------------- MODULE PanelLogin -------------------------------
(***************************************************************************)
(* webapp/auth.py, credentials.py, set_password.py and the guards of app.py: *)
(* who may act.  A login checks the throttle, verifies the password (slow,   *)
(* by design) and then records what came of it, without a lock: logins may   *)
(* pass the check together, and a thread may act on an object of attempts    *)
(* that is no longer the client's.  Sessions and attempts are in memory.     *)
(***************************************************************************)
EXTENDS Integers, Sequences, FiniteSets

CONSTANTS Guesser,         \* threads of /api/login, all of one client
          Token,           \* session tokens, each given out once
          SESSION_TTL, SESSION_IDLE, THROTTLE_MAX, THROTTLE_WINDOW,
          MaxClock         \* bound: the clock

ASSUME LoginAssumption ==
    /\ IsFiniteSet(Guesser) /\ SESSION_TTL \in Nat /\ SESSION_IDLE \in Nat
    /\ THROTTLE_MAX \in Nat \ {0} /\ THROTTLE_WINDOW \in Nat /\ MaxClock \in Nat

VARIABLES
    clock,
    passwordSet,    \* credentials.json holds a hash this build can parse
    sessions,       \* live tokens, to when each was created and last seen
    given,          \* history: when each token was created
    made,           \* the _Attempts objects of the client, in the order they were made
    attempts,       \* which of them _by_client holds, or 0
    guessing,       \* per thread: its step, the object it was given, its `now`
    guesses,        \* history: wrong passwords since the count last began
    discarded,      \* history: those of them that a thread took out of the count
                    \* because it had looked before the present count was there
    served          \* history: the token and time of the last request served

throttleVars == <<made, attempts, guessing, guesses, discarded>>
loginVars == <<clock, passwordSet, sessions, given, throttleVars, served>>

Rested == [pc |-> "idle", rec |-> 0, now |-> 0]

Thread(step, rec, now) == [pc |-> step, rec |-> rec, now |-> now]
Stands(g, step) == guessing[g].pc = step
Moves(g, state) == guessing' = [guessing EXCEPT ![g] = state]

LoginInit ==
    /\ clock = 0 /\ passwordSet \in BOOLEAN
    /\ sessions = [t \in {} |-> 0] /\ given = [t \in {} |-> 0]
    /\ made = <<>> /\ attempts = 0 /\ guessing = [g \in Guesser |-> Rested]
    /\ guesses = 0 /\ discarded = 0 /\ served = {}

(* An object is 0 for none; a window that has passed counts for nothing.       *)
Elapsed(rec, now) == now - made[rec].first > THROTTLE_WINDOW

(* The failures that _by_client shows.                                         *)
Count == IF attempts = 0 THEN 0 ELSE made[attempts].failures

(* LoginThrottle.check: _by_client.get, the only thing a thread does before    *)
(* others may run: the interpreter changes threads at calls.                   *)
Check(g) ==
    /\ Stands(g, "idle")
    /\ Moves(g, IF attempts = 0 THEN Thread("verifying", 0, 0) ELSE Thread("checking", attempts, 0))
    /\ UNCHANGED <<clock, passwordSet, sessions, given, made, attempts, guesses, discarded, served>>

(* A mutant: the failure that reaches the limit does not refuse the next.      *)
WeighsOneMore(g) ==
    /\ Stands(g, "checking")
    /\ LET rec == guessing[g].rec
       IN  IF Elapsed(rec, clock)
           THEN /\ Moves(g, Thread("verifying", 0, 0))
                /\ attempts' = 0
                /\ IF attempts = rec THEN guesses' = 0 /\ discarded' = 0
                   ELSE UNCHANGED guesses /\ discarded' = discarded + Count
           ELSE /\ Moves(g, IF made[rec].failures > THROTTLE_MAX THEN Rested
                            ELSE Thread("verifying", 0, 0))
                /\ UNCHANGED <<attempts, guesses, discarded>>
    /\ UNCHANGED <<clock, passwordSet, sessions, given, made, served>>

(* Then the clock, and its verdict on the object it was given: passed, when    *)
(* whatever _by_client holds by now is popped; refused; or let through.        *)
Weigh(g) ==
    /\ Stands(g, "checking")
    /\ LET rec == guessing[g].rec
       IN  IF Elapsed(rec, clock)
           THEN /\ Moves(g, Thread("verifying", 0, 0))
                /\ attempts' = 0
                /\ IF attempts = rec THEN guesses' = 0 /\ discarded' = 0
                   ELSE UNCHANGED guesses /\ discarded' = discarded + Count
           ELSE /\ Moves(g, IF made[rec].failures >= THROTTLE_MAX THEN Rested
                            ELSE Thread("verifying", 0, 0))
                /\ UNCHANGED <<attempts, guesses, discarded>>
    /\ UNCHANGED <<clock, passwordSet, sessions, given, made, served>>

(* The wrong password: record_failure takes the time,                          *)
WrongPassword(g) ==
    /\ Stands(g, "verifying")
    /\ Moves(g, Thread("failing", 0, clock))
    /\ UNCHANGED <<clock, passwordSet, sessions, given, made, attempts, guesses, discarded, served>>

(* is given the client's object,                                               *)
FindRecord(g) ==
    /\ Stands(g, "failing")
    /\ Moves(g, Thread("counting", attempts, guessing[g].now))
    /\ UNCHANGED <<clock, passwordSet, sessions, given, made, attempts, guesses, discarded, served>>

IsFirst(g) == guessing[g].rec # 0 => Elapsed(guessing[g].rec, guessing[g].now)

(* and puts a new one in its place, or adds one to it, be it still the         *)
(* client's or not.                                                            *)
Fails(g) ==
    /\ Stands(g, "counting")
    /\ Moves(g, Rested)
    /\ LET rec == guessing[g].rec
       IN  \/ /\ IsFirst(g)
              /\ made' = Append(made, [failures |-> 1, first |-> guessing[g].now])
              /\ attempts' = Len(made')
              /\ IF attempts = rec THEN guesses' = 1 /\ discarded' = 0
                 ELSE guesses' = guesses + 1 /\ discarded' = discarded + Count
           \/ /\ ~IsFirst(g)
              /\ made' = [made EXCEPT ![rec].failures = @ + 1]
              /\ guesses' = guesses + 1
              /\ discarded' = IF attempts = rec THEN discarded ELSE discarded + 1
              /\ UNCHANGED attempts
    /\ UNCHANGED <<clock, passwordSet, sessions, given, served>>

(* The right password, which needs one to be set: a session, and a clean slate. *)
Succeeds(g) ==
    /\ Stands(g, "verifying") /\ passwordSet
    /\ Moves(g, Rested)
    /\ attempts' = 0 /\ guesses' = 0 /\ discarded' = 0
    /\ \E t \in Token \ DOMAIN given :
          /\ sessions' = [u \in DOMAIN sessions \union {t} |->
                            IF u = t THEN [created |-> clock, seen |-> clock] ELSE sessions[u]]
          /\ given' = [u \in DOMAIN given \union {t} |-> IF u = t THEN clock ELSE given[u]]
    /\ UNCHANGED <<clock, passwordSet, made, served>>

(* SessionStore.get, on every guarded route: refreshed, or dropped.            *)
Expired(s) == clock - s.seen > SESSION_IDLE \/ clock - s.created > SESSION_TTL

Get(t) ==
    /\ t \in DOMAIN sessions
    /\ IF Expired(sessions[t])
       THEN /\ sessions' = [u \in DOMAIN sessions \ {t} |-> sessions[u]]
            /\ UNCHANGED served
       ELSE /\ sessions' = [sessions EXCEPT ![t].seen = clock]
            /\ served' = {[token |-> t, at |-> clock]}
    /\ UNCHANGED <<clock, passwordSet, given, throttleVars>>

(* POST /api/logout: destroy, whoever holds the cookie.                        *)
Logout(t) ==
    /\ t \in DOMAIN sessions /\ ~Expired(sessions[t])
    /\ sessions' = [u \in DOMAIN sessions \ {t} |-> sessions[u]]
    /\ UNCHANGED <<clock, passwordSet, given, throttleVars, served>>

(* py -m webapp.set_password, beside the panel.                                *)
SetPassword ==
    /\ ~passwordSet /\ passwordSet' = TRUE
    /\ UNCHANGED <<clock, sessions, given, throttleVars, served>>

LoginTick ==
    /\ clock < MaxClock
    /\ clock' = clock + 1
    /\ UNCHANGED <<passwordSet, sessions, given, throttleVars, served>>

(* A restart of the panel forgets sessions and attempts alike.                 *)
LoginForgets ==
    /\ sessions' = [t \in {} |-> 0] /\ made' = <<>> /\ attempts' = 0
    /\ guessing' = [g \in Guesser |-> Rested] /\ guesses' = 0 /\ discarded' = 0
    /\ UNCHANGED <<clock, passwordSet, given, served>>

LoginServes ==
    \/ \E g \in Guesser : \/ Check(g) \/ Weigh(g) \/ WrongPassword(g) \/ FindRecord(g)
                         \/ Fails(g) \/ Succeeds(g)
    \/ \E t \in Token : Get(t) \/ Logout(t)
    \/ SetPassword

LoginNext == LoginServes \/ LoginForgets \/ LoginTick

LoginSpec == LoginInit /\ [][LoginNext]_loginVars
-----------------------------------------------------------------------------
(* However logins interleave, a count never takes in more than the allowed     *)
(* failures and one more per other thread that had passed the check; and every *)
(* further wrong password was taken out of it, by a thread that had looked     *)
(* before that count was there: record_failure and check lock nothing, and put *)
(* or pop a whole object.  A count is never lost in any other way.             *)
GuessesBounded == guesses <= THROTTLE_MAX + Cardinality(Guesser) - 1 + discarded

(* A session that the dashboard's polling keeps fresh still ends: no request   *)
(* is served on a token older than the absolute limit.                         *)
SessionsEnd == \A s \in served : s.at - given[s.token] <= SESSION_TTL
=============================================================================
