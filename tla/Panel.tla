--------------------------------- MODULE Panel ---------------------------------
(***************************************************************************)
(* The control panel as a whole: webapp/startup.py starts it, its request    *)
(* threads manage processes (Supervisor) and save settings (SettingsStore)   *)
(* at the same time, and it may be restarted under both.                     *)
(***************************************************************************)
EXTENDS Supervisor

CONSTANTS Spent            \* bound: for each kind of behaviour explored, how much of
                           \* the bounds on requests, saves, strangers and panel
                           \* restarts is spent from the start

LOOPBACK == {"127.0.0.1", ""}
Down == "down"             \* the bind guard refused to start the panel

panelVars == <<storeVars, supVars>>

(* check_bind_allowed: an address beyond this machine needs a password.         *)
Guarded(host, hasPassword) == IF host \in LOOPBACK \/ hasPassword THEN host ELSE Down

PanelInit ==
    /\ StoreInit
    /\ \E s \in Spent : /\ requests = s.requests /\ saves = s.saves
                        /\ strangers = s.strangers /\ panelRestarts = s.panelRestarts
    /\ os = [p \in {} |-> 0] /\ born = 0 /\ pidFile = [f \in {} |-> 0]
    /\ logDir = Load(file)["LOG_DIR"] /\ panelTold = FALSE
    /\ \E hasPassword \in BOOLEAN : bindHost = Guarded(Load(file)["WEBAPP_BIND_HOST"], hasPassword)
    /\ req = [r \in Req |-> IdleReq] /\ stuck = 0 /\ crossed = {}

(* build and create_app: the settings are read once, the address is refused    *)
(* unless it is the machine's own or a password is set, and sessions, threads  *)
(* and half-done requests are gone.  Children are not: they are detached.      *)
PanelRestart(hasPassword) ==
    /\ panelRestarts < MaxPanelRestarts
    /\ panelRestarts' = panelRestarts + 1
    /\ LET values == Load(file)
       IN  /\ logDir' = values["LOG_DIR"]
           /\ bindHost' = Guarded(values["WEBAPP_BIND_HOST"], hasPassword)
           /\ crossed' = crossed \union {n \in Name : Acting(n) # {}}
                 \union {n \in Name : values["LOG_DIR"] # logDir
                                      /\ \E p \in DOMAIN os : os[p].name = n}
    /\ panelTold' = FALSE
    /\ req' = [r \in Req |-> IdleReq]
    /\ saving' = [s \in Saver |-> Idle]
    /\ UNCHANGED <<file, acked, undone, mended, saves, failures,
                   os, born, pidFile, requests, strangers, stuck>>

RequestStep(r) ==
    \/ \E op \in {"start", "stop", "restart", "status"}, n \in Name :
          bindHost # Down /\ Begin(r, op, n)
    \/ ReadPid(r) \/ Look(r) \/ CheckStopped(r) \/ ClearPort(r) \/ Spawn(r)
    \/ Settle(r) \/ FindToStop(r) \/ WaitEnds(r) \/ WaitTimesOut(r)

SettingsStep ==
    \/ \E s \in Saver : \/ \E sub \in Submission : bindHost # Down /\ Submit(s, sub)
                        \/ ReadStored(s) \/ WriteRaises(s)
    \/ DamageFile

PanelNext ==
    \/ (\E r \in Req : RequestStep(r)) /\ UNCHANGED storeVars
    \/ SettingsStep /\ UNCHANGED supVars
    \/ \E s \in Saver : SaveReplies(s)
    \/ \E p \in Pid : (Bind(p) \/ Exit(p)) /\ UNCHANGED storeVars
    \/ \E p \in Pid, image \in {Ours, "other.exe"}, port \in {Unbound, "9000"} :
          Stranger(p, image, port) /\ UNCHANGED storeVars
    \/ \E hasPassword \in BOOLEAN : PanelRestart(hasPassword)

PanelSpec == PanelInit /\ [][PanelNext]_panelVars
-----------------------------------------------------------------------------
PanelTypeOK ==
    /\ file.ok \in BOOLEAN
    /\ DOMAIN os \subseteq Pid /\ born \in 0..MaxBorn
    /\ \A p \in DOMAIN os : os[p].born \in 1..born /\ os[p].name \in Name \union {"stranger"}
    /\ \A f \in DOMAIN pidFile : f[2] \in Name /\ pidFile[f].pid \in Pid
    /\ \A r \in Req : req[r].name \in Name /\ req[r].rec.born \in 0..born
    /\ crossed \subseteq Name

(* One child of a name at a time, and its pid file names it: whatever the      *)
(* panel's requests do one after another, with children that die, hang or fail *)
(* to start, pids that are reused, waits that time out and a panel that is     *)
(* restarted between requests, no child is left running that the panel cannot  *)
(* find.  A name that was crossed is left out, and no more is said of it: two  *)
(* requests at once may start two, a panel that ends in a request or changes   *)
(* its LOG_DIR leaves a child it cannot find, and a status request may unlink  *)
(* the pid file that a start has just written.                                 *)
OneChild ==
    \A n \in Name \ crossed : Acting(n) = {} =>
        \A p \in DOMAIN os : os[p].name = n => ReadPidFile(n) = Identity(p)

(* Only what it may kill: a process the panel terminates is one it started or  *)
(* one of the same image that holds a port a start is about to use; a stranger *)
(* that was given a dead child's pid is never touched.                         *)
KillsOnlyOurs ==
    [][\A p \in DOMAIN os : (p \in DOMAIN os' /\ os'[p].ending /\ ~os[p].ending) =>
          /\ os[p].image = Ours
          /\ os[p].name \in Name
             \/ \E r \in Req : /\ req[r].pc = "port"
                               /\ os[p].port = PortFor(req[r].name, req[r].values)]_panelVars

(* The form does not lie about what runs: a child that reads settings which no *)
(* longer are what it was started with, or a panel bound to another address    *)
(* than they say, has been named in a reply's restart_needed since, unless the *)
(* setting was taken back by a save that did not know of it, or a damaged file *)
(* was replaced by one that had been read before.                              *)
RestartReported ==
    (file.ok /\ ~mended) =>
        /\ \A p \in DOMAIN os : os[p].name \in Name =>
              \A k \in Reads(os[p].name) \ undone : os[p].env[k] # Load(file)[k] => os[p].told
        /\ "WEBAPP_BIND_HOST" \notin undone =>
              (bindHost \notin {Down, Load(file)["WEBAPP_BIND_HOST"]} => panelTold)

(* "Which managed processes carry this key in the environment (or argv) they   *)
(* were started with, and so must restart for a change to take effect."        *)
CarriersReported ==
    (file.ok /\ ~mended /\ undone = {}) =>
        \A p \in DOMAIN os : (os[p].name \in Name /\ os[p].env # EnvFor(os[p].name, Load(file)))
            => os[p].told

(* "A form that does not say so lies about what is currently running": the     *)
(* directory the panel looks for pid files and logs in, too.                   *)
LogDirReported == logDir # Load(file)["LOG_DIR"] => panelTold

(* A second proxy can bind alongside the first and "silently take over" from   *)
(* it, "so a declared port is cleared before every start": of the children the *)
(* panel starts, no two listen on one port.                                    *)
OneListener ==
    \A p, q \in DOMAIN os : (os[p].name \in Name /\ os[p].port # Unbound
                             /\ os[q].port = os[p].port) => p = q \/ os[q].name = "stranger"
=============================================================================
