------------------------------- MODULE Supervisor -------------------------------
(***************************************************************************)
(* webapp/supervisor.py, ports.py, registry.py, env_builder.py: request      *)
(* threads start, stop, restart and look at detached children.  A child is   *)
(* known by its pid file, which holds its pid, image and creation time; its  *)
(* port is taken from whoever listens on it.  Nothing locks a pid file, so   *)
(* each read, unlink, kill, spawn and write is a step of its own.            *)
(*                                                                          *)
(* Pids are reused; a creation time is a count of processes created, so two  *)
(* lives of one pid within the second the code allows are left out.          *)
(***************************************************************************)
EXTENDS SettingsStore

CONSTANTS Req,             \* request threads of the process routes
          Pid,             \* what the operating system numbers processes with
          Name,            \* the registry's entries: "proxy", "counter"
          MaxRequests,     \* bound: requests of a behaviour
          MaxBorn,         \* bound: processes created
          MaxStrangers,    \* bound: processes the panel did not start
          MaxStuck,        \* bound: waits that time out
          MaxPanelRestarts \* bound: restarts of the panel

ASSUME SupervisorAssumption ==
    /\ Name \subseteq {"proxy", "counter"}
    /\ MaxRequests \in Nat /\ MaxBorn \in Nat /\ MaxStrangers \in Nat
    /\ MaxStuck \in Nat /\ MaxPanelRestarts \in Nat

Ours == "python.exe"       \* image_name of every registry entry
NoPid == [pid |-> "none", image |-> "", born |-> 0]
Unbound == ""

VARIABLES
    os,          \* the live processes: pid to image, born, name, port, env, ending
                 \* and (history) whether a save asked for its restart since
    born,        \* processes created so far
    pidFile,     \* the pid files: <<directory, name>> to pid, image, creation time
    logDir,      \* the panel's paths.log_dir, resolved when it started
    bindHost,    \* the address the panel listens on, read when it started
    panelTold,   \* history: a save asked for a restart of the panel since
    req,         \* per thread: the request it serves
    requests, strangers, stuck, panelRestarts,
    crossed      \* history: the names that two requests acted on at once, whose
                 \* request died with the panel, whose pid file was written while a
                 \* status request was about to unlink it, or whose pid file was left
                 \* in another LOG_DIR by a restart of the panel

supVars == <<os, born, pidFile, logDir, bindHost, panelTold, req, requests, strangers, stuck,
             panelRestarts, crossed>>

IdleReq == [op |-> "status", name |-> "proxy", pc |-> "idle", rec |-> NoPid,
            child |-> NoPid, killed |-> FALSE, values |-> <<>>, told |-> FALSE]

(* registry.py                                                                *)
EnabledKey(n) == IF n = "proxy" THEN "PROXY_ENABLED" ELSE "COUNTER_ENABLED"
PortKey(n)    == IF n = "proxy" THEN "PROXY_PORT" ELSE "AIS_STATION_NMEA_PORT"
IsEnabled(n, values) == values[EnabledKey(n)] # "off"
PortFor(n, values)   == values[PortKey(n)]

(* build_env and the argv: what a child carries from the settings; an empty    *)
(* value removes the variable, so it is carried as empty.  The counter's log   *)
(* is in the directory the panel resolved when it started.                     *)
Argv(n) == IF n = "counter" THEN {"AIS_STATION_NMEA_PORT", "LOG_DIR"} ELSE {}
Carries(n) == {k \in Key : SETTINGS[k].exported} \union Argv(n)
EnvFor(n, values) == [k \in Carries(n) |-> IF k = "LOG_DIR" THEN logDir ELSE values[k]]

(* What it makes of that: the proxy reads its environment, the counter only    *)
(* its own argv, of which the port stands for the station's host and ports.    *)
Reads(n) == IF n = "proxy" THEN {k \in Key : SETTINGS[k].exported} ELSE {"AIS_STATION_NMEA_PORT"}

(* _pid_file, _read_pid_file, _live_process                                    *)
PidFileOf(n) == <<logDir, n>>
ReadPidFile(n) == IF PidFileOf(n) \in DOMAIN pidFile THEN pidFile[PidFileOf(n)] ELSE NoPid

(* Mutant of IsLive: a pid of the same image is taken for the same process.    *)
IsAlive(rec) == rec.pid \in DOMAIN os /\ os[rec.pid].image = rec.image

IsLive(rec) == /\ rec.pid \in DOMAIN os
               /\ os[rec.pid].image = rec.image
               /\ os[rec.pid].born = rec.born

Unlinked(n) == [f \in DOMAIN pidFile \ {PidFileOf(n)} |-> pidFile[f]]
Identity(p) == [pid |-> p, image |-> os[p].image, born |-> os[p].born]

Listeners(port) == {p \in DOMAIN os : os[p].port = port}

Put(f, k, v) == [x \in DOMAIN f \union {k} |-> IF x = k THEN v ELSE f[x]]
Gone(p) == [q \in DOMAIN os \ {p} |-> os[q]]
At(r, step) == req[r].pc = step
Goto(r, step) == req' = [req EXCEPT ![r].pc = step]
Done(r) == req' = [req EXCEPT ![r] = IdleReq]
Terminated(p) == os' = [os EXCEPT ![p].ending = TRUE]

Busy(n) == {r \in Req : req[r].pc # "idle" /\ req[r].name = n}

(* A thread has read the pid of a dead child and will unlink the file.         *)
AboutToUnlink(n) ==
    \E r \in Req : /\ At(r, "looked") /\ req[r].name = n
                   /\ req[r].rec # NoPid /\ ~IsLive(req[r].rec)

Acting(n) == {r \in Req : ~At(r, "idle") /\ req[r].name = n /\ req[r].op # "status"}

counts == <<requests, strangers, stuck, panelRestarts>>
place  == <<logDir, bindHost, panelTold>>
-----------------------------------------------------------------------------
(* start(): read the settings, refuse what is disabled, else look for a child. *)
BeginStart(r, n) ==
    LET values == Load(file)
    IN  req' = [req EXCEPT ![r] =
                  IF IsEnabled(n, values)
                  THEN [IdleReq EXCEPT !.op = "start", !.name = n, !.pc = "check",
                                       !.values = values]
                  ELSE IdleReq]

Begin(r, op, n) ==
    /\ At(r, "idle") /\ requests < MaxRequests
    /\ requests' = requests + 1
    /\ IF op = "start" THEN BeginStart(r, n)
       ELSE req' = [req EXCEPT ![r] = [IdleReq EXCEPT
                      !.op = op, !.name = n, !.pc = IF op = "status" THEN "look" ELSE "find"]]
    /\ crossed' = IF op # "status" /\ Acting(n) # {} THEN crossed \union {n} ELSE crossed
    /\ UNCHANGED <<os, born, pidFile, place, strangers, stuck, panelRestarts>>

(* _read_pid_file, the first half of every question about a child.             *)
Looks == [look |-> "looked", check |-> "checked", find |-> "found"]

ReadPid(r) ==
    /\ req[r].pc \in DOMAIN Looks
    /\ req' = [req EXCEPT ![r].rec = ReadPidFile(req[r].name), ![r].pc = Looks[@]]
    /\ UNCHANGED <<os, born, pidFile, place, counts, crossed>>

(* status(): a stale pid file is unlinked, whatever it holds by now.           *)
ClearStale(n, rec) == pidFile' = IF IsLive(rec) \/ rec = NoPid THEN pidFile ELSE Unlinked(n)

Look(r) ==
    /\ At(r, "looked")
    /\ ClearStale(req[r].name, req[r].rec)
    /\ IF req[r].op = "restart" THEN BeginStart(r, req[r].name) ELSE Done(r)
    /\ UNCHANGED <<os, born, place, counts, crossed>>

(* start(): AlreadyRunning, or go on to the port.                              *)
CheckStopped(r) ==
    /\ At(r, "checked")
    /\ ClearStale(req[r].name, req[r].rec)
    /\ IF IsLive(req[r].rec) THEN Done(r) ELSE Goto(r, "port")
    /\ UNCHANGED <<os, born, place, counts, crossed>>

(* clear_port: nobody listens, a stranger does, or one of ours is terminated.  *)
ClearPort(r) ==
    /\ At(r, "port")
    /\ LET L == Listeners(PortFor(req[r].name, req[r].values))
       IN  \/ /\ L = {}
              /\ Goto(r, "spawn") /\ UNCHANGED os
           \/ \E p \in L :
                 IF os[p].image # Ours
                 THEN Done(r) /\ UNCHANGED os
                 ELSE /\ Terminated(p)
                      /\ req' = [req EXCEPT ![r].pc = "clearing", ![r].child = Identity(p)]
    /\ UNCHANGED <<born, pidFile, place, counts, crossed>>

(* Popen.                                                                      *)
Spawn(r) ==
    /\ At(r, "spawn") /\ born < MaxBorn
    /\ \E p \in Pid \ DOMAIN os :
          LET n == req[r].name
          IN  /\ os' = Put(os, p, [image |-> Ours, born |-> born + 1, name |-> n,
                                   port |-> Unbound, env |-> EnvFor(n, req[r].values),
                                   ending |-> FALSE, told |-> req[r].told])
              /\ req' = [req EXCEPT ![r].pc = "settle",
                           ![r].child = [pid |-> p, image |-> Ours, born |-> born + 1]]
    /\ born' = born + 1
    /\ UNCHANGED <<pidFile, place, counts, crossed>>

(* After _SETTLE_SEC: StartFailed, or the pid file is written.                 *)
Settle(r) ==
    /\ At(r, "settle")
    /\ IF ~IsLive(req[r].child)
       THEN Done(r) /\ UNCHANGED <<pidFile, crossed>>
       ELSE LET n == req[r].name
            IN  /\ pidFile' = Put(pidFile, PidFileOf(n), req[r].child)
                /\ crossed' = IF AboutToUnlink(n) THEN crossed \union {n} ELSE crossed
                /\ Goto(r, "look")
    /\ UNCHANGED <<os, born, place, counts>>

(* stop(): NotRunning, which a restart ignores, or terminate.                  *)
FindToStop(r) ==
    /\ At(r, "found")
    /\ IF IsLive(req[r].rec)
       THEN /\ Terminated(req[r].rec.pid)
            /\ req' = [req EXCEPT ![r].pc = "stopping", ![r].child = req[r].rec]
            /\ UNCHANGED pidFile
       ELSE /\ pidFile' = Unlinked(req[r].name)
            /\ IF req[r].op = "restart" THEN BeginStart(r, req[r].name) ELSE Done(r)
            /\ UNCHANGED os
    /\ UNCHANGED <<born, place, counts, crossed>>

(* wait() returns: the child is gone.                                          *)
WaitEnds(r) ==
    /\ req[r].pc \in {"stopping", "clearing"} /\ ~IsLive(req[r].child)
    /\ IF At(r, "stopping")
       THEN pidFile' = Unlinked(req[r].name) /\ Goto(r, "look")
       ELSE UNCHANGED pidFile /\ Goto(r, "spawn")
    /\ UNCHANGED <<os, born, place, counts, crossed>>

(* Mutant of WaitTimesOut: the pid file goes whether or not the child did.     *)
WaitTimesOutAnyway(r) ==
    /\ req[r].pc \in {"stopping", "clearing"} /\ IsLive(req[r].child)
    /\ stuck < MaxStuck
    /\ stuck' = stuck + 1
    /\ pidFile' = Unlinked(req[r].name)
    /\ IF req[r].killed THEN Done(r) ELSE req' = [req EXCEPT ![r].killed = TRUE]
    /\ UNCHANGED <<os, born, place, requests, strangers, panelRestarts, crossed>>

(* wait() times out: kill(), and a second timeout raises out of the request.   *)
WaitTimesOut(r) ==
    /\ req[r].pc \in {"stopping", "clearing"} /\ IsLive(req[r].child)
    /\ stuck < MaxStuck
    /\ stuck' = stuck + 1
    /\ IF req[r].killed THEN Done(r) ELSE req' = [req EXCEPT ![r].killed = TRUE]
    /\ UNCHANGED <<os, born, pidFile, place, requests, strangers, panelRestarts, crossed>>
-----------------------------------------------------------------------------
(* The operating system, and the panel itself.                                *)

(* A child listens; SO_REUSEADDR lets it do so next to another.                *)
Bind(p) ==
    /\ p \in DOMAIN os /\ os[p].name \in Name /\ os[p].port = Unbound /\ ~os[p].ending
    /\ os' = [os EXCEPT ![p].port = os[p].env[PortKey(os[p].name)]]
    /\ UNCHANGED <<born, pidFile, place, req, counts, crossed>>

(* A process ends, terminated or by itself.                                    *)
Exit(p) ==
    /\ p \in DOMAIN os
    /\ os' = Gone(p)
    /\ UNCHANGED <<born, pidFile, place, req, counts, crossed>>

(* A process the panel did not start, on any free pid.                         *)
Stranger(p, image, port) ==
    /\ p \notin DOMAIN os /\ born < MaxBorn /\ strangers < MaxStrangers
    /\ os' = Put(os, p, [image |-> image, born |-> born + 1, name |-> "stranger",
                         port |-> port, env |-> <<>>, ending |-> FALSE, told |-> FALSE])
    /\ born' = born + 1 /\ strangers' = strangers + 1
    /\ UNCHANGED <<pidFile, place, req, requests, stuck, panelRestarts, crossed>>

(* A save, and whom its reply says to restart.                                 *)
SaveReplies(s) ==
    /\ Replace(s)
    /\ LET T == RestartNeeded(s)
       IN  /\ os' = [p \in DOMAIN os |-> [os[p] EXCEPT !.told = @ \/ os[p].name \in T]]
           /\ req' = [r \in Req |-> [req[r] EXCEPT !.told = @ \/ (req[r].op = "start" /\ req[r].name \in T)]]
           /\ panelTold' = (panelTold \/ "panel" \in T)
    /\ UNCHANGED <<born, pidFile, logDir, bindHost, counts, crossed>>
=============================================================================
