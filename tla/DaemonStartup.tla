--------------------------- MODULE DaemonStartup ---------------------------
(***************************************************************************)
(* Who runs the daemon, and what it finds on disk.  Commands start shellyd  *)
(* when they cannot connect (cli/src/ipc.rs), `daemon install` and          *)
(* `daemon restart` have the service manager run it (cli/src/service.rs),   *)
(* and it may crash or be stopped at any step.  A daemon loads its settings *)
(* and its key, takes the two database locks, prunes and loads the stored   *)
(* rows, replaces the control socket and serves (daemon/src/main.rs,        *)
(* persistence.rs, paths.rs, ipc.rs).  The operating system releases the    *)
(* locks of a process that ends; its socket file stays behind.              *)
(* The keychain and the service manager are modelled by how they are used.  *)
(***************************************************************************)
EXTENDS Naturals, FiniteSets

CONSTANTS Procs,        \* processes that may be started (each is used once)
          Callers,      \* commands run side by side
          Installers,   \* the Callers that run `shelly daemon install`
          Interactive,  \* the Callers whose input and output are a terminal
          MaxStops,   \* bound on crashes and stops
          MaxToggles,   \* bound on changes of the encryption setting
          Nobody

ASSUME StartupAssumption ==
    /\ Nobody \notin Procs \cup {"plain"} /\ "plain" \notin Procs
    /\ Installers \subseteq Callers /\ Interactive \subseteq Callers
    /\ MaxStops \in Nat /\ MaxToggles \in Nat

VARIABLES
    encrypt,      \* the scrollback_encryption setting in config.toml
    keychain,     \* the key in the OS keychain (named by the process that made it)
    rows,         \* how the session row and the device row are written
    proc,         \* the processes
    dblock,       \* who holds the sessions and the devices database
    socket,       \* whose control socket file there is
    caller,       \* the commands
    service,      \* the user service: [installed, runs]
    saved,        \* history: a session was stored and never expired
    keyTrouble,   \* history: a key was made after another daemon had looked for
                  \* one, or a daemon was refused the keychain
    optedOut,     \* history: the user has switched encryption off
    stops, toggles

procVars == <<encrypt, keychain, rows, proc, dblock, socket, saved, keyTrouble, optedOut>>
startupVars == <<procVars, caller, service, stops, toggles>>

Off == [pc |-> "off", mode |-> Nobody, key |-> Nobody]

StartupInit ==
    /\ encrypt = TRUE /\ keychain = Nobody
    /\ rows = [session |-> Nobody, device |-> Nobody]
    /\ proc = [p \in Procs |-> Off]
    /\ dblock = [sessions |-> Nobody, devices |-> Nobody]
    /\ socket = Nobody
    /\ caller = [c \in Callers |-> [pc |-> "start", child |-> Nobody]]
    /\ service = [installed |-> FALSE, runs |-> Nobody]
    /\ saved = FALSE /\ keyTrouble = FALSE /\ optedOut = FALSE
    /\ stops = 0 /\ toggles = 0

Up(p) == proc[p].pc \notin {"off", "exited"}
Goes(p, pc) == proc' = [proc EXCEPT ![p].pc = pc]

\* connect_once: somebody listens at the path.
Reachable == socket # Nobody /\ proc[socket].pc = "serving"

\* spawn_daemon, and the service manager's start.
Spawned(p) == [proc EXCEPT ![p].pc = "config"]
\* Process ids are handed out in a fixed order: which one it is never matters.
Spare == LET unused == {p \in Procs : proc[p].pc = "off"}
         IN  IF unused = {} THEN {} ELSE {CHOOSE p \in unused : TRUE}

Released(p) == [d \in DOMAIN dblock |-> IF dblock[d] = p THEN Nobody ELSE dblock[d]]

Exit(p) ==
    /\ proc' = [proc EXCEPT ![p].pc = "exited"]
    /\ dblock' = Released(p)

-----------------------------------------------------------------------------
(***************************************************************************)
(* The daemon.                                                              *)
(***************************************************************************)
\* Config::load and the choice of Persistence::open_default.
LoadConfig(p) ==
    /\ proc[p].pc = "config"
    /\ proc' = [proc EXCEPT ![p].mode = IF encrypt THEN "encrypted" ELSE "plaintext",
                            ![p].pc = "key"]
    /\ UNCHANGED <<encrypt, keychain, rows, dblock, socket, saved, keyTrouble, optedOut>>

\* Fault: without the keychain an encrypting daemon carries on in plaintext.
WithoutKeychainPlain(p) ==
    /\ proc' = [proc EXCEPT ![p].mode = "plaintext", ![p].pc = "db1"]
    /\ UNCHANGED dblock

\* load_or_create_keychain_key fails: AppState::open does, and the daemon exits.
\* try_load_keychain_key fails: plaintext without a legacy key.
WithoutKeychain(p) ==
    \/ proc[p].mode = "encrypted" /\ Exit(p)
    \/ proc[p].mode = "plaintext" /\ Goes(p, "db1") /\ UNCHANGED dblock

GetKey(p) ==
    /\ proc[p].pc = "key"
    /\ \/ /\ keychain # Nobody
          /\ proc' = [proc EXCEPT ![p].key = keychain, ![p].pc = "db1"]
          /\ UNCHANGED <<dblock, keyTrouble>>
       \/ /\ keychain = Nobody
          /\ Goes(p, IF proc[p].mode = "encrypted" THEN "setkey" ELSE "db1")
          /\ UNCHANGED <<dblock, keyTrouble>>
       \/ /\ WithoutKeychain(p) /\ keyTrouble' = TRUE
    /\ UNCHANGED <<encrypt, keychain, rows, socket, saved, optedOut>>

\* NoEntry: a fresh key is stored over whatever another daemon stored since.
SetKey(p) ==
    /\ proc[p].pc = "setkey"
    /\ keychain' = p
    /\ proc' = [proc EXCEPT ![p].key = p, ![p].pc = "db1"]
    /\ keyTrouble' = (keyTrouble \/ \E o \in Procs \ {p} :
                          Up(o) /\ proc[o].pc \notin {"config", "key"})
    /\ UNCHANGED <<encrypt, rows, dblock, socket, saved, optedOut>>

\* Fault: a database that is open elsewhere is used all the same.
MayOpenShared(d) == TRUE

\* Database::create, DatabaseAlreadyOpen while another process has it.
MayOpen(d) == dblock[d] = Nobody

\* open_database_with_lock_retry: gives up after DB_OPEN_LOCK_RETRY_ATTEMPTS,
\* and at once on any other error.
OpenDatabase(p, d, from, to) ==
    /\ proc[p].pc = from
    /\ \/ MayOpen(d) /\ dblock' = [dblock EXCEPT ![d] = p] /\ Goes(p, to)
       \/ Exit(p)
    /\ UNCHANGED <<encrypt, keychain, rows, socket, saved, keyTrouble, optedOut>>

OpenSessions(p) == OpenDatabase(p, "sessions", "db1", "db2")
OpenDevices(p) == OpenDatabase(p, "devices", "db2", "prune")

\* Fault: a plaintext daemon does not try the legacy key.
DecodesOwnMode(p, row) ==
    IF proc[p].mode = "encrypted" THEN row \in {"plain", proc[p].key} ELSE row = "plain"

\* decode_payload: the plaintext prefix first, then the key, if there is one.
Decodes(p, row) == row = "plain" \/ (row = proc[p].key /\ row # Nobody)

\* prune_sessions removes the session rows it cannot decode as if expired;
\* load_sessions and load_devices then skip what they cannot decode.
PruneAndLoad(p) ==
    /\ proc[p].pc = "prune"
    /\ rows' = [rows EXCEPT !.session = IF @ # Nobody /\ ~Decodes(p, @) THEN Nobody ELSE @]
    /\ Goes(p, "unlink")
    /\ UNCHANGED <<encrypt, keychain, dblock, socket, saved, keyTrouble, optedOut>>

\* prepare_control_socket: whatever is at the path is removed.
UnlinkSocket(p) ==
    /\ proc[p].pc = "unlink"
    /\ socket' = Nobody
    /\ Goes(p, "bind")
    /\ UNCHANGED <<encrypt, keychain, rows, dblock, saved, keyTrouble, optedOut>>

\* The bind fails when another daemon bound the path since, or on an error.
BindSocket(p) ==
    /\ proc[p].pc = "bind"
    /\ \/ socket = Nobody /\ socket' = p /\ Goes(p, "serving") /\ UNCHANGED dblock
       \/ Exit(p) /\ UNCHANGED socket
    /\ UNCHANGED <<encrypt, keychain, rows, saved, keyTrouble, optedOut>>

\* encode_payload
Encoded(p) == IF proc[p].mode = "encrypted" THEN proc[p].key ELSE "plain"

SaveSession(p) ==
    /\ proc[p].pc = "serving"
    /\ rows' = [rows EXCEPT !.session = Encoded(p)] /\ saved' = TRUE
    /\ UNCHANGED <<encrypt, keychain, proc, dblock, socket, keyTrouble, optedOut>>

SaveDevice(p) ==
    /\ proc[p].pc = "serving"
    /\ rows' = [rows EXCEPT !.device = Encoded(p)]
    /\ UNCHANGED <<encrypt, keychain, proc, dblock, socket, saved, keyTrouble, optedOut>>

DaemonStep(p) ==
    \/ LoadConfig(p) \/ GetKey(p) \/ SetKey(p) \/ OpenSessions(p) \/ OpenDevices(p)
    \/ PruneAndLoad(p) \/ UnlinkSocket(p) \/ BindSocket(p)

\* A crash, a kill, or a shutdown signal: nothing unlinks the socket.
Crash(p) ==
    /\ Up(p) /\ stops < MaxStops
    /\ stops' = stops + 1
    /\ Exit(p)
    /\ UNCHANGED <<encrypt, keychain, rows, socket, caller, service, saved, keyTrouble,
                   optedOut, toggles>>

-----------------------------------------------------------------------------
(***************************************************************************)
(* The commands.                                                            *)
(***************************************************************************)
CallerGoes(c, pc) == caller' = [caller EXCEPT ![c].pc = pc]

\* connect_local: use the daemon that is there, or start one and wait.
connect_local(c) ==
    /\ caller[c].pc = "start" /\ c \notin Installers
    /\ \/ Reachable /\ CallerGoes(c, "ok") /\ UNCHANGED proc
       \/ ~Reachable /\ \E p \in Spare :
             /\ proc' = Spawned(p)
             /\ caller' = [caller EXCEPT ![c] = [pc |-> "wait", child |-> p]]
    /\ UNCHANGED <<encrypt, keychain, rows, dblock, socket, service, saved, keyTrouble,
                   optedOut, stops, toggles>>

\* Fault: the exit of the daemon it started is not looked at.
ChildIsGoneUnseen(c) == FALSE

ChildIsGone(c) == proc[caller[c].child].pc = "exited"

\* StartupWait: a command that is not interactive gives up after its deadline.
TimedOut(c) == c \notin Interactive

\* wait_for_daemon: connect first, then look at the child, then at the clock.
wait_for_daemon(c) ==
    /\ caller[c].pc = "wait"
    /\ \/ Reachable /\ CallerGoes(c, "ok")
       \/ ~Reachable /\ (ChildIsGone(c) \/ TimedOut(c)) /\ CallerGoes(c, "failed")
    /\ UNCHANGED <<procVars, service, stops, toggles>>

\* install_with_manager: install and start, by the service manager.
install(c) ==
    /\ caller[c].pc = "start" /\ c \in Installers
    /\ \E p \in Spare : proc' = Spawned(p) /\ service' = [installed |-> TRUE, runs |-> p]
    /\ CallerGoes(c, "health")
    /\ UNCHANGED <<encrypt, keychain, rows, dblock, socket, saved, keyTrouble, optedOut,
                   stops, toggles>>

\* The preflight refuses the binary, or the start fails and install rolls back.
ensure_service_launch_allowed(c) ==
    /\ caller[c].pc = "start" /\ c \in Installers
    /\ service' = [service EXCEPT !.installed = FALSE]
    /\ CallerGoes(c, "failed")
    /\ UNCHANGED <<procVars, stops, toggles>>

\* Fault: a service that never became healthy stays installed.
UninstalledNot == service

\* service::uninstall: stop what runs (it ends like any other), then remove.
Uninstalled == [service EXCEPT !.installed = FALSE]

\* wait_for_existing_daemon: any daemon at the socket will do; three unhealthy
\* samples or the deadline end the wait, and undo an installation.
wait_for_existing_daemon(c) ==
    /\ caller[c].pc \in {"health", "restarted"}
    /\ \/ Reachable /\ CallerGoes(c, "ok") /\ UNCHANGED <<proc, dblock, service>>
       \/ /\ ~Reachable /\ (proc[service.runs].pc = "exited" \/ TimedOut(c))
          /\ \/ /\ caller[c].pc = "health"
                /\ CallerGoes(c, "failed") /\ service' = Uninstalled
                /\ IF Up(service.runs) THEN Exit(service.runs) ELSE UNCHANGED <<proc, dblock>>
             \/ /\ caller[c].pc = "restarted"
                /\ CallerGoes(c, "unhealthy") /\ UNCHANGED <<proc, dblock, service>>
    /\ UNCHANGED <<encrypt, keychain, rows, socket, saved, keyTrouble, optedOut, stops,
                   toggles>>

\* RestartPolicy::OnFailure: the manager starts another one after the delay.
ServiceRestarts ==
    /\ service.installed /\ proc[service.runs].pc = "exited"
    /\ \E p \in Spare : proc' = Spawned(p) /\ service' = [service EXCEPT !.runs = p]
    /\ UNCHANGED <<encrypt, keychain, rows, dblock, socket, caller, saved, keyTrouble,
                   optedOut, stops, toggles>>

\* service::restart, later on: stop (whatever it says), then start and wait.
RestartService(c) ==
    /\ caller[c].pc = "ok" /\ c \in Installers
    /\ service.installed /\ stops < MaxStops
    /\ stops' = stops + 1
    /\ CallerGoes(c, "restarted")
    /\ \E p \in Spare : /\ proc' = [Spawned(p) EXCEPT ![service.runs].pc = "exited"]
                        /\ service' = [service EXCEPT !.runs = p]
    /\ dblock' = Released(service.runs)
    /\ UNCHANGED <<encrypt, keychain, rows, socket, saved, keyTrouble, optedOut, toggles>>

\* `shelly settings scrollback-encryption on|off`
Toggle ==
    /\ toggles < MaxToggles /\ toggles' = toggles + 1
    /\ encrypt' = ~encrypt
    /\ optedOut' = (optedOut \/ encrypt)
    /\ UNCHANGED <<keychain, rows, proc, dblock, socket, caller, service, saved,
                   keyTrouble, stops>>

-----------------------------------------------------------------------------
ProcNext(p) == DaemonStep(p) /\ UNCHANGED <<caller, service, stops, toggles>>

Saves(p) == (SaveSession(p) \/ SaveDevice(p)) /\ UNCHANGED <<caller, service, stops, toggles>>

CallerNext(c) ==
    \/ connect_local(c) \/ wait_for_daemon(c)
    \/ install(c) \/ ensure_service_launch_allowed(c) \/ wait_for_existing_daemon(c)

StartupNext ==
    \/ \E p \in Procs : ProcNext(p) \/ Saves(p) \/ Crash(p)
    \/ \E c \in Callers : CallerNext(c) \/ RestartService(c)
    \/ ServiceRestarts \/ Toggle

\* A process that can go on does, and so does a waiting command.
StartupFairness ==
    /\ \A p \in Procs : WF_startupVars(ProcNext(p))
    /\ \A c \in Callers : WF_startupVars(CallerNext(c))

StartupSpec == StartupInit /\ [][StartupNext]_startupVars /\ StartupFairness

-----------------------------------------------------------------------------
(***************************************************************************)
(* Properties.                                                              *)
(***************************************************************************)
\* The types, and: plaintext is on disk only if the user once opted out (the
\* keychain's refusal never makes an encrypting daemon write plaintext).
StartupTypeOK ==
    /\ keychain \in Procs \cup {Nobody} /\ socket \in Procs \cup {Nobody}
    /\ \A r \in DOMAIN rows : rows[r] \in Procs \cup {Nobody, "plain"}
    /\ \A r \in DOMAIN rows : rows[r] = "plain" => optedOut

\* However many daemons are started at once and wherever they crash, at most
\* one serves, the socket at the path is its own, and it holds both databases:
\* a starting daemon never unlinks the socket of one that serves.
OneServer ==
    \A p \in Procs : proc[p].pc = "serving" =>
        socket = p /\ dblock.sessions = p /\ dblock.devices = p

\* Unless daemons raced for a key that was not there yet, or one was refused
\* the keychain, a stored session survives crashes, restarts and changes of the encryption
\* setting, and the daemon that serves can read it.
RowsSurviveIfKeyKept ==
    saved /\ ~keyTrouble =>
        /\ rows.session # Nobody
        /\ \A p \in Procs : proc[p].pc = "serving" => Decodes(p, rows.session)

\* Installations that all reported a failure, or never began, leave no service
\* behind that would start the daemon at the next login.
FailedInstallLeavesNothing ==
    (\A c \in Installers : caller[c].pc \in {"start", "failed"}) => ~service.installed

\* Every command that starts or waits for a daemon comes to an end: it is
\* connected, or it learns that the daemon it started is gone.
CommandsEnd == <>[](\A c \in Callers : caller[c].pc \notin {"wait", "health", "restarted"})

\* One daemon serves, over rows it can read, and what failed to start leaves
\* nothing behind.
StartupInv ==
    /\ StartupTypeOK
    /\ OneServer
    /\ RowsSurviveIfKeyKept
    /\ FailedInstallLeavesNothing
=============================================================================
