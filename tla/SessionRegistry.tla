-------------------------- MODULE SessionRegistry --------------------------
(***************************************************************************)
(* The daemon's registry of sessions and its durable copy: AppState in     *)
(* crates/daemon/src/ipc.rs (the maps sessions and restored, the name set  *)
(* session_names and the published session list), the sessions table of    *)
(* persistence.rs, and the threads of Session (session.rs) that write it.  *)
(*                                                                         *)
(*   - handlers of client connections create and kill sessions;            *)
(*   - the I/O thread of a session marks it exited, saves its final row    *)
(*     and then tells the list forwarder;                                  *)
(*   - the list forwarder of a session evicts it from the live map to the  *)
(*     restored one, which keeps at most MaxStored sessions;               *)
(*   - the persistence thread of a session, and the flush of a graceful    *)
(*     shutdown, save a dirty session;                                     *)
(*   - the daemon may crash at any point and is started again.             *)
(*                                                                         *)
(* Each access to a concurrent map (with the update of the name set it may *)
(* guard) and each database transaction is one step.  A stored session is  *)
(* abstracted to whether its row is the final one, and the session list to *)
(* the ids it shows.                                                       *)
(***************************************************************************)
EXTENDS Naturals, FiniteSets

CONSTANTS
  Sessions,     \* session ids, each created at most once
  Names,        \* session names
  Handlers,     \* client connections
  MaxStored,    \* MAX_STORED_SESSIONS
  MaxKills,     \* bound: KillSession requests of a behaviour
  MaxCrashes,   \* bound: stops of the daemon
  MayFail       \* whether saving, erasing, spawning and signalling may fail

VARIABLES
  \* AppState
  up,         \* the daemon runs
  live,       \* AppState::sessions
  restored,   \* AppState::restored
  names,      \* AppState::session_names
  list,       \* the value of session_list_tx
  published,  \* history: some list was published since the daemon started
  \* the session objects
  nameOf,     \* the name of a session, NoName before it is created
  exited,     \* exit_code is set
  killed,     \* Session::killed
  dirty,      \* persist_dirty
  ioPc,       \* I/O thread
  savePc,     \* the persistence thread and the flush of a shutdown
  snap,       \* the snapshot such a thread is about to save
  watched,    \* the list forwarder has subscribed to summary_updates
  notice,     \* summary_updates holds the exit notice for the forwarder
  evPc,       \* list forwarder
  victim,     \* the session the forwarder's cap loop is dropping
  \* the connection handlers
  hPc,
  hSess,      \* the session the request is about
  hName,      \* removed_name of kill_session_for
  hOk,        \* persistence_result of kill_session_for
  \* publish_session_list in progress
  drawn,      \* the summaries collected and not yet sent
  crossed,    \* history: the last list was drawn while another was to be sent
  \* the database
  disk,       \* row of a session: "none", "partial" or "final"
  \* history
  created,    \* sessions the daemon has and a client was told of
  dropped,    \* sessions asked to be killed, capped or pruned
  freed,      \* sessions whose name was given up, on whosever behalf
  acked,      \* sessions whose SessionKilled was sent
  failedSave, \* some save of the session failed
  kills, crashes

nameVars    == <<names, freed>>
appVars     == <<live, restored, nameVars>>
listVars    == <<list, published, drawn, crossed>>
objectVars  == <<nameOf, exited, killed>>
ioVars      == <<ioPc, notice>>
saveVars    == <<dirty, savePc, snap>>
evictVars   == <<watched, evPc, victim>>
handlerVars == <<hPc, hSess, hName, hOk>>
boundVars   == <<kills, crashes>>

vars == <<up, appVars, listVars, objectVars, ioVars, saveVars, evictVars,
          handlerVars, disk, created, dropped, acked, failedSave, boundVars>>

-----------------------------------------------------------------------------

NoName == "none"
NoSession == "none"
Savers == {"loop", "flush"}

ASSUME RegistryAssumption ==
  /\ IsFiniteSet(Sessions)
  /\ NoName \notin Names /\ NoSession \notin Sessions
  /\ Handlers \cap Sessions = {}
  /\ MaxStored \in Nat /\ MaxKills \in Nat /\ MaxCrashes \in Nat
  /\ MayFail \in BOOLEAN

Publishers == Handlers \cup Sessions

IoPcs   == {"off", "run", "marked", "save", "notify", "done"}
SavePcs == {"off", "wake", "save"}
EvPcs   == {"off", "wait", "get", "check", "name", "insert", "cap", "drop",
            "unname", "erase", "remove", "free", "draw", "send"}
HPcs    == {"idle", "spawn", "insert", "watch", "look", "drawNew", "sendNew",
            "get", "mark", "remove", "unrestore", "unname", "erase", "draw",
            "send"}

\* AppState::summaries
Summaries == live \cup restored

\* The volatile state of a process that has just started.
Unset   == [s \in Sessions |-> FALSE]
NoTask  == [s \in Sessions |-> "off"]
NoSaves == [s \in Sessions |-> [t \in Savers |-> "off"]]
NoSnaps == [s \in Sessions |-> [t \in Savers |-> "partial"]]
Idle    == [h \in Handlers |-> "idle"]
NoneDrawn == [p \in Publishers |-> {}]

\* The daemon has not been started yet; sessions of earlier runs are stored.
Init ==
  /\ up = FALSE
  /\ live = {} /\ restored = {} /\ names = {}
  /\ list = {} /\ published = FALSE /\ drawn = NoneDrawn /\ crossed = FALSE
  /\ nameOf \in [Sessions -> Names \cup {NoName}]
  /\ \A s, r \in Sessions : s # r /\ nameOf[s] = nameOf[r] => nameOf[s] = NoName
  /\ exited = Unset /\ killed = Unset
  /\ ioPc = NoTask /\ notice = Unset
  /\ dirty = Unset /\ savePc = NoSaves /\ snap = NoSnaps
  /\ watched = Unset /\ evPc = NoTask
  /\ victim = [s \in Sessions |-> NoSession]
  /\ hPc = Idle
  /\ hSess = [h \in Handlers |-> NoSession]
  /\ hName = [h \in Handlers |-> NoName]
  /\ hOk = [h \in Handlers |-> TRUE]
  /\ disk \in [Sessions -> {"none", "partial", "final"}]
  /\ \A s \in Sessions : disk[s] = "none" <=> nameOf[s] = NoName
  /\ created = {} /\ dropped = {} /\ freed = {} /\ acked = {} /\ failedSave = {}
  /\ kills = 0 /\ crashes = 0

-----------------------------------------------------------------------------
(***************************************************************************)
(* CreateSession: create_session_for (ipc.rs:1098-1158).                   *)
(***************************************************************************)

HStep(h, from, to) ==
  /\ up /\ hPc[h] = from
  /\ hPc' = [hPc EXCEPT ![h] = to]

\* Fault variant of NameIsFree: only the live sessions are looked at.
NameIsFreeAmongLive(n) == n \notin {nameOf[s] : s \in live}

NameIsFree(n) == n \notin names

\* A name leaves session_names, whoever has it now.
Free(n) ==
  /\ names' = names \ {n}
  /\ freed' = freed \cup {s \in Sessions : nameOf[s] = n /\ n # NoName}

\* reserve_new_session_name: the name asked for, or an automatic one, is free.
\* A name in use is answered with an error and changes nothing.
CreateReserve(h, s, n) ==
  /\ HStep(h, "idle", "spawn")
  /\ nameOf[s] = NoName /\ NameIsFree(n)
  /\ names' = names \cup {n} /\ UNCHANGED freed
  /\ nameOf' = [nameOf EXCEPT ![s] = n]
  /\ hSess' = [hSess EXCEPT ![h] = s]
  /\ UNCHANGED <<up, live, restored, listVars, exited, killed, ioVars, saveVars,
                 evictVars, hName, hOk, disk, created, dropped, acked,
                 failedSave, boundVars>>

\* Session::spawn starts the child and its threads.
CreateSpawn(h) ==
  LET s == hSess[h] IN
  /\ HStep(h, "spawn", "insert")
  /\ ioPc' = [ioPc EXCEPT ![s] = "run"]
  /\ savePc' = [savePc EXCEPT ![s]["loop"] = "wake"]
  /\ dirty' = [dirty EXCEPT ![s] = TRUE]
  /\ UNCHANGED <<up, appVars, listVars, objectVars, notice, snap, evictVars,
                 hSess, hName, hOk, disk, created, dropped, acked, failedSave,
                 boundVars>>

\* Session::spawn fails, before or after it has started the I/O thread, and
\* the reservation is dropped.
CreateFails(h) ==
  LET s == hSess[h] IN
  /\ MayFail
  /\ HStep(h, "spawn", "idle")
  /\ Free(nameOf[s])
  /\ ioPc' \in {ioPc, [ioPc EXCEPT ![s] = "run"]}
  /\ hSess' = [hSess EXCEPT ![h] = NoSession]
  /\ UNCHANGED <<up, live, restored, listVars, objectVars, notice, saveVars,
                 evictVars, hName, hOk, disk, created, dropped, acked,
                 failedSave, boundVars>>

CreateInsert(h) ==
  /\ HStep(h, "insert", "watch")
  /\ live' = live \cup {hSess[h]}
  /\ restored' = restored \ {hSess[h]}
  /\ UNCHANGED <<up, nameVars, listVars, objectVars, ioVars, saveVars, evictVars,
                 hSess, hName, hOk, disk, created, dropped, acked, failedSave,
                 boundVars>>

\* spawn_session_list_forwarder subscribes ...
CreateWatch(h) ==
  /\ HStep(h, "watch", "look")
  /\ watched' = [watched EXCEPT ![hSess[h]] = TRUE]
  /\ UNCHANGED <<up, appVars, listVars, objectVars, ioVars, saveVars, evPc,
                 victim, hSess, hName, hOk, disk, created, dropped, acked,
                 failedSave, boundVars>>

\* Fault variant of CreateLook: the exit code is not looked at.
CreateLookUnchecked(h) ==
  /\ HStep(h, "look", "drawNew")
  /\ evPc' = [evPc EXCEPT ![hSess[h]] = "wait"]
  /\ UNCHANGED <<up, appVars, listVars, objectVars, ioVars, saveVars, watched,
                 victim, hSess, hName, hOk, disk, created, dropped, acked,
                 failedSave, boundVars>>

\* ... and then looks whether the session has already exited.
CreateLook(h) ==
  LET s == hSess[h] IN
  /\ HStep(h, "look", "drawNew")
  /\ evPc' = [evPc EXCEPT ![s] = IF exited[s] THEN "get" ELSE "wait"]
  /\ UNCHANGED <<up, appVars, listVars, objectVars, ioVars, saveVars, watched,
                 victim, hSess, hName, hOk, disk, created, dropped, acked,
                 failedSave, boundVars>>

-----------------------------------------------------------------------------
(***************************************************************************)
(* publish_session_list: the summaries are collected, and then sent.       *)
(***************************************************************************)

\* Those that have drawn a list and not sent it yet.
Sending == {h \in Handlers : hPc[h] \in {"sendNew", "send"}}
             \cup {s \in Sessions : evPc[s] = "send"}

Draw(p) ==
  /\ drawn' = [drawn EXCEPT ![p] = Summaries]
  /\ crossed' = (Sending # {})
  /\ UNCHANGED <<list, published>>

Send(p) ==
  /\ list' = drawn[p]
  /\ published' = TRUE
  /\ drawn' = [drawn EXCEPT ![p] = {}]
  /\ UNCHANGED crossed

HandlerDraws(h) ==
  /\ HStep(h, "drawNew", "sendNew") \/ HStep(h, "draw", "send")
  /\ Draw(h)
  /\ UNCHANGED <<up, appVars, objectVars, ioVars, saveVars, evictVars, hSess,
                 hName, hOk, disk, created, dropped, acked, failedSave,
                 boundVars>>

\* The list goes out, and SessionCreated is the answer.
CreateDone(h) ==
  /\ HStep(h, "sendNew", "idle")
  /\ Send(h)
  /\ created' = created \cup {hSess[h]}
  /\ hSess' = [hSess EXCEPT ![h] = NoSession]
  /\ UNCHANGED <<up, appVars, objectVars, ioVars, saveVars, evictVars, hName,
                 hOk, disk, dropped, acked, failedSave, boundVars>>

-----------------------------------------------------------------------------
(***************************************************************************)
(* KillSession: kill_session_for (ipc.rs:1181-1211).                       *)
(***************************************************************************)

KillRequest(h, s) ==
  /\ HStep(h, "idle", "get")
  /\ nameOf[s] # NoName /\ kills < MaxKills
  /\ kills' = kills + 1
  /\ hSess' = [hSess EXCEPT ![h] = s]
  /\ dropped' = dropped \cup {s}
  /\ UNCHANGED <<up, appVars, listVars, objectVars, ioVars, saveVars, evictVars,
                 hName, hOk, disk, created, acked, failedSave, crashes>>

KillGetLive(h) ==
  /\ HStep(h, "get", "mark")
  /\ hSess[h] \in live
  /\ hName' = [hName EXCEPT ![h] = nameOf[hSess[h]]]
  /\ UNCHANGED <<up, appVars, listVars, objectVars, ioVars, saveVars, evictVars,
                 hSess, hOk, disk, created, dropped, acked, failedSave,
                 boundVars>>

KillGetNone(h) ==
  /\ HStep(h, "get", "unrestore")
  /\ hSess[h] \notin live
  /\ UNCHANGED <<up, appVars, listVars, objectVars, ioVars, saveVars, evictVars,
                 hSess, hName, hOk, disk, created, dropped, acked, failedSave,
                 boundVars>>

\* Session::kill: the flag first, then the signal ...
KillMark(h) ==
  /\ HStep(h, "mark", "remove")
  /\ killed' = [killed EXCEPT ![hSess[h]] = TRUE]
  /\ UNCHANGED <<up, appVars, listVars, nameOf, exited, ioVars, saveVars,
                 evictVars, hSess, hName, hOk, disk, created, dropped, acked,
                 failedSave, boundVars>>

\* ... which may fail: the answer is an error and the session stays.
KillMarkFails(h) ==
  /\ MayFail
  /\ HStep(h, "mark", "idle")
  /\ killed' = [killed EXCEPT ![hSess[h]] = TRUE]
  /\ hSess' = [hSess EXCEPT ![h] = NoSession]
  /\ hName' = [hName EXCEPT ![h] = NoName]
  /\ UNCHANGED <<up, appVars, listVars, nameOf, exited, ioVars, saveVars,
                 evictVars, hOk, disk, created, dropped, acked, failedSave,
                 boundVars>>

KillRemove(h) ==
  /\ HStep(h, "remove", "unrestore")
  /\ live' = live \ {hSess[h]}
  /\ UNCHANGED <<up, restored, nameVars, listVars, objectVars, ioVars, saveVars,
                 evictVars, hSess, hName, hOk, disk, created, dropped, acked,
                 failedSave, boundVars>>

KillUnrestore(h) ==
  LET s == hSess[h] IN
  /\ HStep(h, "unrestore", "unname")
  /\ restored' = restored \ {s}
  /\ hName' = [hName EXCEPT ![h] =
                 IF @ = NoName /\ s \in restored THEN nameOf[s] ELSE @]
  /\ UNCHANGED <<up, live, nameVars, listVars, objectVars, ioVars, saveVars,
                 evictVars, hSess, hOk, disk, created, dropped, acked,
                 failedSave, boundVars>>

\* Fault variant of KillUnname: the name is reserved again.
KillUnnameReserves(h) ==
  /\ HStep(h, "unname", "erase")
  /\ names' = names \cup {hName[h]} /\ UNCHANGED freed
  /\ UNCHANGED <<up, live, restored, listVars, objectVars, ioVars, saveVars,
                 evictVars, hSess, hName, hOk, disk, created, dropped, acked,
                 failedSave, boundVars>>

KillUnname(h) ==
  /\ HStep(h, "unname", "erase")
  /\ Free(hName[h])
  /\ UNCHANGED <<up, live, restored, listVars, objectVars, ioVars, saveVars,
                 evictVars, hSess, hName, hOk, disk, created, dropped, acked,
                 failedSave, boundVars>>

\* Fault variant of KillErase: an error is answered at once.
KillEraseReturns(h) ==
  /\ \/ /\ HStep(h, "erase", "draw")
        /\ disk' = [disk EXCEPT ![hSess[h]] = "none"]
        /\ UNCHANGED <<hSess, hName>>
     \/ /\ MayFail /\ UNCHANGED disk
        /\ HStep(h, "erase", "idle")
        /\ hSess' = [hSess EXCEPT ![h] = NoSession]
        /\ hName' = [hName EXCEPT ![h] = NoName]
  /\ UNCHANGED <<up, appVars, listVars, objectVars, ioVars, saveVars, evictVars,
                 hOk, created, dropped, acked, failedSave, boundVars>>

\* Persistence::remove_session
KillErase(h) ==
  /\ HStep(h, "erase", "draw")
  /\ \/ /\ disk' = [disk EXCEPT ![hSess[h]] = "none"]
        /\ hOk' = [hOk EXCEPT ![h] = TRUE]
     \/ /\ MayFail /\ UNCHANGED disk
        /\ hOk' = [hOk EXCEPT ![h] = FALSE]
  /\ UNCHANGED <<up, appVars, listVars, objectVars, ioVars, saveVars, evictVars,
                 hSess, hName, created, dropped, acked, failedSave, boundVars>>

\* SessionKilled, or an error when the row could not be erased.
KillDone(h) ==
  /\ HStep(h, "send", "idle")
  /\ Send(h)
  /\ acked' = IF hOk[h] THEN acked \cup {hSess[h]} ELSE acked
  /\ hSess' = [hSess EXCEPT ![h] = NoSession]
  /\ hName' = [hName EXCEPT ![h] = NoName]
  /\ hOk' = [hOk EXCEPT ![h] = TRUE]
  /\ UNCHANGED <<up, appVars, objectVars, ioVars, saveVars, evictVars, disk,
                 created, dropped, failedSave, boundVars>>

-----------------------------------------------------------------------------
(***************************************************************************)
(* The I/O thread (run_pty_io, record_output, mark_exited).                *)
(***************************************************************************)

IoStep(s, from, to) ==
  /\ up /\ ioPc[s] = from
  /\ ioPc' = [ioPc EXCEPT ![s] = to]

\* record_output leaves the session dirty.
Output(s) ==
  /\ up /\ ioPc[s] = "run" /\ ~dirty[s]
  /\ dirty' = [dirty EXCEPT ![s] = TRUE]
  /\ UNCHANGED <<up, appVars, listVars, objectVars, ioVars, savePc, snap,
                 evictVars, handlerVars, disk, created, dropped, acked,
                 failedSave, boundVars>>

\* The child has exited or was killed: mark_exited stores the exit code ...
MarkExited(s) ==
  /\ IoStep(s, "run", "marked")
  /\ exited' = [exited EXCEPT ![s] = TRUE]
  /\ UNCHANGED <<up, appVars, listVars, nameOf, killed, notice, saveVars,
                 evictVars, handlerVars, disk, created, dropped, acked,
                 failedSave, boundVars>>

\* ... persists the session unless it was killed ...
FinalCheck(s) ==
  /\ IoStep(s, "marked", IF killed[s] THEN "notify" ELSE "save")
  /\ dirty' = [dirty EXCEPT ![s] = FALSE]
  /\ UNCHANGED <<up, appVars, listVars, objectVars, notice, savePc, snap,
                 evictVars, handlerVars, disk, created, dropped, acked,
                 failedSave, boundVars>>

FinalSave(s) ==
  /\ IoStep(s, "save", "notify")
  /\ \/ /\ disk' = [disk EXCEPT ![s] = "final"]
        /\ UNCHANGED <<dirty, failedSave>>
     \/ /\ MayFail
        /\ dirty' = [dirty EXCEPT ![s] = TRUE]
        /\ failedSave' = failedSave \cup {s}
        /\ UNCHANGED disk
  /\ UNCHANGED <<up, appVars, listVars, objectVars, notice, savePc, snap,
                 evictVars, handlerVars, created, dropped, acked, boundVars>>

\* ... and sends the exit notice to the list forwarder, if there is one.
Notify(s) ==
  /\ IoStep(s, "notify", "done")
  /\ notice' = [notice EXCEPT ![s] = watched[s]]
  /\ UNCHANGED <<up, appVars, listVars, objectVars, saveVars, evictVars,
                 handlerVars, disk, created, dropped, acked, failedSave,
                 boundVars>>

-----------------------------------------------------------------------------
(***************************************************************************)
(* flush_dirty_persistence, by the persistence thread of the session and   *)
(* by the flush of a graceful shutdown.                                    *)
(***************************************************************************)

\* Where the thread goes next: the persistence thread ends with its session
\* or sleeps for half a minute, the flush of a shutdown is done with it.
AfterFlush(s, t) == IF exited[s] \/ t = "flush" THEN "off" ELSE "wake"

\* persist_dirty is swapped for false; if it was set, and the session was not
\* killed, Session::persist takes a snapshot ...
FlushCapture(s, t) ==
  /\ up /\ savePc[s][t] = "wake"
  /\ LET saves == dirty[s] /\ ~killed[s] IN
     /\ savePc' = [savePc EXCEPT ![s][t] =
                     IF saves THEN "save" ELSE AfterFlush(s, t)]
     /\ snap' = [snap EXCEPT ![s][t] =
                   IF saves /\ exited[s] THEN "final" ELSE "partial"]
  /\ dirty' = [dirty EXCEPT ![s] = FALSE]
  /\ UNCHANGED <<up, appVars, listVars, objectVars, ioVars, evictVars,
                 handlerVars, disk, created, dropped, acked, failedSave,
                 boundVars>>

\* ... and writes it, whatever has happened to the session meanwhile.
FlushSave(s, t) ==
  /\ up /\ savePc[s][t] = "save"
  /\ savePc' = [savePc EXCEPT ![s][t] = AfterFlush(s, t)]
  /\ \/ /\ disk' = [disk EXCEPT ![s] = snap[s][t]]
        /\ UNCHANGED <<dirty, failedSave>>
     \/ /\ MayFail
        /\ dirty' = [dirty EXCEPT ![s] = TRUE]
        /\ failedSave' = failedSave \cup {s}
        /\ UNCHANGED disk
  /\ snap' = [snap EXCEPT ![s][t] = "partial"]
  /\ UNCHANGED <<up, appVars, listVars, objectVars, ioVars, evictVars,
                 handlerVars, created, dropped, acked, boundVars>>

-----------------------------------------------------------------------------
(***************************************************************************)
(* The list forwarder: evict_naturally_exited_session (ipc.rs:1280-1303)   *)
(* with insert_restored_session (ipc.rs:295-319).                          *)
(***************************************************************************)

EvStep(s, from, to) ==
  /\ up /\ evPc[s] = from
  /\ evPc' = [evPc EXCEPT ![s] = to]

EvictNotice(s) ==
  /\ notice[s]
  /\ EvStep(s, "wait", "get")
  /\ notice' = [notice EXCEPT ![s] = FALSE]
  /\ UNCHANGED <<up, appVars, listVars, objectVars, ioPc, saveVars, watched,
                 victim, handlerVars, disk, created, dropped, acked, failedSave,
                 boundVars>>

EvictGet(s) ==
  /\ EvStep(s, "get", IF s \in live THEN "check" ELSE "draw")
  /\ UNCHANGED <<up, appVars, listVars, objectVars, ioVars, saveVars, watched,
                 victim, handlerVars, disk, created, dropped, acked, failedSave,
                 boundVars>>

EvictCheck(s) ==
  /\ EvStep(s, "check", IF killed[s] THEN "draw" ELSE "name")
  /\ UNCHANGED <<up, appVars, listVars, objectVars, ioVars, saveVars, watched,
                 victim, handlerVars, disk, created, dropped, acked, failedSave,
                 boundVars>>

EvictName(s) ==
  /\ EvStep(s, "name", "insert")
  /\ names' = names \cup {nameOf[s]} /\ UNCHANGED freed
  /\ UNCHANGED <<up, live, restored, listVars, objectVars, ioVars, saveVars,
                 watched, victim, handlerVars, disk, created, dropped, acked,
                 failedSave, boundVars>>

\* Fault variant of EvictInsert: the session leaves the live map first.
EvictInsertLate(s) ==
  /\ EvStep(s, "insert", "remove")
  /\ live' = live \ {s}
  /\ UNCHANGED <<up, restored, nameVars, listVars, objectVars, ioVars, saveVars,
                 watched, victim, handlerVars, disk, created, dropped, acked,
                 failedSave, boundVars>>

EvictInsert(s) ==
  /\ EvStep(s, "insert", "cap")
  /\ restored' = restored \cup {s}
  /\ UNCHANGED <<up, live, nameVars, listVars, objectVars, ioVars, saveVars,
                 watched, victim, handlerVars, disk, created, dropped, acked,
                 failedSave, boundVars>>

\* Fault variant of OverCap: one session too many is kept.
OverCapByOne == Cardinality(restored) > MaxStored + 1

OverCap == Cardinality(restored) > MaxStored

\* The least recently active session is to go; its activity is any.
EvictPick(s, o) ==
  /\ OverCap /\ o \in restored
  /\ EvStep(s, "cap", "drop")
  /\ victim' = [victim EXCEPT ![s] = o]
  /\ UNCHANGED <<up, appVars, listVars, objectVars, ioVars, saveVars, watched,
                 handlerVars, disk, created, dropped, acked, failedSave,
                 boundVars>>

\* A kill or another forwarder may have been faster.
EvictDrop(s) ==
  /\ EvStep(s, "drop", IF victim[s] \in restored THEN "unname" ELSE "erase")
  /\ restored' = restored \ {victim[s]}
  /\ dropped' = dropped \cup {victim[s]}
  /\ UNCHANGED <<up, live, nameVars, listVars, objectVars, ioVars, saveVars,
                 watched, victim, handlerVars, disk, created, acked, failedSave,
                 boundVars>>

\* A session that is still live is left to its own forwarder (EvictFree).
EvictUnname(s) ==
  /\ EvStep(s, "unname", "erase")
  /\ IF victim[s] \in live THEN UNCHANGED nameVars ELSE Free(nameOf[victim[s]])
  /\ UNCHANGED <<up, live, restored, listVars, objectVars, ioVars, saveVars,
                 watched, victim, handlerVars, disk, created, dropped, acked,
                 failedSave, boundVars>>

EvictErase(s) ==
  /\ EvStep(s, "erase", "cap")
  /\ \/ disk' = [disk EXCEPT ![victim[s]] = "none"]
     \/ MayFail /\ UNCHANGED disk
  /\ victim' = [victim EXCEPT ![s] = NoSession]
  /\ UNCHANGED <<up, appVars, listVars, objectVars, ioVars, saveVars, watched,
                 handlerVars, created, dropped, acked, failedSave, boundVars>>

EvictCapped(s) ==
  /\ ~OverCap
  /\ EvStep(s, "cap", "remove")
  /\ UNCHANGED <<up, appVars, listVars, objectVars, ioVars, saveVars, watched,
                 victim, handlerVars, disk, created, dropped, acked, failedSave,
                 boundVars>>

EvictRemove(s) ==
  /\ EvStep(s, "remove", "free")
  /\ live' = live \ {s}
  /\ UNCHANGED <<up, restored, nameVars, listVars, objectVars, ioVars, saveVars,
                 watched, victim, handlerVars, disk, created, dropped, acked,
                 failedSave, boundVars>>

\* Fault variant of EvictFree: the name of a capped session stays reserved.
EvictFreeForgets(s) ==
  /\ EvStep(s, "free", "draw")
  /\ UNCHANGED <<up, appVars, listVars, objectVars, ioVars, saveVars,
                 watched, victim, handlerVars, disk, created, dropped, acked,
                 failedSave, boundVars>>

\* The cap may have dropped the session while it was still in the live map.
EvictFree(s) ==
  /\ EvStep(s, "free", "draw")
  /\ IF s \in restored THEN UNCHANGED nameVars ELSE Free(nameOf[s])
  /\ UNCHANGED <<up, live, restored, listVars, objectVars, ioVars, saveVars,
                 watched, victim, handlerVars, disk, created, dropped, acked,
                 failedSave, boundVars>>

EvictDraw(s) ==
  /\ EvStep(s, "draw", "send")
  /\ Draw(s)
  /\ UNCHANGED <<up, appVars, objectVars, ioVars, saveVars, watched, victim,
                 handlerVars, disk, created, dropped, acked, failedSave,
                 boundVars>>

EvictDone(s) ==
  /\ EvStep(s, "send", "off")
  /\ Send(s)
  /\ UNCHANGED <<up, appVars, objectVars, ioVars, saveVars, watched, victim,
                 handlerVars, disk, created, dropped, acked, failedSave,
                 boundVars>>

-----------------------------------------------------------------------------
(***************************************************************************)
(* Stop and start of the daemon.                                           *)
(***************************************************************************)

\* SIGTERM: flush_dirty_sessions visits the sessions that are live now.
Shutdown ==
  /\ up /\ crashes < MaxCrashes
  /\ \A s \in Sessions : savePc[s]["flush"] = "off"
  /\ savePc' = [s \in Sessions |->
                  IF s \in live THEN [savePc[s] EXCEPT !["flush"] = "wake"]
                  ELSE savePc[s]]
  /\ UNCHANGED <<up, appVars, listVars, objectVars, ioVars, dirty, snap,
                 evictVars, handlerVars, disk, created, dropped, acked,
                 failedSave, boundVars>>

\* The process ends, after a flush or at once: only the database remains.
Stop ==
  /\ up /\ crashes < MaxCrashes
  /\ up' = FALSE
  /\ crashes' = crashes + 1
  /\ live' = {} /\ restored' = {} /\ names' = {}
  /\ list' = {} /\ published' = FALSE /\ drawn' = NoneDrawn /\ crossed' = FALSE
  /\ exited' = Unset /\ killed' = Unset
  /\ ioPc' = NoTask /\ notice' = Unset
  /\ dirty' = Unset /\ savePc' = NoSaves /\ snap' = NoSnaps
  /\ watched' = Unset /\ evPc' = NoTask
  /\ victim' = [s \in Sessions |-> NoSession]
  /\ hPc' = Idle
  /\ hSess' = [h \in Handlers |-> NoSession]
  /\ hName' = [h \in Handlers |-> NoName]
  /\ hOk' = [h \in Handlers |-> TRUE]
  /\ UNCHANGED <<nameOf, disk, created, dropped, freed, acked, failedSave, kills>>

(***************************************************************************)
(* AppState::open: prune_sessions erases the expired rows and all but the  *)
(* MaxStored newest of the others, and load_sessions restores the rest.    *)
(***************************************************************************)
Rows == {s \in Sessions : disk[s] # "none"}

Start ==
  /\ ~up
  /\ up' = TRUE
  /\ \E expired \in SUBSET Rows, kept \in SUBSET Rows :
       /\ kept \cap expired = {}
       /\ Cardinality(kept) <= MaxStored
       /\ Cardinality(kept) < MaxStored => kept = Rows \ expired
       /\ restored' = kept
       /\ names' = {nameOf[s] : s \in kept}
       /\ disk' = [s \in Sessions |-> IF s \in kept THEN disk[s] ELSE "none"]
       /\ created' = kept
       /\ dropped' = dropped \cup (Rows \ kept)
       /\ freed' = freed \cup {s \in Sessions \ kept : nameOf[s] # NoName}
  /\ UNCHANGED <<live, listVars, objectVars, ioVars, saveVars, evictVars,
                 handlerVars, acked, failedSave, boundVars>>

-----------------------------------------------------------------------------

Handler(h) ==
  \/ CreateSpawn(h) \/ CreateFails(h) \/ CreateInsert(h) \/ CreateWatch(h)
  \/ CreateLook(h) \/ HandlerDraws(h) \/ CreateDone(h)
  \/ KillGetLive(h) \/ KillGetNone(h) \/ KillMark(h) \/ KillMarkFails(h)
  \/ KillRemove(h) \/ KillUnrestore(h) \/ KillUnname(h) \/ KillErase(h) \/ KillDone(h)

Request(h) ==
  \E s \in Sessions :
    \/ \E n \in Names : CreateReserve(h, s, n)
    \/ KillRequest(h, s)

Io(s) == FinalCheck(s) \/ FinalSave(s) \/ Notify(s)

Saver(s) == \E t \in Savers : FlushCapture(s, t) \/ FlushSave(s, t)

Forwarder(s) ==
  \/ EvictNotice(s) \/ EvictGet(s) \/ EvictCheck(s) \/ EvictName(s)
  \/ EvictInsert(s) \/ (\E o \in Sessions : EvictPick(s, o))
  \/ EvictDrop(s) \/ EvictUnname(s) \/ EvictErase(s) \/ EvictCapped(s) \/ EvictRemove(s) \/ EvictFree(s)
  \/ EvictDraw(s) \/ EvictDone(s)

Next ==
  \/ \E h \in Handlers : Handler(h) \/ Request(h)
  \/ \E s \in Sessions :
       Output(s) \/ MarkExited(s) \/ Io(s) \/ Saver(s) \/ Forwarder(s)
  \/ Shutdown \/ Stop \/ Start

Spec == Init /\ [][Next]_vars

(***************************************************************************)
(* Fairness: the threads of a session and the tasks of the runtime are     *)
(* scheduled.  Nothing is assumed of the children, of the clients or of    *)
(* the daemon being restarted.                                             *)
(***************************************************************************)
Fairness ==
  /\ \A h \in Handlers : WF_vars(Handler(h))
  /\ \A s \in Sessions : WF_vars(Io(s)) /\ WF_vars(Forwarder(s))

FairSpec == Spec /\ Fairness

-----------------------------------------------------------------------------
(***************************************************************************)
(* Type invariant.                                                         *)
(***************************************************************************)
TypeOK ==
  /\ up \in BOOLEAN
  /\ live \subseteq Sessions /\ restored \subseteq Sessions
  /\ names \subseteq Names
  /\ list \subseteq Sessions /\ published \in BOOLEAN /\ crossed \in BOOLEAN
  /\ nameOf \in [Sessions -> Names \cup {NoName}]
  /\ exited \in [Sessions -> BOOLEAN]
  /\ killed \in [Sessions -> BOOLEAN]
  /\ dirty \in [Sessions -> BOOLEAN]
  /\ ioPc \in [Sessions -> IoPcs]
  /\ savePc \in [Sessions -> [Savers -> SavePcs]]
  /\ snap \in [Sessions -> [Savers -> {"partial", "final"}]]
  /\ watched \in [Sessions -> BOOLEAN]
  /\ notice \in [Sessions -> BOOLEAN]
  /\ evPc \in [Sessions -> EvPcs]
  /\ victim \in [Sessions -> Sessions \cup {NoSession}]
  /\ hPc \in [Handlers -> HPcs]
  /\ hSess \in [Handlers -> Sessions \cup {NoSession}]
  /\ hName \in [Handlers -> Names \cup {NoName}]
  /\ hOk \in [Handlers -> BOOLEAN]
  /\ drawn \in [Publishers -> SUBSET Sessions]
  /\ disk \in [Sessions -> {"none", "partial", "final"}]
  /\ created \subseteq Sessions /\ dropped \subseteq Sessions
  /\ freed \subseteq Sessions
  /\ acked \subseteq Sessions /\ failedSave \subseteq Sessions
  /\ kills \in 0..MaxKills /\ crashes \in 0..MaxCrashes

(***************************************************************************)
(* A session a client was told of can be found, live or restored, until    *)
(* it is killed, capped or pruned: neither its eviction nor that of        *)
(* another session nor a racing kill loses it in between                   *)
(* (evict_naturally_exited_session inserts before it removes).             *)
(***************************************************************************)
NoLostSession ==
  up => \A s \in created \ dropped : s \in live \cup restored

\* No request is being handled and no eviction is in progress.
Quiet ==
  /\ up
  /\ \A h \in Handlers : hPc[h] = "idle"
  /\ \A s \in Sessions : evPc[s] \in {"off", "wait"}

(***************************************************************************)
(* No name stays reserved without a session that has it, which would       *)
(* refuse it to every later CreateSession: also when the cap drops a       *)
(* session that is being evicted, or a kill races with an eviction         *)
(* (ipc.rs:308-312, 1197-1199, 1298-1300).                                 *)
(***************************************************************************)
NoNameLeak ==
  Quiet => names \subseteq {nameOf[s] : s \in live \cup restored}

\* Inside the cap loop of insert_restored_session.
Capping == {"cap", "drop", "unname", "erase"}

(***************************************************************************)
(* The restored map outgrows its cap only while evictions that will shrink *)
(* it again are in progress (ipc.rs:298-318).                              *)
(***************************************************************************)
RestoredIsCapped ==
  Cardinality(restored) <=
    MaxStored + Cardinality({s \in Sessions : evPc[s] \in Capping})

(***************************************************************************)
(* A session that exits by itself leaves the live map: the exit notice is  *)
(* not missed when the child ends while the session is being created       *)
(* (subscribe before the exit check, ipc.rs:1253-1255).                    *)
(***************************************************************************)
ExitedIsEvicted ==
  \A s \in Sessions :
    (s \in live /\ exited[s]) ~> (s \notin live \/ killed[s])

(***************************************************************************)
(* messages.rs:49-50 and docs/PROTOCOL.md:3: "`KillSession` receives       *)
(* `SessionKilled { session_id }` only after the daemon has removed both   *)
(* live and persisted session state".                                      *)
(***************************************************************************)
AckedKillIsGone ==
  \A s \in acked :
    s \notin live /\ s \notin restored /\ disk[s] = "none"

(***************************************************************************)
(* docs/INSTALL.md:45: "Duplicate session names are rejected by the daemon *)
(* so phone dashboard labels and `shelly <name>` shortcuts stay            *)
(* unambiguous."  Even of the sessions that nobody asked to kill or drop   *)
(* two may share a name: a kill, or the end of an eviction, frees a name   *)
(* it read earlier, which another session has by then (ipc.rs:1197, 1298). *)
(***************************************************************************)
NamesAreUnique ==
  \A s, r \in (live \cup restored) \ dropped : nameOf[s] = nameOf[r] => s = r

(***************************************************************************)
(* A name is shared only if it was freed while one of its sessions still   *)
(* had it: the reservation itself lets no two sessions have a name,        *)
(* through evictions, the cap, failures and restarts                       *)
(* (reserve_new_session_name, ipc.rs:1320-1345).                           *)
(***************************************************************************)
UniqueNamesUnlessFreed ==
  \A s, r \in (live \cup restored) \ freed : nameOf[s] = nameOf[r] => s = r

(***************************************************************************)
(* docs/PROTOCOL.md:28: the daemon sends replacement lists whenever a      *)
(* session is created, removed or exits.  With nothing in progress the     *)
(* last list published is the list of the sessions, whatever failed on the *)
(* way, unless two publications crossed: publish_session_list takes no     *)
(* lock, and the older list may be sent last (ipc.rs:258).                 *)
(***************************************************************************)
LastListIsCurrentIfUncrossed ==
  Quiet /\ published /\ ~crossed => list = Summaries

(***************************************************************************)
(* The books agree: sessions can be found, names belong to sessions, and   *)
(* the cap holds, while creations, kills, exits, evictions and saves race  *)
(* (AppState, ipc.rs:180-330 and 1180-1345).                               *)
(***************************************************************************)
RegistryInv ==
  /\ TypeOK
  /\ NoLostSession
  /\ NoNameLeak
  /\ RestoredIsCapped
=============================================================================
