------------------------------- MODULE Access ------------------------------
(***************************************************************************)
(* Who may use the daemon from outside: the pairing ceremony               *)
(* (PairingManager in crates/daemon/src/pairing.rs), the registry of       *)
(* paired devices and their revocation (AppState in ipc.rs, the devices    *)
(* table of persistence.rs), and the connections of phones                 *)
(* (transport_iroh.rs).                                                    *)
(*                                                                         *)
(*   - the desktop starts a pairing, answers its prompts and removes       *)
(*     devices over the control socket;                                    *)
(*   - a phone connects, is recognised as paired or pairs with a code, and *)
(*     then sends requests; a request may start a forwarder, a task of its *)
(*     own that sends session data until it is told to stop;               *)
(*   - removing a device deletes its row, then its entry in the map, then  *)
(*     bumps the revocation counter its connections watch, then takes its  *)
(*     push token off the relay: four steps, and every other task may run  *)
(*     between two of them.                                                *)
(*                                                                         *)
(* Each access to a shared map and each database transaction is one step.  *)
(* A function that holds the entry of a device while it saves it is one    *)
(* step: only its own transaction falls inside.                            *)
(***************************************************************************)
EXTENDS Naturals, Sequences, FiniteSets

CONSTANTS
  Devices,      \* node ids of phones, proved by the iroh handshake
  Conns,        \* connections of phones
  Tokens,       \* push tokens, each with its platform
  Scenarios,    \* environments, see Scenario
  MaxUnauth,    \* MAX_UNAUTHENTICATED_CONNECTIONS
  MaxAttempts,  \* MAX_CODE_ATTEMPTS
  MaxCodes,     \* bound: pairings begun
  MaxRequests,  \* bound: approvals asked for
  None

VARIABLES
  up, crashes,
  scenario,   \* the scenario of the behaviour
  \* PairingManager
  code,       \* the active code, its owner's prompt and its wrong guesses
  codes,      \* codes made so far
  lapsed,     \* the codes whose five minutes are over
  approvals,  \* requests that wait for an answer
  requests,   \* requests made so far: their device and code
  prompts,    \* requests shown at the desktop
  answers,    \* answers on their way to a waiting connection
  \* AppState and the devices table
  devices,    \* AppState::devices: the devices, with or without a push token
  rows,       \* the devices table
  revision,   \* per device: the value of its revocation channel
  pushed,     \* the tokens the push dispatcher was told to register
  taken,      \* per removal in progress: the token of the entry it took out
  remover,    \* the desktop's RemoveDevice in progress
  conn,       \* the connections
  \* history
  approved,   \* requests the operator agreed to
  wrong,      \* per code: wrong guesses while it was active
  granted,    \* per code: the devices it paired
  calm,       \* connections whose pairing no removal has overlapped
  settled,    \* devices whose pairing was completed by such a connection
  gone,       \* devices removed, and not paired again since
  leaked      \* registered tokens that the daemon no longer knows of

manager == <<code, codes, lapsed, approvals, requests, prompts, answers>>
registry == <<devices, rows, revision, pushed, taken>>
history == <<approved, wrong, granted, calm, settled, gone, leaked>>
vars == <<up, crashes, scenario, manager, registry, remover, conn, history>>

-----------------------------------------------------------------------------
CodeIds == 1 .. MaxCodes
RequestIds == 1 .. MaxRequests

\* A device's record: its push token, if it has one.
StoredDevice == [token : Tokens \cup {None}]
Unnotified == [token |-> None]

\* An environment: the devices paired at the start, those that connect, what
\* they ask for and the tokens they send, whether saving and deleting a device
\* may fail, and bounds on the codes, the removals of a device and the stops of
\* the daemon.
Requests == {"pair", "unpair", "forward", "push", "clear"}
Scenario == [paired : SUBSET Devices, phones : SUBSET Devices,
             asks : SUBSET Requests, tokens : SUBSET Tokens, fails : BOOLEAN,
             codes : 0 .. MaxCodes, removals : Nat, crashes : Nat]

\* struct PendingPairCode.
ActiveCode == [id : CodeIds, attempts : Nat, open : BOOLEAN]

ASSUME AccessAssumption ==
  /\ {MaxUnauth, MaxCodes, MaxRequests} \subseteq Nat /\ MaxAttempts \in Nat \ {0}
  /\ Scenarios \subseteq Scenario
  /\ None \notin Nat \cup BOOLEAN \cup Conns \cup Tokens
  /\ None \notin StoredDevice /\ None \notin ActiveCode

Closed == [pc |-> "closed"]

\* `v5` is the protocol version the client speaks: the current one, or the
\* oldest one that paired devices may still use.
Opened(d, v5) ==
  [pc |-> "hello", d |-> d, v5 |-> v5, permit |-> TRUE, paired |-> FALSE,
   seen |-> None, fwd |-> None, req |-> None]

Quiet == [pc |-> "quiet"]

Init ==
  /\ scenario \in Scenarios
  /\ up = TRUE /\ crashes = 0
  /\ code = None /\ codes = 0 /\ lapsed = {}
  /\ approvals = {} /\ requests = <<>> /\ prompts = {}
  /\ answers = [i \in RequestIds |-> None]
  /\ devices = [d \in Devices |->
       IF d \in scenario.paired THEN Unnotified ELSE None]
  /\ rows = devices
  /\ revision = [d \in Devices |-> 0]
  /\ pushed = {} /\ taken = [who \in Conns \cup {None} |-> None]
  /\ remover = Quiet
  /\ conn = [c \in Conns |-> Closed]
  /\ approved = {} /\ calm = {} /\ settled = {} /\ gone = {} /\ leaked = {}
  /\ wrong = [k \in CodeIds |-> 0] /\ granted = [k \in CodeIds |-> {}]

is_device_paired(d) == devices[d] # None

\* Fault: the key of older releases is removed after the row is stored, and
\* the two are the same.
StoredReordered(d, device) == [rows EXCEPT ![d] = None]

\* Persistence::save_device.
Stored(d, device) == [rows EXCEPT ![d] = device]

\* The token of the entry of d, as a set.
TokenOf(d) == {t \in Tokens : is_device_paired(d) /\ devices[d].token = t}

-----------------------------------------------------------------------------
(* The desktop.                                                            *)

\* begin_pairing: the new code is the only one.
begin_pairing ==
  /\ up /\ codes < scenario.codes
  /\ codes' = codes + 1
  /\ code' = [id |-> codes + 1, attempts |-> 0, open |-> TRUE]
  /\ UNCHANGED <<up, crashes, scenario, lapsed, approvals, requests, prompts, answers,
                 registry, remover, conn, history>>

\* The command that began the pairing ends: nobody listens to its prompts.
DesktopLeaves ==
  /\ up /\ code # None /\ code.open
  /\ code' = [code EXCEPT !.open = FALSE]
  /\ prompts' = {}
  /\ UNCHANGED <<up, crashes, scenario, codes, lapsed, approvals, requests, answers,
                 registry, remover, conn, history>>

CodeLapses ==
  /\ \E k \in 1 .. codes : k \notin lapsed /\ lapsed' = lapsed \cup {k}
  /\ UNCHANGED <<up, crashes, scenario, code, codes, approvals, requests, prompts,
                 answers, registry, remover, conn, history>>

\* approve: the operator answers a prompt; it may have been given up.
approve(i, yes) ==
  /\ up /\ i \in prompts /\ prompts' = prompts \ {i}
  /\ approvals' = approvals \ {i}
  /\ answers' = IF i \in approvals THEN [answers EXCEPT ![i] = yes] ELSE answers
  /\ approved' = IF yes THEN approved \cup {i} ELSE approved
  /\ UNCHANGED <<up, crashes, scenario, code, codes, lapsed, requests, registry, remover,
                 conn, wrong, granted, calm, settled, gone, leaked>>

-----------------------------------------------------------------------------
(* Removing a device, by the desktop or by the device itself.  `who` is a  *)
(* connection, or None for the desktop.                                    *)

Pc(who) == IF who = None THEN remover.pc ELSE conn[who].pc
DeviceOf(who) == IF who = None THEN remover.d ELSE conn[who].d
Advance(who, pc) ==
  IF who = None
  THEN /\ remover' = IF pc = "loop" THEN Quiet ELSE [remover EXCEPT !.pc = pc]
       /\ UNCHANGED conn
  ELSE conn' = [conn EXCEPT ![who].pc = pc] /\ UNCHANGED remover

\* History: a removal of d begins.
BeginRemoval(d) ==
  /\ settled' = settled \ {d}
  /\ calm' = {c \in calm : conn[c].d # d}
  /\ UNCHANGED <<approved, wrong, granted, gone, leaked>>

\* remove_device, its lookup.
RemoveDevice(d) ==
  /\ up /\ remover = Quiet /\ is_device_paired(d) /\ revision[d] < scenario.removals
  /\ remover' = [pc |-> "erase", d |-> d]
  /\ BeginRemoval(d)
  /\ UNCHANGED <<up, crashes, scenario, manager, registry, conn>>

\* Persistence::remove_device; on an error the device stays.
EraseRow(who) ==
  /\ up /\ Pc(who) = "erase"
  /\ \/ rows' = [rows EXCEPT ![DeviceOf(who)] = None] /\ Advance(who, "forget")
     \/ scenario.fails /\ UNCHANGED rows /\ Advance(who, "loop")
  /\ UNCHANGED <<up, crashes, scenario, manager, devices, revision, pushed, taken,
                 history>>

\* The removal is done.  A device that removed itself is no longer paired on
\* its connection.
Removed(who) ==
  IF who = None THEN remover' = Quiet /\ UNCHANGED conn
  ELSE /\ conn' = [conn EXCEPT ![who].pc = "loop", ![who].paired = FALSE,
                                ![who].seen = None]
       /\ UNCHANGED remover

\* devices.remove: there is more to do if there was still an entry.
ForgetDevice(who) ==
  /\ up /\ Pc(who) = "forget"
  /\ LET d == DeviceOf(who)
     IN /\ devices' = [devices EXCEPT ![d] = None]
        /\ gone' = gone \cup {d}
        /\ IF is_device_paired(d)
           THEN taken' = [taken EXCEPT ![who] = devices[d].token] /\ Advance(who, "revoke")
           ELSE UNCHANGED taken /\ Removed(who)
  /\ UNCHANGED <<up, crashes, scenario, manager, rows, revision, pushed, approved, wrong,
                 granted, calm, settled, leaked>>

\* Fault: the connections of the device are not told.
RevokedSilently(d) == revision

\* revoke_device_connections.
Revoked(d) == [revision EXCEPT ![d] = @ + 1]

RevokeConnections(who) ==
  /\ up /\ Pc(who) = "revoke"
  /\ revision' = Revoked(DeviceOf(who))
  /\ IF taken[who] = None THEN Removed(who) ELSE Advance(who, "unregister")
  /\ UNCHANGED <<up, crashes, scenario, manager, devices, rows, pushed, taken, history>>

\* Fault: the token is looked up when the entry is gone.
UnregisteredNever(who) == pushed \ TokenOf(DeviceOf(who))

\* PushDispatcher::unregister_token.
Unregistered(who) == pushed \ {taken[who]}

UnregisterToken(who) ==
  /\ up /\ Pc(who) = "unregister"
  /\ pushed' = Unregistered(who)
  /\ taken' = [taken EXCEPT ![who] = None] /\ Removed(who)
  /\ UNCHANGED <<up, crashes, scenario, manager, devices, rows, revision, history>>

-----------------------------------------------------------------------------
(* A connection up to its message loop.                                    *)

At(c, pc) == up /\ conn[c].pc = pc

Moved(c, new) ==
  conn' = [conn EXCEPT ![c] = new] /\ UNCHANGED <<up, crashes, scenario, remover>>
Goto(c, pc) == Moved(c, [conn[c] EXCEPT !.pc = pc])

\* The end of handle_connection: forwarders stop, the watcher is dropped.
Close(c) == Moved(c, Closed)

\* The accept loop drops a connection when the permits are taken.
Accept(c, d, v5) ==
  /\ At(c, "closed")
  /\ Cardinality({x \in Conns : conn[x] # Closed /\ conn[x].permit}) < MaxUnauth
  /\ Moved(c, Opened(d, v5))
  /\ UNCHANGED <<manager, registry, history>>

iroh_version_is_accepted(v5, paired) == v5 \/ paired

\* Hello, or its timeout, or anything else.
Hello(c) ==
  /\ At(c, "hello")
  /\ LET paired == is_device_paired(conn[c].d)
     IN IF iroh_version_is_accepted(conn[c].v5, paired)
        THEN Moved(c, [conn[c] EXCEPT !.paired = paired,
                        !.pc = IF paired THEN "watch" ELSE "loop"])
        ELSE Close(c)
  /\ UNCHANGED <<manager, registry, history>>

\* Fault: a device that has just paired is not watched for.
WatchKnownOnly(c) ==
  /\ up /\ conn[c].pc \in {"watch", "completed"}
  /\ Moved(c, [conn[c] EXCEPT !.permit = FALSE, !.paired = TRUE,
                !.seen = IF conn[c].pc = "watch" THEN revision[conn[c].d] ELSE @,
                !.pc = IF @ = "watch" THEN "mark" ELSE "loop"])
  /\ UNCHANGED <<manager, registry, history>>

\* subscribe_device_revocation, for a device recognised at Hello or just
\* paired; from here on the connection needs no permit.
Watch(c) ==
  /\ up /\ conn[c].pc \in {"watch", "completed"}
  /\ Moved(c, [conn[c] EXCEPT !.seen = revision[conn[c].d], !.permit = FALSE,
                !.paired = TRUE,
                !.pc = IF @ = "watch" THEN "mark" ELSE "loop"])
  /\ UNCHANGED <<manager, registry, history>>

\* mark_device_seen: the record is saved if there is one.
Saved(d) == \/ rows' = IF is_device_paired(d)
                       THEN Stored(d, devices[d]) ELSE rows
            \/ scenario.fails /\ UNCHANGED rows

mark_device_seen(c) ==
  /\ At(c, "mark") /\ Saved(conn[c].d) /\ Goto(c, "recheck")
  /\ UNCHANGED <<manager, devices, revision, pushed, taken, history>>

Recheck(c) ==
  /\ At(c, "recheck")
  /\ IF is_device_paired(conn[c].d) THEN Goto(c, "loop") ELSE Close(c)
  /\ UNCHANGED <<manager, registry, history>>

-----------------------------------------------------------------------------
(* The message loop.                                                       *)

\* The select arm of the revocation channel.
NoticeRevocation(c) ==
  /\ At(c, "loop") /\ conn[c].paired /\ conn[c].seen < revision[conn[c].d]
  /\ Close(c)
  /\ UNCHANGED <<manager, registry, history>>

HangUp(c) ==
  /\ At(c, "loop") /\ Close(c)
  /\ UNCHANGED <<manager, registry, history>>

\* A message of a connection that counts as paired is dropped, with the
\* connection, when its device is not.
StillPaired(c) == conn[c].paired => is_device_paired(conn[c].d)

\* Requests other than pairing need a paired connection (the others are
\* answered Unauthorized), and pairing and unpairing the current protocol
\* version (the others are answered VersionMismatch).
Allowed(c, pc) == IF pc \in {"pair", "unpair"} THEN conn[c].v5 ELSE conn[c].paired

\* A message arrives; `pc` is the handler it goes to.
Receive(c, pc) ==
  /\ At(c, "loop")
  /\ IF StillPaired(c) THEN Allowed(c, pc) /\ Goto(c, pc)
     ELSE Close(c)
  /\ UNCHANGED <<manager, registry, history>>

\* SubscribeSessions and AttachSession start a forwarder, in the place of the
\* one there was; it gets a copy of the connection's watcher.
StartForwarder(c) ==
  /\ At(c, "forward")
  /\ Moved(c, [conn[c] EXCEPT !.pc = "loop", !.fwd = conn[c].seen])
  /\ UNCHANGED <<manager, registry, history>>

\* forward_session_list_updates, forward_attached_events: the watcher fires.
StopForwarder(c) ==
  /\ up /\ conn[c] # Closed /\ conn[c].fwd # None
  /\ conn[c].fwd < revision[conn[c].d]
  /\ Moved(c, [conn[c] EXCEPT !.fwd = None])
  /\ UNCHANGED <<manager, registry, history>>

\* update_device_push: the token is set, in the place of the one there was, the
\* record saved, and only then the dispatcher told; it is not told of the old
\* token.  Without a record the device is unauthorized.
update_device_push(c, t) ==
  /\ At(c, "push") /\ Goto(c, "loop")
  /\ LET d == conn[c].d
     IN IF ~is_device_paired(d) THEN UNCHANGED <<registry, leaked>>
        ELSE /\ devices' = [devices EXCEPT ![d].token = t]
             /\ \/ /\ rows' = Stored(d, [token |-> t]) /\ pushed' = pushed \cup {t}
                   /\ leaked' = (leaked \cup TokenOf(d)) \ {t}
                \/ /\ scenario.fails /\ UNCHANGED <<rows, pushed>>
                   /\ leaked' = leaked \cup (TokenOf(d) \ {t})
             /\ UNCHANGED <<revision, taken>>
  /\ UNCHANGED <<manager, approved, wrong, granted, calm, settled, gone>>

\* clear_device_push: only the token the record holds is cleared; the record is
\* saved before the dispatcher is told.
clear_device_push(c, t) ==
  /\ At(c, "clear") /\ Goto(c, "loop")
  /\ LET d == conn[c].d
     IN IF t \notin TokenOf(d) THEN UNCHANGED <<registry, leaked>>
        ELSE /\ devices' = [devices EXCEPT ![d].token = None]
             /\ \/ /\ rows' = Stored(d, Unnotified) /\ pushed' = pushed \ {t}
                   /\ UNCHANGED leaked
                \/ scenario.fails /\ leaked' = leaked \cup {t} /\ UNCHANGED <<rows, pushed>>
             /\ UNCHANGED <<revision, taken>>
  /\ UNCHANGED <<manager, approved, wrong, granted, calm, settled, gone>>

\* unpair_self: nothing to do for a device that is not there.
UnpairSelf(c) ==
  /\ At(c, "unpair")
  /\ IF is_device_paired(conn[c].d)
     THEN /\ revision[conn[c].d] < scenario.removals
          /\ Goto(c, "erase") /\ BeginRemoval(conn[c].d)
     ELSE /\ Moved(c, [conn[c] EXCEPT !.pc = "loop", !.paired = FALSE, !.seen = None])
          /\ UNCHANGED history
  /\ UNCHANGED <<manager, registry>>

-----------------------------------------------------------------------------
(* Pairing over a connection.                                              *)

\* Fault: a code that was right stays active.
ConsumedNever(used) == used

\* A code that was right is used up.
Consumed(used) == None

\* begin_approval with the right code: it is used up; the desktop is asked if
\* the code is in time and its command still listens.
RightCode(c) ==
  /\ At(c, "pair") /\ code # None /\ Len(requests) < MaxRequests
  /\ code' = Consumed(code)
  /\ LET i == Len(requests) + 1
         asked == code.id \notin lapsed /\ code.open
     IN /\ requests' = Append(requests, [d |-> conn[c].d, k |-> code.id])
        /\ approvals' = IF asked THEN approvals \cup {i} ELSE approvals
        /\ prompts' = IF asked THEN prompts \cup {i} ELSE prompts
        /\ Moved(c, [conn[c] EXCEPT !.pc = IF asked THEN "wait" ELSE "loop",
                                    !.req = IF asked THEN i ELSE None])
  /\ UNCHANGED <<codes, lapsed, answers, registry, history>>

\* Fault: one guess too many.
TriesLeftLate(attempts) == attempts <= MaxAttempts

TriesLeft(attempts) == attempts < MaxAttempts

\* begin_approval with a wrong code: the active one is charged.
WrongCode(c) ==
  /\ At(c, "pair") /\ Goto(c, "loop")
  /\ IF code = None THEN UNCHANGED <<code, wrong>>
     ELSE /\ code' = IF code.id \in lapsed \/ ~TriesLeft(code.attempts + 1)
                     THEN None ELSE [code EXCEPT !.attempts = @ + 1]
          /\ wrong' = [wrong EXCEPT ![code.id] = @ + 1]
  /\ UNCHANGED <<codes, lapsed, approvals, requests, prompts, answers, registry,
                 approved, granted, calm, settled, gone, leaked>>

\* A removal of d has come to one of these steps.
RemovalAt(d, pcs) == \E who \in Conns \cup {None} : Pc(who) \in pcs /\ DeviceOf(who) = d

\* The entry of d is about to go.
Removing(d) == RemovalAt(d, {"erase", "forget"})

\* Fault: any answer will do.
AgreedByDefault(i) == TRUE

\* The operator's answer.
Agreed(i) == answers[i]

\* PendingPairingApproval::wait: answered, or out of time.
Wait(c) ==
  /\ At(c, "wait")
  /\ LET i == conn[c].req
         next(pc) == Moved(c, [conn[c] EXCEPT !.pc = pc,
                                 !.req = IF pc = "save" THEN i ELSE None])
     IN \/ /\ answers[i] # None
           /\ next(IF Agreed(i) THEN "save" ELSE "loop") /\ UNCHANGED approvals
        \/ /\ answers[i] = None /\ requests[i].k \in lapsed
           /\ next("loop") /\ approvals' = approvals \ {i}
  /\ UNCHANGED <<code, codes, lapsed, requests, prompts, answers, registry,
                 history>>

\* save_device: the row, and then the map; an error ends the connection.
SaveRow(c) ==
  /\ At(c, "save")
  /\ \/ /\ rows' = Stored(conn[c].d, Unnotified)
        /\ Goto(c, "insert")
        /\ leaked' = leaked \cup TokenOf(conn[c].d)
        /\ calm' = IF Removing(conn[c].d) THEN calm ELSE calm \cup {c}
     \/ scenario.fails /\ Close(c) /\ UNCHANGED <<rows, calm, leaked>>
  /\ gone' = gone \ {conn[c].d}
  /\ UNCHANGED <<manager, devices, revision, pushed, taken, approved, wrong, granted,
                 settled>>

InsertDevice(c) ==
  /\ At(c, "insert")
  /\ LET d == conn[c].d
         k == requests[conn[c].req].k
     IN /\ devices' = [devices EXCEPT ![d] = Unnotified]
        /\ granted' = [granted EXCEPT ![k] = @ \cup {d}]
        /\ settled' = IF c \in calm THEN settled \cup {d} ELSE settled
        /\ leaked' = leaked \cup TokenOf(d)
        /\ gone' = gone \ {d}
  /\ calm' = calm \ {c}
  /\ Moved(c, [conn[c] EXCEPT !.pc = "completed", !.req = None])
  /\ UNCHANGED <<manager, rows, revision, pushed, taken, approved, wrong>>

-----------------------------------------------------------------------------
(* The daemon as a process.                                                *)

\* The devices whose row is gone and whose entry is not.
Going == {d \in Devices : RemovalAt(d, {"forget"})}

\* The tokens of the devices being removed: in their rows, and past those rows.
Owed == UNION {TokenOf(d) : d \in Going}
Carried == {t \in Tokens : \E who \in Conns \cup {None} : taken[who] = t}

Crash ==
  /\ up /\ crashes < scenario.crashes
  /\ up' = FALSE /\ crashes' = crashes + 1
  /\ code' = None /\ approvals' = {} /\ prompts' = {}
  /\ answers' = [i \in RequestIds |-> None]
  /\ devices' = [d \in Devices |-> None]
  /\ remover' = Quiet /\ conn' = [c \in Conns |-> Closed]
  /\ taken' = [who \in Conns \cup {None} |-> None] /\ calm' = {}
  /\ leaked' = leaked \cup Owed \cup Carried
  /\ UNCHANGED <<scenario, codes, lapsed, requests, rows, revision, pushed,
                 approved, wrong, granted, settled, gone>>

\* Persistence::load_devices.
load_devices == rows

Restart ==
  /\ ~up /\ up' = TRUE
  /\ devices' = load_devices
  /\ UNCHANGED <<crashes, scenario, manager, rows, revision, pushed, taken, remover, conn,
                 history>>

Desktop ==
  \/ begin_pairing \/ DesktopLeaves \/ CodeLapses
  \/ \E i \in RequestIds, yes \in BOOLEAN : approve(i, yes)
  \/ \E d \in Devices : RemoveDevice(d)

Phone(c) ==
  \/ \E d \in scenario.phones, v5 \in BOOLEAN : Accept(c, d, v5)
  \/ Hello(c) \/ Watch(c) \/ mark_device_seen(c) \/ Recheck(c)
  \/ NoticeRevocation(c) \/ HangUp(c)
  \/ \E pc \in scenario.asks : Receive(c, pc)
  \/ StartForwarder(c) \/ StopForwarder(c)
  \/ \E t \in scenario.tokens : update_device_push(c, t) \/ clear_device_push(c, t)
  \/ UnpairSelf(c)
  \/ RightCode(c) \/ WrongCode(c) \/ Wait(c) \/ SaveRow(c) \/ InsertDevice(c)

Next ==
  \/ Desktop \/ (\E c \in Conns : Phone(c))
  \/ \E who \in Conns \cup {None} : \/ EraseRow(who) \/ ForgetDevice(who)
                                  \/ RevokeConnections(who) \/ UnregisterToken(who)
  \/ Crash \/ Restart

Spec == Init /\ [][Next]_vars

-----------------------------------------------------------------------------
(* Properties.                                                             *)

\* Types: a connection that watches holds a revision its device has had.
TypeOK ==
  /\ devices \in [Devices -> StoredDevice \cup {None}]
  /\ rows \in [Devices -> StoredDevice \cup {None}]
  /\ approvals \subseteq 1 .. Len(requests) /\ prompts \subseteq 1 .. Len(requests)
  /\ \A c \in Conns : conn[c] # Closed =>
       /\ conn[c].seen \in {None} \cup 0 .. revision[conn[c].d]
       /\ conn[c].fwd \in {None} \cup 0 .. revision[conn[c].d]
       /\ conn[c].paired /\ conn[c].pc \notin {"watch", "completed"} =>
            conn[c].seen # None

\* transport_iroh.rs: whoever is paired, in memory or on disk, was paired from
\* the start or is a device for which the operator agreed to a prompt.
OnlyApproved ==
  \A d \in Devices : devices[d] # None \/ rows[d] # None =>
    d \in scenario.paired \cup {requests[i].d : i \in approved}

\* pairing.rs: a code pairs at most one device, whoever else races for it.
CodePairsOne == \A k \in CodeIds : Cardinality(granted[k]) <= 1

\* pairing.rs: a code is dead once MAX_CODE_ATTEMPTS guesses went wrong while
\* it was active, from whichever connections.
GuessesAreLimited ==
  \A k \in CodeIds : wrong[k] >= MaxAttempts => code = None \/ code.id # k

\* transport_iroh.rs: when a device is removed, each of its forwarders that is
\* still running has been told to stop, or the removal is just about to tell
\* it, wherever the removal fell between the checks of its connection.
ForwardersAreTold ==
  \A c \in Conns : up /\ conn[c] # Closed /\ conn[c].fwd # None =>
    \/ is_device_paired(conn[c].d) \/ conn[c].fwd < revision[conn[c].d]
    \/ RemovalAt(conn[c].d, {"revoke"})

\* ipc.rs: a completed pairing that no removal overlapped is in the map and on
\* disk, restarts included, until a removal begins.
PairingIsKept ==
  \A d \in settled : rows[d] # None /\ (up => devices[d] # None)

\* ipc.rs: a registered push token is that of a paired device, or of a removal
\* that is about to unregister it, unless the daemon lost track of it: when its
\* device sent another, or paired again, by a failed save, or by stopping in
\* the middle of a removal.
TokenGoesWithDevice ==
  up => \A t \in pushed \ leaked :
    \/ \E d \in Devices : t \in TokenOf(d)
    \/ \E who \in Conns \cup {None} : Pc(who) \in {"revoke", "unregister"} /\ taken[who] = t

\* What docs/ARCHITECTURE.md says of a removal: the stored record is gone and
\* the device is unauthorized from then on.  A connection of the device that
\* saves its record between the two halves of the removal brings it back.
RemovedStaysRemoved == \A d \in gone : rows[d] = None

\* pairing.rs, ipc.rs: who is paired was approved, with a code that was good for
\* one device and few guesses, and stays paired.
AccessInv ==
  /\ TypeOK
  /\ OnlyApproved
  /\ CodePairsOne
  /\ GuessesAreLimited
  /\ PairingIsKept
=============================================================================
