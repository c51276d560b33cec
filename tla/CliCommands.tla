---------------------------- MODULE CliCommands ----------------------------
(***************************************************************************)
(* The one-shot session commands (cli/src/main.rs): each is a conversation  *)
(* of several requests with the daemon, and other commands get in between.  *)
(*   kill, attach   list the sessions, resolve the reference, act on the id *)
(*   kill-all       lists, then kills the sessions one by one               *)
(*   <name>         lists, creates the session if none has the name, lists  *)
(*                  again to find its id, and attaches                      *)
(*   new            creates; the daemon refuses a name that is taken        *)
(*   hook           sends the agent events of its payload one by one        *)
(* A request is one step here; SessionRegistry has the steps of the daemon   *)
(* within a kill and a creation.                                            *)
(***************************************************************************)
EXTENDS Naturals, FiniteSets, Sequences, SequencesExt

CONSTANTS Cmds,          \* commands under way, each of another shelly process
          Names,         \* session names; also what users type as references
          AutoNames,     \* the names the daemon picks for unnamed sessions
          MaxSessions,   \* bound on the sessions ever created
          PrefixIds,     \* ids that happen to begin with one of the names
          Nothing

Ids == 1..MaxSessions    \* in creation order, the order of every list

\* A session named like an id is left out: such a reference finds only the id.
ASSUME CommandsAssumption ==
    /\ MaxSessions \in Nat /\ IsFiniteSet(Cmds) /\ PrefixIds \subseteq Nat
    /\ Nothing \notin Cmds \cup Names \cup AutoNames \cup {"ok", "error"}
    /\ Nothing \notin {"kill", "attach", "killall", "open", "new", "hook"}
    /\ Names \cap Ids = {}

VARIABLES
    name,       \* the daemon: the name of each session, Nothing once it is gone
    exited,     \* the daemon: sessions whose child has exited, still listed
    created,    \* sessions created so far
    starts,     \* ids are random: which of them begin with a text that is a name
    faults,     \* signals to a child and deletions from the store may fail
    command,    \* the commands
    killer,     \* history: the command whose kill removed the session
    overtaken,  \* history: another command took or freed the name c opens since it listed
    applied     \* history: the lines of c's payload whose agent events were applied

commandsVars == <<name, exited, created, starts, faults, command, killer, overtaken, applied>>

Listed == {i \in Ids : name[i] # Nothing}

\* summaries(): ids and names; the sessions created first come first.
Summaries == [i \in Listed |-> name[i]]

\* A reference is a full id or a text.
Refs == Ids \cup Names

Idle == [kind |-> Nothing, ref |-> Nothing, pc |-> "idle", list |-> <<>>, left |-> {},
         result |-> Nothing]

CommandsInit ==
    /\ name \in [Ids -> Names \cup {Nothing}]
    /\ \E n \in 0..(MaxSessions - 1) :
          /\ created = n
          /\ \A i \in Ids : name[i] # Nothing <=> i <= n
          /\ \A i, j \in 1..n : i # j => name[i] # name[j]
    /\ exited = {}
    /\ \E n \in Names : starts = [m \in Names |-> IF m = n THEN PrefixIds ELSE {}]
    /\ faults \in BOOLEAN
    /\ command = [c \in Cmds |-> Idle]
    /\ killer = [i \in Ids |-> Nothing]
    /\ overtaken = [c \in Cmds |-> FALSE] /\ applied = [c \in Cmds |-> <<>>]

Finishes(c, result) == command' = [command EXCEPT ![c].pc = "done", ![c].result = result]

\* The name changes hands while other commands are about to open it.
Touched(c, n) ==
    overtaken' = [d \in Cmds |->
        \/ overtaken[d]
        \/ /\ d # c /\ command[d].kind = "open" /\ command[d].ref = n
           /\ command[d].pc \in {"create", "again", "attach"}]

\* The next of the sessions or events a command goes through.
First(c) == Min(command[c].left)

\* It is done with; the last one ends the command.
Advances(c) ==
    LET left == command[c].left \ {First(c)}
    IN  command' = [command EXCEPT ![c].left = left,
                      ![c].pc = IF left = {} THEN "done" ELSE @,
                      ![c].result = IF left = {} THEN "ok" ELSE @]

-----------------------------------------------------------------------------
(***************************************************************************)
(* Starting.  normalize_session_name has refused empty names and control    *)
(* characters; an empty name in CreateSession asks for an automatic one.    *)
(***************************************************************************)
Payloads == {<<"working">>, <<"awaiting", "junk", "idle">>, <<"junk">>}

\* codex_states_from_payload: the lines that name a state.
codex_states(payload) == {k \in DOMAIN payload : payload[k] # "junk"}

\* Bound: there is room for every session the commands under way may create.
Room == created + Cardinality({c \in Cmds : command[c].pc \in {"list", "create"}}) < MaxSessions

Start(c) ==
    /\ command[c].pc = "idle"
    /\ \/ \E kind \in {"kill", "attach"}, ref \in Refs :
             command' = [command EXCEPT ![c] = [Idle EXCEPT !.kind = kind, !.ref = ref, !.pc = "list"]]
       \/ command' = [command EXCEPT ![c] = [Idle EXCEPT !.kind = "killall", !.pc = "list"]]
       \/ Room /\ \E n \in Names :
             command' = [command EXCEPT ![c] = [Idle EXCEPT !.kind = "open", !.ref = n, !.pc = "list"]]
       \/ Room /\ \E n \in Names \cup {Nothing} :
             command' = [command EXCEPT ![c] = [Idle EXCEPT !.kind = "new", !.ref = n, !.pc = "create"]]
       \/ \E i \in Ids, payload \in Payloads :
             LET states == codex_states(payload)
                 hook   == [Idle EXCEPT !.kind = "hook", !.ref = i, !.list = payload]
             IN  command' = [command EXCEPT ![c] =
                          IF states = {} THEN [hook EXCEPT !.pc = "done", !.result = "error"]
                          ELSE [hook EXCEPT !.pc = "emit", !.left = states]]
    /\ UNCHANGED <<name, exited, created, starts, faults, killer, overtaken, applied>>

-----------------------------------------------------------------------------
(***************************************************************************)
(* Listing.                                                                 *)
(***************************************************************************)
NameIs(list, n) == {i \in DOMAIN list : list[i] = n}
IdIs(list, i) == DOMAIN list \cap {i}
IdStarts(list, text) == DOMAIN list \cap starts[text]

\* Fault: the beginning of an id is tried before the names.
ResolvePrefixFirst(list, ref) ==
    IF ref \in Ids THEN IdIs(list, ref)
    ELSE IF IdStarts(list, ref) # {} THEN IdStarts(list, ref) ELSE NameIs(list, ref)

\* resolve_session: the candidates, of which the first is taken.
Resolve(list, ref) ==
    IF ref \in Ids THEN IdIs(list, ref)
    ELSE IF NameIs(list, ref) # {} THEN NameIs(list, ref) ELSE IdStarts(list, ref)

\* Fault: `shelly <name>` passes over a session that has exited.
OpenHitsRunning(list, n) == NameIs(list, n) \ exited

\* open_named_session's search.
OpenHits(list, n) == NameIs(list, n)

\* ListSessions, and what the command makes of the answer.
List(c) ==
    /\ command[c].pc = "list"
    /\ LET list == Summaries
           kind == command[c].kind
           hits == IF kind = "open" THEN OpenHits(list, command[c].ref)
                   ELSE IF kind = "killall" THEN DOMAIN list ELSE Resolve(list, command[c].ref)
           left == IF kind = "killall" \/ hits = {} THEN hits ELSE {Min(hits)}
       IN  command' = [command EXCEPT ![c].list = list, ![c].left = left,
                     ![c].pc = IF left = {} THEN IF kind = "open" THEN "create" ELSE "done"
                               ELSE IF kind = "open" THEN "again"
                               ELSE IF kind = "attach" THEN "attach" ELSE "kill",
                     ![c].result = IF left # {} \/ kind = "open" THEN Nothing
                                   ELSE IF kind = "killall" THEN "ok" ELSE "error"]
    /\ UNCHANGED <<name, exited, created, starts, faults, killer, overtaken, applied>>

-----------------------------------------------------------------------------
(***************************************************************************)
(* Acting.                                                                  *)
(***************************************************************************)
\* Fault: only running sessions keep their names.
TakenByRunning == {name[i] : i \in Listed \ exited}

Taken == {name[i] : i \in Listed}

\* auto_session_name: an unnamed session gets a name of the daemon's choice.
AutoName == AutoNames \ Taken

Create(c, n) ==
    /\ name' = [name EXCEPT ![created + 1] = n] /\ created' = created + 1
    /\ Touched(c, n)
    /\ command' = [command EXCEPT ![c].left = {created + 1},
                 ![c].pc = IF command[c].kind = "new" THEN "done" ELSE "again",
                 ![c].result = IF command[c].kind = "new" THEN "ok" ELSE Nothing]

\* CreateSession: refused if the name is taken.
CreateSession(c) ==
    /\ command[c].pc = "create"
    /\ \/ command[c].ref = Nothing /\ \E n \in AutoName : Create(c, n)
       \/ command[c].ref # Nothing /\ command[c].ref \notin Taken /\ Create(c, command[c].ref)
       \/ command[c].ref \in Taken /\ Finishes(c, "error") /\ UNCHANGED <<name, created, overtaken>>
    /\ UNCHANGED <<exited, starts, faults, killer, applied>>

\* Fault: kill-all goes on past a session that it could not kill.
KillFailedSkips(c) == faults /\ Advances(c)

\* The daemon's Error ends the command, whatever is left.
KillFailed(c) == faults /\ Finishes(c, "error")

\* Fault: a missing session is an error.
KilledAlreadyRefused(c) == Finishes(c, "error")

\* Fault: nothing is answered for a missing session.
KilledAlreadyUnanswered(c) == UNCHANGED command

\* A missing session counts as killed.
KilledAlready(c) == Advances(c)

\* kill_session_by_id for the next session, and kill_session_for in the daemon:
\* the session leaves the maps even when its row cannot be deleted, but stays in
\* them when its child cannot be signalled.
Kill(c) ==
    /\ command[c].pc = "kill"
    /\ LET i == First(c) IN
       \/ /\ i \in Listed
          /\ name' = [name EXCEPT ![i] = Nothing] /\ exited' = exited \ {i}
          /\ killer' = [killer EXCEPT ![i] = c] /\ Touched(c, name[i])
          /\ Advances(c) \/ KillFailed(c)
       \/ /\ (i \notin Listed /\ KilledAlready(c)) \/ KillFailed(c)
          /\ UNCHANGED <<name, exited, killer, overtaken>>
    /\ UNCHANGED <<created, starts, faults, applied>>

\* attach_session lists once more, for the session's id.
ListAgain(c) ==
    /\ command[c].pc = "again"
    /\ \/ First(c) \in Listed /\ command' = [command EXCEPT ![c].pc = "attach"]
       \/ First(c) \notin Listed /\ Finishes(c, "error")
    /\ UNCHANGED <<name, exited, created, starts, faults, killer, overtaken, applied>>

\* AttachSession by id; from there on SessionStream's client takes over.
Attach(c) ==
    /\ command[c].pc = "attach"
    /\ Finishes(c, IF First(c) \in Listed THEN "ok" ELSE "error")
    /\ UNCHANGED <<name, exited, created, starts, faults, killer, overtaken, applied>>

\* Fault: a refused event is passed over.
EmitRefusedSkips(c) == Advances(c)

EmitRefused(c) == Finishes(c, "error")

\* emit_agent_state_event: the next one, once the last is acknowledged.
Emit(c) ==
    /\ command[c].pc = "emit"
    /\ \/ /\ command[c].ref \in Listed \ exited
          /\ applied' = [applied EXCEPT ![c] = Append(@, First(c))] /\ Advances(c)
       \/ command[c].ref \notin Listed \ exited /\ EmitRefused(c) /\ UNCHANGED applied
    /\ UNCHANGED <<name, exited, created, starts, faults, killer, overtaken>>

\* The child of a session exits by itself.
Exit(i) ==
    /\ i \in Listed \ exited
    /\ exited' = exited \cup {i}
    /\ UNCHANGED <<name, created, starts, faults, command, killer, overtaken, applied>>

Step(c) == List(c) \/ CreateSession(c) \/ Kill(c) \/ ListAgain(c) \/ Attach(c) \/ Emit(c)

CommandsNext == (\E c \in Cmds : Start(c) \/ Step(c)) \/ \E i \in Ids : Exit(i)

\* The daemon answers and the command goes on.
CommandsFairness == \A c \in Cmds : WF_commandsVars(Step(c))

CommandsSpec == CommandsInit /\ [][CommandsNext]_commandsVars /\ CommandsFairness

-----------------------------------------------------------------------------
(***************************************************************************)
(* Properties.                                                              *)
(***************************************************************************)
Done(c, result) == command[c].pc = "done" /\ command[c].result = result
KilledBy(c) == {i \in Ids : killer[i] = c}
ListedBy(c) == DOMAIN command[c].list

\* The types, and: no two listed sessions have the same name, and a command
\* has an outcome just if it is over.
CommandsTypeOK ==
    /\ created \in 0..MaxSessions /\ exited \subseteq Listed
    /\ \A i, j \in Listed : i # j => name[i] # name[j]
    /\ \A c \in Cmds :
          /\ command[c].pc \in {"idle", "list", "create", "kill", "again", "attach", "emit", "done"}
          /\ command[c].pc = "done" <=> command[c].result # Nothing

\* What a reference means among the sessions listed: a full id just that session,
\* a text the session of that name, or else those whose ids begin with it.
Meant(c) ==
    LET ref      == command[c].ref
        sameName == {i \in ListedBy(c) : command[c].list[i] = ref}
    IN  IF ref \in Ids THEN ListedBy(c) \cap {ref}
        ELSE IF sameName # {} THEN sameName ELSE ListedBy(c) \cap starts[ref]

\* `shelly kill` removes at most one session, one that it saw listed and that its
\* reference meant, however names are freed and taken again before the kill
\* arrives; when it reports success, a session that was meant is gone.
KillIsByReference ==
    \A c \in Cmds : command[c].kind = "kill" =>
        /\ KilledBy(c) \subseteq Meant(c)
        /\ \A i, j \in KilledBy(c) : i = j
        /\ Done(c, "ok") => \E i \in Meant(c) : i \notin Listed

\* kill-all never removes a session created after it listed; when it reports
\* success, every session it listed is gone; when it stops half-way, all before
\* the session it stopped at are gone and it touched none after it.
KillAllIsExact ==
    \A c \in Cmds : command[c].kind = "killall" =>
        /\ KilledBy(c) \subseteq ListedBy(c)
        /\ Done(c, "ok") => ListedBy(c) \cap Listed = {}
        /\ Done(c, "error") => /\ \A i \in ListedBy(c) \cap Listed : First(c) <= i
                               /\ \A i \in KilledBy(c) : i <= First(c)

\* Killing is idempotent (ipc.rs:1179): unless a signal or the store fails, kills
\* that cross do not make each other fail, and `shelly kill` fails only for a
\* reference that meant no session.
KillIsIdempotent ==
    ~faults => \A c \in Cmds : Done(c, "error") =>
        /\ command[c].kind # "killall"
        /\ command[c].kind = "kill" => Meant(c) = {}

\* `shelly <name>` fails only if another command took or freed that name
\* between its first list and its create or attach; otherwise it opens a session.
OpenFailsOnlyIfCrossed ==
    \A c \in Cmds : command[c].kind = "open" /\ Done(c, "error") => overtaken[c]

\* The events of one hook are applied in the order of its payload, none twice,
\* and all of them if it reports success; a failure leaves a prefix applied.
HookInOrder ==
    \A c \in Cmds : command[c].kind = "hook" =>
        LET events == codex_states(command[c].list)
            done   == ToSet(applied[c])
        IN  /\ \A k, l \in DOMAIN applied[c] : k < l => applied[c][k] < applied[c][l]
            /\ done \subseteq events /\ \A i \in done, j \in events \ done : i < j
            /\ Done(c, "ok") <=> done = events /\ done # {}

\* Every command ends, as long as the daemon answers; kill-all too, although
\* sessions come and go while it works through its list.
EveryCommandEnds == <>[](\A c \in Cmds : command[c].pc \in {"idle", "done"})

\* Each command acts on what the user named, although the sessions it listed
\* change before its requests arrive.
CommandsInv ==
    /\ CommandsTypeOK
    /\ KillIsByReference
    /\ KillAllIsExact
    /\ KillIsIdempotent
    /\ OpenFailsOnlyIfCrossed
    /\ HookInOrder
=============================================================================
