----------------------------- MODULE MobileCore -----------------------------
(***************************************************************************)
(* The phone's ShellyClient (mobile-core/src/lib.rs): one remembered        *)
(* daemon, one lazily bound iroh endpoint, and pairing attempts that the    *)
(* app confirms or cancels while their answer is still on the wire.  Every  *)
(* exported method is a future: the app may run several at once and may     *)
(* drop any of them at an await.  Each call dials a connection of its own,  *)
(* so answers cannot be mixed up; what the calls share is `daemon`, the     *)
(* endpoint, the labels of the last handshake and the PendingPairing gate.  *)
(***************************************************************************)
EXTENDS Naturals, FiniteSets

CONSTANTS Daemons,      \* the daemons this phone may meet
          Calls,        \* futures that may run at the same time
          Attempts,     \* PendingPairing objects, at most this many
          MaxCalls,     \* bound on the calls the app makes
          MaxBroken,    \* bound on dropped futures and broken connections
          NoDaemon, NoCall, NoAttempt

ASSUME MobileAssumption ==
    /\ NoDaemon \notin Daemons /\ NoCall \notin Calls /\ NoAttempt \notin Attempts
    /\ MaxCalls \in Nat /\ MaxBroken \in Nat

VARIABLES
    daemon,       \* ShellyClient.daemon
    endpoint,     \* [bound, holder]: the cached endpoint and who holds its lock
    endpoints,    \* how many endpoints were bound under this device key
    labels,       \* last_daemon_version, last_host_name: whose they are
    call,         \* the futures
    attempt,      \* the PendingPairing objects and the desktop's half of each
    paired,       \* the daemons that have this phone in their registry
    latest,       \* history: the daemon of the last confirmation, until unpaired
    crossed,      \* history: a confirmation ended while an unpair was in flight
    mixed,        \* history: handshakes overlapped, or one was left half stored
    made, breaks  \* the bounded counters

mobileVars == <<daemon, endpoint, endpoints, labels, call, attempt, paired, latest,
          crossed, mixed, made, breaks>>

Free == [op |-> "free", pc |-> "done", target |-> NoDaemon, att |-> NoAttempt]

NewGate == [local_confirmed |-> FALSE, daemon_completed |-> FALSE,
            cancelled |-> FALSE, persisted |-> FALSE]

NoPairing == [target |-> NoDaemon, stage |-> "unused", streams |-> FALSE,
              gate |-> NewGate]

\* ShellyClient::new: with the pairing the app has stored, or with none.
MobileInit ==
    /\ daemon \in Daemons \cup {NoDaemon}
    /\ endpoint = [bound |-> FALSE, holder |-> NoCall]
    /\ endpoints = 0
    /\ labels = [version |-> NoDaemon, host |-> NoDaemon]
    /\ call = [c \in Calls |-> Free]
    /\ attempt = [a \in Attempts |-> NoPairing]
    /\ paired = {daemon} \cap Daemons
    /\ latest = daemon
    /\ crossed = FALSE /\ mixed = FALSE
    /\ made = 0 /\ breaks = 0

Running(c) == call[c].pc # "done"
CallGoes(c, pc) == call' = [call EXCEPT ![c].pc = pc]
CallEnds(c) == call' = [call EXCEPT ![c] = Free]

-----------------------------------------------------------------------------
(***************************************************************************)
(* Starting a call.                                                         *)
(***************************************************************************)
Begin(c, record) ==
    /\ ~Running(c) /\ made < MaxCalls
    /\ made' = made + 1
    /\ call' = [call EXCEPT ![c] = record]

\* list_sessions, create_session, kill_session, attach_session_from,
\* register_push_token and unregister_push_token: one request on a stream of
\* its own.  daemon_target() is read once, here, and the call keeps it.
Request(c) ==
    /\ daemon # NoDaemon
    /\ Begin(c, [op |-> "request", pc |-> "endpoint", target |-> daemon, att |-> NoAttempt])
    /\ UNCHANGED <<daemon, endpoint, endpoints, labels, attempt, paired, latest,
                   crossed, mixed, breaks>>

unpair_self(c) ==
    /\ daemon # NoDaemon
    /\ Begin(c, [op |-> "unpair", pc |-> "endpoint", target |-> daemon, att |-> NoAttempt])
    /\ UNCHANGED <<daemon, endpoint, endpoints, labels, attempt, paired, latest,
                   crossed, mixed, breaks>>

\* pair_with_qr decodes the ticket; pair_with_code has the relay resolve it,
\* and fails without a call to the daemon when the relay does not know it.
pair_with_ticket(c, d, a) ==
    /\ attempt[a].stage = "unused"
    /\ Begin(c, [op |-> "pair", pc |-> "endpoint", target |-> d, att |-> a])
    /\ attempt' = [attempt EXCEPT ![a].target = d, ![a].stage = "dialling"]
    /\ UNCHANGED <<daemon, endpoint, endpoints, labels, paired, latest, crossed,
                   mixed, breaks>>

-----------------------------------------------------------------------------
(***************************************************************************)
(* endpoint(): the lock is held over the bind, so that concurrent first     *)
(* calls share one endpoint.                                                *)
(***************************************************************************)

\* Fault: the cache is looked at under the lock, and bound without it.
BindsUnlocked(c) == endpoint
HoldsWhileBinding(c) == [endpoint EXCEPT !.holder = c]

Cached(c) ==
    /\ call[c].pc = "endpoint" /\ endpoint.holder = NoCall /\ endpoint.bound
    /\ CallGoes(c, "connect")
    /\ UNCHANGED <<daemon, endpoint, endpoints, labels, attempt, paired, latest,
                   crossed, mixed, made, breaks>>

BindEndpoint(c) ==
    /\ call[c].pc = "endpoint" /\ endpoint.holder = NoCall /\ ~endpoint.bound
    /\ endpoint' = HoldsWhileBinding(c)
    /\ CallGoes(c, "bind")
    /\ UNCHANGED <<daemon, endpoints, labels, attempt, paired, latest, crossed,
                   mixed, made, breaks>>

EndpointBound(c) ==
    /\ call[c].pc = "bind"
    /\ endpoint' = [bound |-> TRUE, holder |-> NoCall]
    /\ endpoints' = endpoints + 1
    /\ CallGoes(c, "connect")
    /\ UNCHANGED <<daemon, labels, attempt, paired, latest, crossed, mixed, made, breaks>>

-----------------------------------------------------------------------------
(***************************************************************************)
(* The handshake and the request.                                           *)
(***************************************************************************)
\* write_hello, expect_welcome: the daemon welcomes phones it does not know.
\* Only open_authenticated_stream, not a pairing, stores what the welcome says.
Welcome(c) ==
    /\ call[c].pc = "connect"
    /\ \/ call[c].op = "pair" /\ CallGoes(c, "ask") /\ UNCHANGED mixed
       \/ /\ call[c].op # "pair"
          /\ CallGoes(c, "version")
          /\ mixed' = (mixed \/ \E o \in Calls :
                /\ call[o].pc \in {"version", "host"} /\ call[o].target # call[c].target)
    /\ UNCHANGED <<daemon, endpoint, endpoints, labels, attempt, paired, latest,
                   crossed, made, breaks>>

\* open_authenticated_stream stores the two labels under two locks.
LabelVersion(c) ==
    /\ call[c].pc = "version"
    /\ labels' = [labels EXCEPT !.version = call[c].target]
    /\ CallGoes(c, "host")
    /\ UNCHANGED <<daemon, endpoint, endpoints, attempt, paired, latest, crossed,
                   mixed, made, breaks>>

\* Fault: the label is taken from the remembered daemon, not from the welcome.
HostOfRemembered(c) == daemon
HostOf(c) == call[c].target

LabelHost(c) ==
    /\ call[c].pc = "host"
    /\ labels' = [labels EXCEPT !.host = HostOf(c)]
    /\ CallGoes(c, "ask")
    /\ UNCHANGED <<daemon, endpoint, endpoints, attempt, paired, latest, crossed,
                   mixed, made, breaks>>

\* The daemon's side of a request.  UnpairSelf removes the phone's own record;
\* it is answered Pong for an unknown phone too, and an Error, as any request
\* may be, when the daemon fails; other requests of an unknown phone are
\* Unauthorized.
Serve(c) ==
    /\ call[c].pc = "ask" /\ call[c].op # "pair"
    /\ \/ /\ call[c].op = "unpair" \/ call[c].target \in paired
          /\ paired' = IF call[c].op = "unpair" THEN paired \ {call[c].target} ELSE paired
          /\ CallGoes(c, "answer")
       \/ CallGoes(c, "refused") /\ UNCHANGED paired
    /\ UNCHANGED <<daemon, endpoint, endpoints, labels, attempt, latest, crossed,
                   mixed, made, breaks>>

\* Fault: the pairing is forgotten even when the daemon answered an Error.
AfterUnpairAnyway(c) == NoDaemon
\* After Pong, unpair_self forgets whatever daemon is remembered by then.
AfterUnpair(c) == IF call[c].pc = "answer" THEN NoDaemon ELSE daemon

Answer(c) ==
    /\ call[c].pc \in {"answer", "refused"}
    /\ daemon' = IF call[c].op = "unpair" THEN AfterUnpair(c) ELSE daemon
    /\ latest' = IF call[c].op = "unpair" /\ call[c].pc = "answer" /\ latest = call[c].target
                 THEN NoDaemon ELSE latest
    /\ CallEnds(c)
    /\ UNCHANGED <<endpoint, endpoints, labels, attempt, paired, crossed, mixed,
                   made, breaks>>

-----------------------------------------------------------------------------
(***************************************************************************)
(* Pairing.                                                                 *)
(***************************************************************************)
\* expected_pairing_sas agrees with the daemon's, or close_pairing_streams.
Compared(p, sasMatches) ==
    [p EXCEPT !.stage = IF sasMatches THEN "pending" ELSE "closed", !.streams = sasMatches]

\* PairingPending: the phone checks the daemon's SAS against its own
\* transcript and keeps the streams in the PendingPairing, or closes them.
PairingPending(c) ==
    /\ call[c].pc = "ask" /\ call[c].op = "pair"
    /\ \E sasMatches \in BOOLEAN :
          attempt' = [attempt EXCEPT ![call[c].att] = Compared(@, sasMatches)]
    /\ CallEnds(c)
    /\ UNCHANGED <<daemon, endpoint, endpoints, labels, paired, latest, crossed,
                   mixed, made, breaks>>

\* The user at the desktop; PairingComplete is buffered on the open stream.
Approve(a) ==
    /\ attempt[a].stage = "pending"
    /\ attempt' = [attempt EXCEPT ![a].stage = "approved"]
    /\ paired' = paired \cup {attempt[a].target}
    /\ UNCHANGED <<daemon, endpoint, endpoints, labels, call, latest, crossed,
                   mixed, made, breaks>>

Deny(a) ==
    /\ attempt[a].stage = "pending"
    /\ attempt' = [attempt EXCEPT ![a].stage = "denied"]
    /\ UNCHANGED <<daemon, endpoint, endpoints, labels, call, paired, latest,
                   crossed, mixed, made, breaks>>

\* confirm(), first lock: the gate refuses a cancelled or completed attempt;
\* the local confirmation is recorded before the streams are asked for.
confirm(c, a) ==
    /\ attempt[a].stage \notin {"unused", "dialling"}
    /\ ~attempt[a].gate.cancelled /\ ~attempt[a].gate.persisted
    /\ attempt' = [attempt EXCEPT ![a].gate.local_confirmed = TRUE, ![a].streams = FALSE]
    /\ \/ /\ attempt[a].streams
          /\ Begin(c, [op |-> "confirm", pc |-> "read", target |-> attempt[a].target, att |-> a])
       \/ /\ ~attempt[a].streams /\ ~Running(c) /\ made < MaxCalls
          /\ made' = made + 1 /\ UNCHANGED call
    /\ UNCHANGED <<daemon, endpoint, endpoints, labels, paired, latest, crossed,
                   mixed, breaks>>

ConfirmRead(c) ==
    /\ call[c].pc = "read" /\ call[c].op = "confirm"
    /\ \/ attempt[call[c].att].stage = "approved" /\ CallGoes(c, "gate")
       \/ attempt[call[c].att].stage \in {"denied", "closed"} /\ CallEnds(c)
    /\ UNCHANGED <<daemon, endpoint, endpoints, labels, attempt, paired, latest,
                   crossed, mixed, made, breaks>>

\* Fault: an attempt cancelled during the wait is completed all the same.
GateOpensIfConfirmed(g) == g.local_confirmed
\* record_daemon_completed and mark_persisted (ready_to_persist).
GateOpens(g) == g.local_confirmed /\ ~g.cancelled

ConfirmGate(c) ==
    LET a == call[c].att IN
    /\ call[c].pc = "gate"
    /\ \/ /\ GateOpens(attempt[a].gate)
          /\ attempt' = [attempt EXCEPT ![a].gate.daemon_completed = TRUE,
                                        ![a].gate.persisted = TRUE]
          /\ CallGoes(c, "store")
       \/ ~GateOpens(attempt[a].gate) /\ CallEnds(c) /\ UNCHANGED attempt
    /\ UNCHANGED <<daemon, endpoint, endpoints, labels, paired, latest, crossed,
                   mixed, made, breaks>>

ConfirmStore(c) ==
    /\ call[c].pc = "store"
    /\ daemon' = call[c].target /\ latest' = call[c].target
    /\ crossed' = (crossed \/ \E o \in Calls : call[o].op = "unpair")
    /\ CallEnds(c)
    /\ UNCHANGED <<endpoint, endpoints, labels, attempt, paired, mixed, made, breaks>>

\* Fault: cancel() leaves the streams in the attempt.
CancelledOpen(p) == [p EXCEPT !.gate.cancelled = TRUE]

Cancelled(p) == [p EXCEPT !.gate.cancelled = TRUE, !.streams = FALSE]

\* cancel() succeeds until the gate has persisted, even during a confirm().
cancel(a) ==
    /\ attempt[a].stage \notin {"unused", "dialling"}
    /\ made < MaxCalls /\ made' = made + 1
    /\ ~attempt[a].gate.persisted
    /\ attempt' = [attempt EXCEPT ![a] = Cancelled(@)]
    /\ UNCHANGED <<daemon, endpoint, endpoints, labels, call, paired, latest,
                   crossed, mixed, breaks>>

\* The connection fails, or the app drops the future: at any await.  The lock
\* guard is dropped with the future, the streams a confirm() took are gone.
Break(c) ==
    /\ Running(c) /\ breaks < MaxBroken
    /\ breaks' = breaks + 1
    /\ endpoint' = IF endpoint.holder = c THEN [endpoint EXCEPT !.holder = NoCall] ELSE endpoint
    /\ attempt' = IF call[c].op = "pair"
                  THEN [attempt EXCEPT ![call[c].att].stage = "closed"] ELSE attempt
    /\ mixed' = (mixed \/ call[c].pc = "host")
    /\ CallEnds(c)
    /\ UNCHANGED <<daemon, endpoints, labels, paired, latest, crossed, made>>

-----------------------------------------------------------------------------
CallStep(c) ==
    \/ Request(c) \/ unpair_self(c) \/ Cached(c) \/ BindEndpoint(c) \/ EndpointBound(c)
    \/ Welcome(c) \/ LabelVersion(c) \/ LabelHost(c) \/ Serve(c) \/ Answer(c)
    \/ PairingPending(c) \/ ConfirmRead(c) \/ ConfirmGate(c) \/ ConfirmStore(c) \/ Break(c)
    \/ \E a \in Attempts : confirm(c, a) \/ \E d \in Daemons : pair_with_ticket(c, d, a)

MobileNext ==
    \/ \E c \in Calls : CallStep(c)
    \/ \E a \in Attempts : Approve(a) \/ Deny(a) \/ cancel(a)

MobileSpec == MobileInit /\ [][MobileNext]_mobileVars

-----------------------------------------------------------------------------
(***************************************************************************)
(* Properties.                                                              *)
(***************************************************************************)
\* The types, and: a PendingPairing that still owns its streams was neither
\* confirmed nor cancelled, so no daemon is left waiting on a dead attempt.
MobileTypeOK ==
    /\ daemon \in Daemons \cup {NoDaemon} /\ latest \in Daemons \cup {NoDaemon}
    /\ endpoint \in [bound : BOOLEAN, holder : Calls \cup {NoCall}]
    /\ labels \in [version : Daemons \cup {NoDaemon}, host : Daemons \cup {NoDaemon}]
    /\ \A a \in Attempts : attempt[a].streams => attempt[a].gate = NewGate
    /\ paired \subseteq Daemons

\* However first calls overlap and whichever of them fails while binding, the
\* device key is bound to one endpoint only (two would fight over its relay).
OneEndpoint == endpoints <= 1

\* An attempt counts as completed only when the user confirmed its SAS on the
\* phone, the desktop approved it, and no cancel() that was told Ok came
\* before: whatever the order in which the answer and the cancel arrive.
BothConfirmed ==
    \A a \in Attempts : attempt[a].gate.persisted =>
        /\ attempt[a].stage = "approved"
        /\ attempt[a].gate.local_confirmed /\ ~attempt[a].gate.cancelled

\* Unless a confirmation ended while an unpair was in flight (unpair_self
\* then forgets the new daemon), the client remembers the daemon confirmed
\* last, until that daemon has acknowledged its removal.
PairingSurvivesIfUncrossed == crossed \/ daemon = latest

\* Unless handshakes with two daemons overlapped, or one was abandoned between
\* its two stores, the version and the host
\* name that the app shows together come from the same daemon.
LabelsAgreeIfUnmixed ==
    mixed \/ (\E c \in Calls : call[c].pc = "host") \/ labels.version = labels.host

\* Whatever calls of the app overlap or are dropped at an await, the client has
\* one endpoint, counts only pairings both sides confirmed, and remembers and
\* shows one daemon (ShellyClient and PendingPairing).
MobileInv ==
    /\ MobileTypeOK
    /\ OneEndpoint
    /\ BothConfirmed
    /\ PairingSurvivesIfUncrossed
    /\ LabelsAgreeIfUnmixed
=============================================================================
