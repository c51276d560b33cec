------------------------------- MODULE Relay -------------------------------
(***************************************************************************)
(* The push relay (crates/relay/src/lib.rs): the registered daemons and    *)
(* their keys, the bindings of push tokens, the replay nonces and the      *)
(* pairing rendezvous, kept in memory (RelayInner, one mutex) and in       *)
(* SQLite (RelayStore, one connection).                                    *)
(*                                                                         *)
(* Requests run concurrently.  A request is a sequence of critical         *)
(* sections of the mutex and of awaited database operations, and each of   *)
(* them is one step.  A database operation may fail; a handler may be      *)
(* dropped by the request timeout while it waits, in which case the        *)
(* blocking operation it started still runs and nothing after it does; the *)
(* relay may stop at any point and be started again.                       *)
(*                                                                         *)
(* A request carries a message.  A message with nonce NoNonce stands for   *)
(* requests signed afresh each time, whose nonces are never seen twice; a  *)
(* message with a nonce is one signed request that may arrive many times.  *)
(* A rate limiter is a choice between going on and turning the request     *)
(* down.  Time is counted in ticks.                                        *)
(***************************************************************************)
EXTENDS Naturals, FiniteSets

CONSTANTS
  Slots,        \* requests in progress
  Daemons, Keys, Tokens, Codes, Nonces,
  Scenarios,    \* environments, see Scenario
  MaxClock,     \* bound: ticks of a behaviour
  MaxPubs,      \* bound: publications of pairing codes
  Skew,         \* CLOCK_SKEW_MS
  PruneInterval, \* PRUNE_INTERVAL_MS
  TokenTTL,     \* PUSH_TOKEN_TTL_MS
  Retention,    \* daemon_retention_ms
  Timeout,      \* REQUEST_TIMEOUT, rounded up
  CodeTTL,      \* lifetime of a published code, set by the daemon
  MaxDaemons,   \* MAX_DAEMONS
  MaxTokens,    \* MAX_TOKENS_PER_DAEMON
  None          \* no entry, no key, no nonce, no request

VARIABLES
  clock,     \* now_ms()
  up, crashes,
  scenario,  \* the scenario of the behaviour
  inner,     \* RelayInner, its maps
  prunedAt,  \* RelayInner::pruned_at_ms
  store,     \* the SQLite database
  req,       \* the requests in progress
  pubs,      \* publications so far
  \* history
  accepted,  \* per nonce: acceptances that were still inside the window
  spent,     \* publications answered, and deleted, by a resolve
  acked,     \* per daemon and per token: the registration, or the binding,
             \* last acknowledged by a request no other one disturbed
  former     \* per daemon: keys that were registered and replaced or pruned

vars == <<clock, up, crashes, scenario, inner, prunedAt, store, req, pubs,
          accepted, spent, acked, former>>
world == <<clock, up, crashes, scenario>>
noted == <<pubs, accepted, spent, acked, former>>

-----------------------------------------------------------------------------
(* State.                                                                  *)

Times == 0 .. MaxClock

\* struct DaemonRegistration, struct TokenOwner, struct PairingCodeEntry.
DaemonRegistration == [key : Keys, at : Times]
TokenOwner == [d : Daemons, at : Times]
PairingCodeEntry == [d : Daemons, pub : 1 .. MaxPubs, expires : Nat]

\* History: what was acknowledged, a key or the daemon of a binding, and when.
Acknowledgement == [val : Daemons \cup Keys, at : Times]

\* The bodies of the requests; a message carries one nonce.
Message == [kind : {"pair", "prove", "token", "untoken", "push", "publish",
                    "resolve"},
            d : Daemons, sig : Keys \cup {None}, new : Keys \cup {None},
            item : Tokens \cup Codes \cup {None},
            nonce : Nonces \cup {None}, ts : Times]

\* An environment: the requests that arrive, the daemons registered at the
\* start, whether idle daemons are pruned (prune_stale_daemons), whether
\* database operations may fail, and bounds on ticks and stops.
Scenario == [msgs : SUBSET Message,
             registered : UNION {[S -> Keys] : S \in SUBSET Daemons},
             prune : BOOLEAN, fails : BOOLEAN, ticks : Times, crashes : {0, 1}]

\* What a message names is what its kind is about.
Sensible(m) ==
  /\ m.kind \in {"pair", "prove"} => m.new \in Keys
  /\ m.kind \in {"token", "untoken", "push"} => m.item \in Tokens
  /\ m.kind \in {"publish", "resolve"} => m.item \in Codes

ASSUME RelayAssumption ==
  /\ {Skew, PruneInterval, TokenTTL, Retention, Timeout, CodeTTL, MaxClock,
      MaxPubs, MaxDaemons} \subseteq Nat
  /\ MaxTokens \in Nat \ {0}
  /\ IsFiniteSet(Daemons) /\ Daemons \cap Tokens = {}
  /\ None \notin Nat \cup Keys
  /\ None \notin DaemonRegistration \cup TokenOwner \cup PairingCodeEntry
                  \cup Acknowledgement
  /\ Scenarios \subseteq Scenario
  /\ \A s \in Scenarios :
       /\ Cardinality(DOMAIN s.registered) <= MaxDaemons
       /\ \A m \in s.msgs : Sensible(m)
       /\ \A m, o \in s.msgs : m.nonce # None /\ m.nonce = o.nonce => m = o

\* A daemon is not pruned for being idle while one of its requests could be
\* repeated, or is in progress.
LongRetention == Retention >= 2 * Skew + Timeout /\ Retention >= 2 * Timeout

\* The maps of RelayInner, and the tables of the database.
Tables ==
  [daemons : [Daemons -> DaemonRegistration \cup {None}],
   tokens : [Tokens -> TokenOwner \cup {None}],
   nonces : [Daemons \X Nonces -> Times \cup {None}],
   codes : [Codes -> PairingCodeEntry \cup {None}]]

Idle == [pc |-> "idle"]

Request(m, pc) ==
  [pc |-> pc, m |-> m,
   now |-> clock,      \* the clock sample of verify_signed_request
   key |-> None,       \* the key the signature was checked against
   seen |-> None,      \* the registration, or the code entry, it read
   reg |-> None,       \* the registration, binding or code it enters
   drop |-> {},        \* the tokens or codes it removes
   subject |-> {},     \* history: the daemon or tokens it may change
   alone |-> TRUE,     \* history: nobody else changed them meanwhile
   dropped |-> FALSE]  \* its handler was dropped by the timeout

Fresh(registered) ==
  [daemons |-> [d \in Daemons |-> IF d \in DOMAIN registered
                                  THEN [key |-> registered[d], at |-> 0]
                                  ELSE None],
   tokens |-> [t \in Tokens |-> None],
   nonces |-> [n \in Daemons \X Nonces |-> None],
   codes |-> [c \in Codes |-> None]]

Init ==
  /\ scenario \in Scenarios
  /\ clock = 0 /\ up = TRUE /\ crashes = 0 /\ pubs = 0 /\ prunedAt = 0
  /\ inner = Fresh(scenario.registered) /\ store = inner
  /\ req = [r \in Slots |-> Idle]
  /\ accepted = [n \in Nonces |-> 0] /\ spent = {}
  /\ acked = [x \in Daemons \cup Tokens |-> None]
  /\ former = [d \in Daemons |-> {}]

-----------------------------------------------------------------------------
(* Expiry.                                                                 *)

SaturatingSub(a, b) == IF a < b THEN 0 ELSE a - b

push_token_is_stale(at, now) == SaturatingSub(now, at) > TokenTTL

\* The entries of a map that satisfy P stay.
Retain(f, P(_)) ==
  [x \in DOMAIN f |-> IF f[x] # None /\ P(x) THEN f[x] ELSE None]

\* Fault: a nonce is kept only until its own timestamp, not to the end of the
\* window in which the request is accepted.
UnexpiredEarly(T, now) ==
  [T EXCEPT !.nonces = Retain(@, LAMBDA n : T.nonces[n] >= now),
            !.codes = Retain(@, LAMBDA c : T.codes[c].expires > now)]

\* What memory and database agree on: nonces, codes and tokens that lapsed.
Unexpired(T, now) ==
  [T EXCEPT
    !.nonces = Retain(@, LAMBDA n : T.nonces[n] >= SaturatingSub(now, Skew)),
    !.codes = Retain(@, LAMBDA c : T.codes[c].expires > now),
    !.tokens = Retain(@, LAMBDA t : ~push_token_is_stale(T.tokens[t].at, now))]

\* With the entries of the daemons in `gone`.
Without(T, gone) ==
  [T EXCEPT
    !.daemons = Retain(@, LAMBDA d : d \notin gone),
    !.nonces = Retain(@, LAMBDA n : n[1] \notin gone),
    !.codes = Retain(@, LAMBDA c : T.codes[c].d \notin gone),
    !.tokens = Retain(@, LAMBDA t : T.tokens[t].d \notin gone)]

Lapsed(T, now) ==
  {d \in Daemons : /\ T.daemons[d] # None
                   /\ T.daemons[d].at < SaturatingSub(now, Retention)}

Gone(T, now) == IF scenario.prune THEN Lapsed(T, now) ELSE {}
prune_expired_rows(T, now) == Without(Unexpired(T, now), Gone(T, now))

\* In memory the entries of daemons that are not registered go as well.
GoneFromMemory(T, now) ==
  IF scenario.prune THEN Lapsed(T, now) \cup {d \in Daemons : T.daemons[d] = None}
  ELSE {}
prune_expired_relay_state(T, now) ==
  Without(Unexpired(T, now), GoneFromMemory(T, now))

-----------------------------------------------------------------------------
(* Running a request.                                                      *)

At(r, pcs) == up /\ req[r].pc \in pcs

\* The handler goes on at pc, or ends; a dropped one always ends.
Resume(r, pc, updated) ==
  req' = [req EXCEPT ![r] =
           IF pc = "idle" \/ updated.dropped THEN Idle
           ELSE [updated EXCEPT !.pc = pc]]

Goto(r, pc) == Resume(r, pc, req[r])

\* RateLimitCache::increment went past the limit of the minute.
RateLimited(r) == Goto(r, "idle")

\* A critical section of the mutex leaves the database alone.
Locked(r) == ~req[r].dropped /\ UNCHANGED <<world, prunedAt, store>>

\* An awaited operation T -> op of the database: it may fail.
Run(r, op, ok, failed) ==
  /\ UNCHANGED <<world, inner, prunedAt>>
  /\ \/ store' = op /\ Goto(r, ok)
     \/ scenario.fails /\ UNCHANGED store /\ Goto(r, failed)

\* History: request r, now in state `updated`, is about to change xs.  Whoever
\* else is changing one of them is no longer alone, nor is r.
Claim(r, updated, xs) ==
  LET other(q) == req[q].pc # "idle" /\ req[q].subject \cap xs # {}
  IN req' = [q \in Slots |->
       IF q = r THEN [updated EXCEPT !.subject = @ \cup xs,
          !.alone = @ /\ ~\E o \in Slots \ {r} : other(o)]
       ELSE IF other(q) THEN [req[q] EXCEPT !.alone = FALSE] ELSE req[q]]

\* History: what was acknowledged of xs counts no longer.
Disturb(xs) == acked' = [x \in DOMAIN acked |-> IF x \in xs THEN None ELSE acked[x]]

TokensOf(gone) == {t \in Tokens : acked[t] # None /\ acked[t].val \in gone}

\* History: request r ends and is acknowledged.
Ack(r, x, val, at) ==
  acked' = IF req[r].alone /\ ~req[r].dropped
           THEN [acked EXCEPT ![x] = [val |-> val, at |-> at]]
           ELSE acked

\* History: the registered keys that give way in this step.
KeyOf(reg) == IF reg = None THEN None ELSE reg.key
KeysGive ==
  former' = [d \in Daemons |->
    former[d] \cup ({KeyOf(inner.daemons[d])} \ {None, KeyOf(inner'.daemons[d])})]

-----------------------------------------------------------------------------
(* Authentication: verify_signed_request, verify_registration_proof.       *)

InWindow(now, ts) == now <= ts + Skew /\ ts <= now + Skew
Timely(m) == m.nonce = None \/ InWindow(clock, m.ts)

PruneDue == SaturatingSub(clock, prunedAt) >= PruneInterval

\* maybe_prune_expired_relay_state, its part under the lock.
MaybePrune ==
  IF PruneDue
  THEN prunedAt' = clock /\ inner' = prune_expired_relay_state(inner, clock)
  ELSE UNCHANGED <<prunedAt, inner>>

\* History: the bindings that go with the daemons it prunes.
TokensPruned == IF PruneDue THEN TokensOf(GoneFromMemory(inner, clock)) ELSE {}

\* What follows the prune.
Verify(m) == IF m.kind = "prove" THEN "proof" ELSE "key"

\* The entry a daemon asks to publish.
Published(m) == [d |-> m.d, pub |-> pubs + 1, expires |-> clock + CodeTTL]

\* A signed request, or a registration with a proof, arrives.
Arrive(r, m) ==
  /\ At(r, {"idle"}) /\ m \in scenario.msgs
  /\ m.kind \notin {"pair", "resolve"} /\ Timely(m)
  /\ m.kind = "publish" => pubs < MaxPubs
  /\ pubs' = IF m.kind = "publish" THEN pubs + 1 ELSE pubs
  /\ MaybePrune /\ KeysGive
  /\ LET xs == CASE m.kind = "prove" -> {m.d}
                 [] m.kind \in {"token", "untoken"} -> {m.item}
                 [] OTHER -> {}
     IN /\ Claim(r, [Request(m, IF PruneDue THEN "prune" ELSE Verify(m)) EXCEPT
                      !.drop = IF m.kind = "untoken" THEN {m.item} ELSE {},
                      !.reg = IF m.kind = "publish" THEN Published(m) ELSE None], xs)
        /\ Disturb(xs \cup TokensPruned)
  /\ UNCHANGED <<world, store, accepted, spent>>

\* The rest of the prune; a failure is only logged.
PruneStore(r) ==
  /\ At(r, {"prune"})
  /\ LET next == Verify(req[r].m)
     IN Run(r, prune_expired_rows(store, req[r].now), next, next)
  /\ Disturb(IF store' = store THEN {} ELSE TokensOf(Gone(store, req[r].now)))
  /\ UNCHANGED <<pubs, accepted, spent, former>>

\* The signature is checked against the registered key.
CheckSignature(r) ==
  /\ At(r, {"key"}) /\ Locked(r)
  /\ LET reg == inner.daemons[req[r].m.d]
     IN IF reg # None /\ reg.key = req[r].m.sig
        THEN Resume(r, "admit", [req[r] EXCEPT !.key = reg.key])
        ELSE Goto(r, "idle")
  /\ UNCHANGED <<inner, noted>>

\* The nonce is entered, unless the key changed or the nonce is known.  The
\* rate limit of a token registration is checked before.
EnterNonce(r) ==
  LET m == req[r].m
      n == <<m.d, m.nonce>>
  IN IF m.nonce = None THEN UNCHANGED inner
     ELSE inner' = [inner EXCEPT !.nonces[n] = m.ts]

Replayed(r) == /\ req[r].m.nonce # None
               /\ inner.nonces[<<req[r].m.d, req[r].m.nonce>>] # None

KeyIs(d, key) == inner.daemons[d] # None /\ inner.daemons[d].key = key

Admit(r) ==
  /\ At(r, {"admit"}) /\ Locked(r)
  /\ \/ KeyIs(req[r].m.d, req[r].key) /\ EnterNonce(r)
        /\ Goto(r, IF Replayed(r) THEN "idle" ELSE "record")
     \/ ~KeyIs(req[r].m.d, req[r].key) /\ Goto(r, "idle") /\ UNCHANGED inner
     \/ req[r].m.kind = "token" /\ RateLimited(r) /\ UNCHANGED inner
  /\ UNCHANGED noted

EnterProof(r) ==
  /\ At(r, {"proof"}) /\ Locked(r) /\ EnterNonce(r)
  /\ Goto(r, IF Replayed(r) THEN "idle" ELSE "proofdb")
  /\ UNCHANGED noted

\* INSERT OR IGNORE: the nonce is recorded once.
Known(r) == /\ req[r].m.nonce # None
            /\ store.nonces[<<req[r].m.d, req[r].m.nonce>>] # None
Recorded(r) ==
  IF req[r].m.nonce = None THEN store
  ELSE [store EXCEPT !.nonces[<<req[r].m.d, req[r].m.nonce>>] = req[r].m.ts]

\* RelayStore::insert_nonce.
RecordProof(r) ==
  /\ At(r, {"proofdb"})
  /\ IF Known(r) THEN Run(r, store, "idle", "idle")
                 ELSE Run(r, Recorded(r), "lookup", "idle")
  /\ UNCHANGED noted

\* RelayStore::record_authenticated_activity: nonce and activity together.
RecordActivity(r) ==
  /\ At(r, {"record"})
  /\ LET d == req[r].m.d
         active == IF store.daemons[d] = None THEN Recorded(r)
                   ELSE [Recorded(r) EXCEPT !.daemons[d].at = req[r].now]
     IN IF Known(r) THEN Run(r, store, "idle", "idle")
                    ELSE Run(r, active, "verified", "idle")
  /\ UNCHANGED noted

\* The request is authentic: the activity of the daemon is noted in memory,
\* and the handler of the endpoint goes on.
Handler(kind) == CASE kind = "pair" -> "commit" [] kind = "untoken" -> "remove"
                   [] OTHER -> kind

Touch(r) ==
  /\ At(r, {"verified"}) /\ Locked(r)
  /\ LET m == req[r].m
     IN /\ inner' = IF KeyIs(m.d, req[r].key)
                    THEN [inner EXCEPT !.daemons[m.d].at = req[r].now] ELSE inner
        /\ accepted' = IF m.nonce = None \/ ~InWindow(clock, m.ts) THEN accepted
                       ELSE [accepted EXCEPT ![m.nonce] = @ + 1]
        /\ Goto(r, Handler(m.kind))
  /\ UNCHANGED <<pubs, spent, acked, former>>

-----------------------------------------------------------------------------
(* register_daemon.                                                        *)

\* Fault: one registration too many.
CapacityExceededLate(d) ==
  /\ Cardinality({e \in Daemons : inner.daemons[e] # None}) > MaxDaemons
  /\ inner.daemons[d] = None

daemon_capacity_exceeded(d) ==
  /\ Cardinality({e \in Daemons : inner.daemons[e] # None}) >= MaxDaemons
  /\ inner.daemons[d] = None

\* Fault: the key is not compared again under the lock.
KeyChangeUnchecked(observed, current, requested) == FALSE

registration_key_changed(observed, current, requested) ==
  CASE observed = None /\ current = None -> FALSE
    [] observed = None /\ current # None -> current # requested
    [] observed # None -> current # observed

\* A registration without proof arrives.
RegisterDaemon(r, m) ==
  /\ At(r, {"idle"}) /\ m \in scenario.msgs /\ m.kind = "pair"
  /\ Claim(r, Request(m, "lookup"), {m.d}) /\ Disturb({m.d})
  /\ UNCHANGED <<world, store, inner, prunedAt, pubs, accepted, spent, former>>

\* The registered key is read; replacing it needs its signature.
LookupRegistration(r) ==
  /\ At(r, {"lookup"}) /\ ~req[r].dropped
  /\ LET m == req[r].m
         reg == inner.daemons[m.d]
         q == [req[r] EXCEPT !.seen = reg, !.now = clock]
         turned(pc) == Resume(r, pc, q) /\ UNCHANGED <<inner, prunedAt, acked>>
     IN IF daemon_capacity_exceeded(m.d) THEN turned("idle")
        ELSE IF reg = None \/ reg.key = m.new THEN turned("commit")
        ELSE IF m.kind = "pair" /\ m.sig # None /\ Timely(m)
        THEN /\ Resume(r, IF PruneDue THEN "prune" ELSE "key", q)
             /\ MaybePrune /\ Disturb(TokensPruned)
        ELSE turned("idle")
  /\ KeysGive /\ UNCHANGED <<world, store, pubs, accepted, spent>>

\* The registration is entered, unless the registry changed since the lookup.
CommitRegistration(r) ==
  /\ At(r, {"commit"}) /\ Locked(r)
  /\ LET m == req[r].m
         reg == [key |-> m.new, at |-> clock]
     IN IF \/ daemon_capacity_exceeded(m.d)
           \/ registration_key_changed(KeyOf(req[r].seen),
                KeyOf(inner.daemons[m.d]), m.new)
        THEN Goto(r, "idle") /\ UNCHANGED inner
        ELSE /\ inner' = [inner EXCEPT !.daemons[m.d] = reg]
             /\ Resume(r, "save", [req[r] EXCEPT !.reg = reg])
  /\ KeysGive /\ UNCHANGED <<pubs, accepted, spent, acked>>

\* Fault: the row of a known daemon is left as it is.
UpsertIgnored(r) ==
  IF store.daemons[req[r].m.d] # None THEN store
  ELSE [store EXCEPT !.daemons[req[r].m.d] = req[r].reg]

\* RelayStore::save_daemon.
Upsert(r) == [store EXCEPT !.daemons[req[r].m.d] = req[r].reg]

\* The registration is saved, and acknowledged.
SaveDaemon(r) ==
  /\ At(r, {"save"}) /\ UNCHANGED <<world, inner, prunedAt>>
  /\ \/ /\ store' = Upsert(r)
        /\ Goto(r, "idle")
        /\ Ack(r, req[r].m.d, req[r].reg.key, req[r].reg.at)
     \/ scenario.fails /\ Goto(r, "undo") /\ UNCHANGED <<store, acked>>
  /\ UNCHANGED <<pubs, accepted, spent, former>>

rollback_daemon_registration(r) ==
  /\ At(r, {"undo"}) /\ Locked(r) /\ Goto(r, "idle")
  /\ LET d == req[r].m.d
     IN inner' = IF inner.daemons[d] # req[r].reg THEN inner
                 ELSE [inner EXCEPT !.daemons[d] = req[r].seen]
  /\ KeysGive /\ UNCHANGED <<pubs, accepted, spent, acked>>

-----------------------------------------------------------------------------
(* register_token, unregister_token, push.                                 *)

Owned(T, d) == {t \in Tokens : T.tokens[t] # None /\ T.tokens[t].d = d}

\* The token whose binding makes room for t: the oldest of the daemon's.
token_evicted_by_cap(d, t) ==
  IF inner.tokens[t] # None \/ Cardinality(Owned(inner, d)) < MaxTokens THEN {}
  ELSE {CHOOSE o \in Owned(inner, d) : \A p \in Owned(inner, d) :
          inner.tokens[o].at <= inner.tokens[p].at}

Bound(r) == [req[r] EXCEPT !.reg = [d |-> req[r].m.d, at |-> clock]]

EvictByCap(r) ==
  /\ At(r, {"token"}) /\ Locked(r)
  /\ LET evicted == token_evicted_by_cap(req[r].m.d, req[r].m.item)
     IN IF evicted = {} THEN Resume(r, "bind", Bound(r)) /\ UNCHANGED acked
        ELSE /\ Claim(r, [req[r] EXCEPT !.drop = evicted, !.pc = "evict"], evicted)
             /\ Disturb(evicted)
  /\ UNCHANGED <<inner, pubs, accepted, spent, former>>

\* remove_push_token_binding: the database first, then memory.
RemoveToken(r) ==
  /\ At(r, {"evict", "remove"})
  /\ LET t == CHOOSE x \in req[r].drop : TRUE
     IN Run(r, [store EXCEPT !.tokens[t] = None],
            IF req[r].pc = "evict" THEN "evicted" ELSE "removed", "idle")
  /\ UNCHANGED noted

ForgetToken(r) ==
  /\ At(r, {"evicted", "removed"}) /\ Locked(r)
  /\ inner' = [inner EXCEPT !.tokens = Retain(@, LAMBDA t : t \notin req[r].drop)]
  /\ IF req[r].pc = "evicted" THEN Resume(r, "bind", Bound(r))
     ELSE Goto(r, "idle")
  /\ UNCHANGED noted

\* Fault: the row of a known token is left as it is.
SaveTokenIgnored(r) ==
  /\ At(r, {"bind"})
  /\ Run(r, IF store.tokens[req[r].m.item] # None THEN store
            ELSE [store EXCEPT !.tokens[req[r].m.item] = req[r].reg],
         "bound", "idle")
  /\ UNCHANGED noted

\* RelayStore::save_token, then the map.
SaveToken(r) ==
  /\ At(r, {"bind"})
  /\ Run(r, [store EXCEPT !.tokens[req[r].m.item] = req[r].reg], "bound", "idle")
  /\ UNCHANGED noted

InsertToken(r) ==
  /\ At(r, {"bound"}) /\ Locked(r) /\ Goto(r, "idle")
  /\ inner' = [inner EXCEPT !.tokens[req[r].m.item] = req[r].reg]
  /\ Ack(r, req[r].m.item, req[r].m.d, req[r].reg.at)
  /\ UNCHANGED <<pubs, accepted, spent, former>>

\* push: the binding is looked up; a stale one is removed.  The rate limiter
\* may turn the request down.
LookupToken(r) ==
  /\ At(r, {"push"}) /\ Locked(r)
  /\ LET m == req[r].m
         owner == inner.tokens[m.item]
         gone == [req[r] EXCEPT !.drop = {m.item}, !.pc = "remove"]
     IN IF owner # None /\ push_token_is_stale(owner.at, clock)
        THEN Claim(r, gone, {m.item}) /\ Disturb({m.item})
        ELSE /\ IF owner # None /\ owner.d = m.d
                THEN Goto(r, "deliver") \/ RateLimited(r)
                ELSE Goto(r, "idle")
             /\ UNCHANGED acked
  /\ UNCHANGED <<inner, pubs, accepted, spent, former>>

\* PushProviders::deliver answers: accepted, a token that is no longer valid,
\* or another error.
Deliver(r) ==
  /\ At(r, {"deliver"})
  /\ \/ Resume(r, "touch", Bound(r)) /\ UNCHANGED acked
     \/ /\ ~req[r].dropped
        /\ Claim(r, [req[r] EXCEPT !.drop = {req[r].m.item}, !.pc = "remove"],
                 {req[r].m.item})
        /\ Disturb({req[r].m.item})
     \/ Goto(r, "idle") /\ UNCHANGED acked
  /\ UNCHANGED <<world, inner, prunedAt, store, pubs, accepted, spent, former>>

\* Fault: touching brings a removed binding back.
RefreshedAnyway(T, t, at) == [T EXCEPT !.tokens[t] = [d |-> None, at |-> at]]

\* touch_push_token_binding.
Refreshed(T, t, at) ==
  IF T.tokens[t] = None THEN T ELSE [T EXCEPT !.tokens[t].at = at]

TouchToken(r) ==
  /\ At(r, {"touch"})
  /\ Run(r, Refreshed(store, req[r].m.item, req[r].reg.at), "touched", "idle")
  /\ UNCHANGED noted

TouchBinding(r) ==
  /\ At(r, {"touched"}) /\ Locked(r) /\ Goto(r, "idle")
  /\ inner' = Refreshed(inner, req[r].m.item, req[r].reg.at)
  /\ UNCHANGED noted

-----------------------------------------------------------------------------
(* publish_pairing_code, resolve_pairing_code.                             *)

\* The daemon's other codes are superseded.
EvictCodes(r) ==
  /\ At(r, {"publish"}) /\ Locked(r)
  /\ LET m == req[r].m
         stale == {c \in Codes \ {m.item} :
                    inner.codes[c] # None /\ inner.codes[c].d = m.d}
     IN IF req[r].reg.expires <= clock THEN Goto(r, "idle") /\ UNCHANGED inner
        ELSE /\ inner' = [inner EXCEPT !.codes =
                            Retain(@, LAMBDA c : c \notin stale)]
             /\ Resume(r, IF stale = {} THEN "savecode" ELSE "supersede",
                       [req[r] EXCEPT !.drop = stale])
  /\ UNCHANGED noted

\* Their rows are deleted one by one; a failure is only logged.
DeleteSuperseded(r) ==
  /\ At(r, {"supersede"}) /\ UNCHANGED <<world, inner, prunedAt, noted>>
  /\ \E c \in req[r].drop :
       /\ \/ store' = [store EXCEPT !.codes[c] = None]
          \/ scenario.fails /\ UNCHANGED store
       /\ Resume(r, IF req[r].drop = {c} THEN "savecode" ELSE "supersede",
                 [req[r] EXCEPT !.drop = @ \ {c}])

SaveCode(r) ==
  /\ At(r, {"savecode"})
  /\ Run(r, [store EXCEPT !.codes[req[r].m.item] = req[r].reg], "show", "idle")
  /\ UNCHANGED noted

InsertCode(r) ==
  /\ At(r, {"show"}) /\ Locked(r) /\ Goto(r, "idle")
  /\ inner' = [inner EXCEPT !.codes[req[r].m.item] = req[r].reg]
  /\ UNCHANGED noted

\* resolve_pairing_code: a hit leaves the entry for forget_pairing_code.
Resolve(r, m) ==
  /\ At(r, {"idle"}) /\ m \in scenario.msgs /\ m.kind = "resolve"
  /\ inner.codes[m.item] # None
  /\ IF inner.codes[m.item].expires <= clock
     THEN /\ inner' = [inner EXCEPT !.codes[m.item] = None]
          /\ req' = [req EXCEPT ![r] = Request(m, "delete")]
     ELSE /\ UNCHANGED inner
          /\ req' = [req EXCEPT ![r] =
               [Request(m, "forget") EXCEPT !.seen = inner.codes[m.item]]]
  /\ UNCHANGED <<world, prunedAt, store, noted>>

\* Fault: only the row is deleted.
ForgetCodeLater(r) ==
  At(r, {"forget"}) /\ Locked(r) /\ Goto(r, "delete") /\ UNCHANGED <<inner, noted>>

ForgetCode(r) ==
  /\ At(r, {"forget"}) /\ Locked(r) /\ Goto(r, "delete")
  /\ inner' = [inner EXCEPT !.codes[req[r].m.item] = None]
  /\ UNCHANGED noted

\* The row is deleted, a failure is only logged, and a hit is answered.
DeleteCode(r) ==
  /\ At(r, {"delete"}) /\ Goto(r, "idle")
  /\ LET hit == req[r].seen # None /\ ~req[r].dropped
         pub == req[r].seen.pub
     IN \/ /\ store' = [store EXCEPT !.codes[req[r].m.item] = None]
           /\ spent' = IF hit THEN spent \cup {pub} ELSE spent
        \/ scenario.fails /\ UNCHANGED <<store, spent>>
  /\ UNCHANGED <<world, inner, prunedAt, pubs, accepted, acked, former>>

-----------------------------------------------------------------------------
(* The relay as a process.                                                 *)

Awaiting == {"prune", "proofdb", "record", "save", "evict", "remove", "bind",
             "deliver", "touch", "supersede", "savecode", "delete"}

\* TimeoutLayer: the handler is dropped while it waits.
DropHandler(r) ==
  /\ At(r, Awaiting) /\ ~req[r].dropped
  /\ req' = [req EXCEPT ![r].dropped = TRUE]
  /\ UNCHANGED <<world, inner, prunedAt, store, noted>>

\* No request, and no operation one left behind, outlives Timeout.
Tick ==
  /\ clock < scenario.ticks /\ clock' = clock + 1
  /\ \A r \in Slots : req[r].pc # "idle" => clock < req[r].now + Timeout
  /\ UNCHANGED <<up, crashes, scenario, inner, prunedAt, store, req, noted>>

Crash ==
  /\ up /\ crashes < scenario.crashes
  /\ up' = FALSE /\ crashes' = crashes + 1
  /\ inner' = Fresh(<<>>) /\ prunedAt' = 0
  /\ req' = [r \in Slots |-> Idle] /\ former' = [d \in Daemons |-> {}]
  /\ UNCHANGED <<clock, scenario, store, pubs, accepted, spent, acked>>

\* RelayStore::load_state: rows that lapsed meanwhile are not loaded.
load_state(T) == prune_expired_rows(T, clock)

\* RelayState::open_sqlite_with_policy.
Restart ==
  /\ ~up /\ up' = TRUE
  /\ store' = load_state(store)
  /\ inner' = store' /\ prunedAt' = 0
  /\ Disturb(TokensOf(Gone(store, clock)))
  /\ UNCHANGED <<clock, crashes, scenario, req, pubs, accepted, spent, former>>

Step(r) ==
  \/ \E m \in scenario.msgs :
       Arrive(r, m) \/ RegisterDaemon(r, m) \/ Resolve(r, m)
  \/ PruneStore(r) \/ CheckSignature(r) \/ Admit(r) \/ RecordActivity(r)
  \/ Touch(r) \/ EnterProof(r) \/ RecordProof(r)
  \/ LookupRegistration(r) \/ CommitRegistration(r) \/ SaveDaemon(r)
  \/ rollback_daemon_registration(r)
  \/ EvictByCap(r) \/ RemoveToken(r) \/ ForgetToken(r) \/ SaveToken(r)
  \/ InsertToken(r) \/ LookupToken(r) \/ Deliver(r) \/ TouchToken(r)
  \/ TouchBinding(r)
  \/ EvictCodes(r) \/ DeleteSuperseded(r) \/ SaveCode(r) \/ InsertCode(r)
  \/ ForgetCode(r) \/ DeleteCode(r)
  \/ DropHandler(r)

Next == (\E r \in Slots : Step(r)) \/ Tick \/ Crash \/ Restart

Spec == Init /\ [][Next]_vars

-----------------------------------------------------------------------------
(* Properties.                                                             *)

\* Types: memory and database hold well-formed entries, and a request that is
\* in progress carries a message of the scenario.
TypeOK ==
  /\ inner \in Tables /\ store \in Tables
  /\ clock \in Times /\ prunedAt \in Times
  /\ \A r \in Slots : req[r] = Idle \/ req[r].m \in scenario.msgs
  /\ spent \subseteq 1 .. pubs

\* verify_signed_request: one signed request is accepted at most once while
\* its timestamp is inside the window, however it is repeated, across prunes,
\* dropped handlers, database failures and restarts.  (An acceptance that was
\* checked in time but finished after the window closed is not counted.)
NoReplay == \A n \in Nonces : accepted[n] <= 1

\* The comment of register_daemon: re-keying a known daemon must be authorized
\* by the currently registered key.  It is, as long as every registration can be
\* saved and no key is registered again that had given way (a request compares
\* the key it looked up with the one it replaces, and may have been checked
\* against one that was registered in between).
KeyReplaced(d) ==
  /\ inner.daemons[d] # None /\ inner'.daemons[d] # None
  /\ inner.daemons[d].key # inner'.daemons[d].key
Signed(d, r) == /\ req[r] # Idle /\ req[r].m.d = d
                /\ req[r].m.sig = inner.daemons[d].key
                /\ req[r].m.new = inner'.daemons[d].key
KeyHandoverIfNotReturned ==
  [][\A d \in Daemons :
       ~scenario.fails /\ up /\ up' /\ KeyReplaced(d)
          /\ inner.daemons[d].key \notin former[d] =>
       \E r \in Slots : Signed(d, r)]_vars

\* register_daemon: the registry never grows past MAX_DAEMONS, as long as the
\* relay is not restarted: memory may have dropped what the database kept.
DaemonsCapped ==
  crashes = 0 => Cardinality({d \in Daemons : inner.daemons[d] # None}) <= MaxDaemons

\* register_daemon: a registration that was acknowledged, and that no other
\* registration of the daemon overlapped, is in memory and in the database,
\* restarts included, until the daemon has been idle for its retention.
AckedKeyIsKept ==
  \A d \in Daemons :
    acked[d] # None /\ clock + Timeout <= acked[d].at + Retention =>
      /\ up => KeyOf(inner.daemons[d]) = acked[d].val
      /\ KeyOf(store.daemons[d]) = acked[d].val

\* register_token: likewise for the binding of a push token, until its TTL has
\* passed (less the age of a request that may still touch it), its daemon is
\* pruned, or a request removes or rebinds it.
AckedTokenIsKept ==
  \A t \in Tokens :
    acked[t] # None /\ clock + Timeout <= acked[t].at + TokenTTL =>
      LET kept(T) == T.tokens[t] # None /\ T.tokens[t].d = acked[t].val
      IN (up => kept(inner)) /\ kept(store)

\* resolve_pairing_code: a publication whose resolve was answered, and whose
\* row could be deleted, is neither in memory nor in the database any more,
\* and does not come back with a restart or a late publish.
SpentCodesAreGone ==
  \A c \in Codes : \A T \in {inner, store} :
    T.codes[c] # None => T.codes[c].pub \notin spent

\* Memory and database hold well-formed entries, within the cap on daemons that
\* concurrent registrations compete for (register_daemon).
WithinBounds ==
  /\ TypeOK
  /\ DaemonsCapped

\* register_daemon, register_token: what was acknowledged is kept, in memory and
\* in the database.
AckedIsKept ==
  /\ AckedKeyIsKept
  /\ AckedTokenIsKept
=============================================================================
