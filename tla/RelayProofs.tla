----------------------------- MODULE RelayProofs -----------------------------
(***************************************************************************)
(* Proofs about Relay, for any number of requests, daemons, keys, tokens   *)
(* and codes, and for every environment.                                   *)
(***************************************************************************)
EXTENDS Relay, FiniteSetTheorems, NaturalsInduction, WellFoundedInduction,
        TLAPS

-----------------------------------------------------------------------------
(***************************************************************************)
(* Types.                                                                  *)
(***************************************************************************)
Signing == {"prune", "key", "admit", "record", "verified"}
Registering == {"lookup", "commit", "save", "undo"}
Binding == {"token", "evict", "evicted", "bind", "bound"}
Showing == {"publish", "supersede", "savecode", "show"}
PCs == Signing \cup Registering \cup Binding \cup Showing \cup
       {"proof", "proofdb", "remove", "removed", "push", "deliver", "touch",
        "touched", "forget", "delete"}

Requests ==
  [pc : PCs, m : Message, now : Times, key : Keys \cup {None},
   seen : {None} \cup DaemonRegistration \cup PairingCodeEntry,
   reg : {None} \cup DaemonRegistration \cup TokenOwner \cup PairingCodeEntry,
   drop : SUBSET (Tokens \cup Codes), subject : SUBSET (Daemons \cup Tokens),
   alone : BOOLEAN, dropped : BOOLEAN]

Typed ==
  /\ clock \in Times /\ up \in BOOLEAN /\ crashes \in Nat
  /\ scenario \in Scenarios
  /\ inner \in Tables /\ prunedAt \in Times /\ store \in Tables
  /\ req \in [Slots -> {Idle} \cup Requests]
  /\ pubs \in 0 .. MaxPubs
  /\ accepted \in [Nonces -> Nat] /\ spent \subseteq 1 .. MaxPubs
  /\ acked \in [Daemons \cup Tokens -> {None} \cup Acknowledgement]
  /\ former \in [Daemons -> SUBSET Keys]

Live(r) == req[r].pc # "idle"

-----------------------------------------------------------------------------
(***************************************************************************)
(* The requests.                                                           *)
(***************************************************************************)
\* How old a request in progress is.
Aged(q, c) == q.now <= c /\ c <= q.now + Timeout

\* What the registration, the proof and the signature of a request are.
SoundKeys(q, c) ==
  /\ q.pc \in Registering => q.m.kind \in {"pair", "prove"}
  /\ q.pc \in {"commit", "save", "undo"} => q.seen \in {None} \cup DaemonRegistration
  /\ q.pc \in {"save", "undo"} =>
       /\ q.reg \in DaemonRegistration
       /\ q.reg.key = q.m.new /\ q.now <= q.reg.at /\ q.reg.at <= c
  /\ q.pc \in {"proof", "proofdb"} => q.m.kind = "prove"
  /\ q.pc \in Signing \ {"prune"} => q.m.kind # "prove"
  /\ q.pc \in Signing => q.m.kind # "resolve"
  /\ q.pc \in Signing /\ q.m.kind = "pair" => q.seen \in DaemonRegistration
  /\ q.pc \in Signing /\ q.m.nonce # None => InWindow(q.now, q.m.ts)
  /\ q.m.kind \in {"pair", "prove"} => q.m.d \in q.subject

\* What a request about a token has of it.
SoundTokens(q, c) ==
  /\ q.pc \in Binding => q.m.kind = "token"
  /\ q.pc \in {"push", "deliver", "touch", "touched"} => q.m.kind = "push"
  /\ q.pc \in {"remove", "removed"} => q.m.kind \in {"push", "untoken"}
  /\ q.pc \in {"bind", "bound", "touch", "touched"} =>
       /\ q.reg \in TokenOwner
       /\ q.reg.d = q.m.d /\ q.now <= q.reg.at /\ q.reg.at <= c
  /\ q.pc \in {"evict", "evicted", "remove", "removed"} =>
       \E t \in Tokens : q.drop = {t} /\ t \in q.subject
  /\ q.m.kind = "untoken" => q.drop = {q.m.item}
  /\ q.m.kind \in {"token", "untoken"} => q.m.item \in q.subject

\* What a request about a code has of it.
SoundCodes(q) ==
  /\ q.pc \in Showing => q.m.kind = "publish"
  /\ q.m.kind = "publish" => q.reg \in PairingCodeEntry /\ q.pc \in Signing \cup Showing
  /\ q.pc = "supersede" => q.drop \subseteq Codes \ {q.m.item}
  /\ q.pc \in {"forget", "delete"} =>
       q.m.kind = "resolve" /\ q.seen \in {None} \cup PairingCodeEntry
  /\ q.pc = "forget" => q.seen # None

Sound(q, c) ==
  /\ q.m \in scenario.msgs /\ Aged(q, c)
  /\ SoundKeys(q, c) /\ SoundTokens(q, c) /\ SoundCodes(q)

PhaseInv == \A r \in Slots : Live(r) => up /\ Sound(req[r], clock)

-----------------------------------------------------------------------------
\* Only a stop empties memory of daemons the database keeps.
CapInv == DaemonsCapped /\ (~up => crashes > 0)

-----------------------------------------------------------------------------
Publishing(r) == Live(r) /\ req[r].m.kind = "publish"
Resolving(r) == req[r].pc \in {"forget", "delete"} /\ req[r].seen # None

\* A publication is under one code, whichever tables hold it.
OnePlace(T, U) ==
  \A b, c \in Codes : T.codes[b] # None /\ U.codes[c] # None
                        /\ T.codes[b].pub = U.codes[c].pub => b = c

NotSpent(T) ==
  \A c \in Codes : T.codes[c] # None => T.codes[c].pub \in (1 .. pubs) \ spent

CodeInv ==
  /\ spent \subseteq 1 .. pubs
  /\ NotSpent(inner) /\ NotSpent(store)
  /\ OnePlace(inner, inner) /\ OnePlace(inner, store) /\ OnePlace(store, store)
  /\ \A r \in Slots : Publishing(r) =>
       /\ req[r].reg.pub \in (1 .. pubs) \ spent
       /\ \A c \in Codes : inner.codes[c] # None => inner.codes[c].pub # req[r].reg.pub
       /\ \A c \in Codes : store.codes[c] # None /\ store.codes[c].pub = req[r].reg.pub
                             => req[r].pc = "show" /\ c = req[r].m.item
  /\ \A r, q \in Slots :
       Publishing(r) /\ Publishing(q) /\ r # q => req[r].reg.pub # req[q].reg.pub
  /\ \A r, q \in Slots :
       Publishing(r) /\ Resolving(q) => req[r].reg.pub # req[q].seen.pub
  /\ \A q \in Slots : Resolving(q) =>
       /\ req[q].seen.pub \in 1 .. pubs
       /\ \A c \in Codes : inner.codes[c] # None /\ inner.codes[c].pub = req[q].seen.pub
                             => c = req[q].m.item /\ req[q].pc = "forget"
       /\ \A c \in Codes : store.codes[c] # None /\ store.codes[c].pub = req[q].seen.pub
                             => c = req[q].m.item

-----------------------------------------------------------------------------
\* The key a request looked up is the registered one, or has given way; and it
\* is the requested one, or has signed the request, or has given way.
Holding(q) == /\ q.pc = "commit" \/ (q.pc \in Signing /\ q.m.kind = "pair")
              /\ q.seen # None
Checked(q) == /\ \/ q.pc = "commit"
                 \/ q.pc \in {"admit", "record", "verified"} /\ q.m.kind = "pair"
              /\ q.seen # None

KeyInv ==
  ~scenario.fails => \A r \in Slots :
    LET q == req[r]
    IN /\ q.pc # "undo"
       /\ Holding(q) => \/ KeyOf(inner.daemons[q.m.d]) = q.seen.key
                        \/ q.seen.key \in former[q.m.d]
       /\ Checked(q) => \/ q.seen.key \in {q.m.new, q.m.sig}
                        \/ q.seen.key \in former[q.m.d]

-----------------------------------------------------------------------------
\* A signed request that can be repeated (a registration with a proof is not
\* counted, see NoReplay).
Repeatable(m) == m \in scenario.msgs /\ m.nonce # None /\ m.kind # "prove"

Row(m) == store.nonces[<<m.d, m.nonce>>]
Verified(r, m) == req[r].pc = "verified" /\ req[r].m = m
Open(m) == clock <= m.ts + Skew

\* The row of a request outlives its window: it is not pruned for its age, nor
\* with its daemon.
RowStays(m) ==
  Row(m) # None =>
    /\ Row(m) = m.ts /\ m.ts <= clock + Skew
    /\ store.daemons[m.d] # None => m.ts + Skew <= store.daemons[m.d].at + Retention
    /\ \A r \in Slots : Live(r) => m.ts + Skew <= req[r].now + Retention

\* Inside the window a request is on its way to one acceptance, or accepted once.
OneAcceptance(m) ==
  Open(m) =>
    /\ Row(m) = None => accepted[m.nonce] = 0 /\ \A r \in Slots : ~Verified(r, m)
    /\ \A r \in Slots : Verified(r, m) => accepted[m.nonce] = 0
    /\ \A r, q \in Slots : Verified(r, m) /\ Verified(q, m) => r = q

NonceInv ==
  /\ NoReplay
  /\ \A m \in scenario.msgs : Repeatable(m) => RowStays(m) /\ OneAcceptance(m)

-----------------------------------------------------------------------------
ClaimInv ==
  /\ \A r, q \in Slots : r # q /\ Live(r) /\ Live(q) /\ req[r].alone =>
       req[r].subject \cap req[q].subject = {}
  /\ \A x \in Daemons \cup Tokens : acked[x] # None =>
       /\ acked[x].at <= clock
       /\ \A r \in Slots : Live(r) => x \notin req[r].subject
                                      /\ acked[x].at <= req[r].now + Timeout

Has(T, d, k, at) == /\ T.daemons[d] # None /\ T.daemons[d].key = k
                    /\ at <= T.daemons[d].at + Timeout
AckKeyInv ==
  /\ \A d \in Daemons :
       acked[d] # None /\ clock + Timeout <= acked[d].at + Retention =>
         /\ up => Has(inner, d, acked[d].val, acked[d].at)
         /\ Has(store, d, acked[d].val, acked[d].at)
  /\ \A r \in Slots :
       (req[r].pc = "save" /\ req[r].alone
          /\ clock + Timeout <= req[r].reg.at + Retention)
       => Has(inner, req[r].m.d, req[r].reg.key, req[r].reg.at)

Binds(T, t, d, at) == /\ T.tokens[t] # None /\ T.tokens[t].d = d
                      /\ at <= T.tokens[t].at + Timeout

\* A request about a token that goes on after its activity was recorded.
Working == {"verified"} \cup Binding

AckTokenInv ==
  /\ \A t \in Tokens :
       acked[t] # None /\ clock + Timeout <= acked[t].at + TokenTTL =>
         /\ up => Binds(inner, t, acked[t].val, acked[t].at)
         /\ Binds(store, t, acked[t].val, acked[t].at)
  /\ \A r \in Slots :
       (req[r].pc = "bound" /\ req[r].alone
          /\ clock + Timeout <= req[r].reg.at + TokenTTL)
       => Binds(store, req[r].m.item, req[r].m.d, req[r].reg.at)
  /\ \A r \in Slots :
       (req[r].pc \in Working /\ req[r].m.kind = "token"
          /\ store.daemons[req[r].m.d] # None)
       => req[r].now <= store.daemons[req[r].m.d].at + Timeout
-----------------------------------------------------------------------------
(***************************************************************************)
(* Tables.  What their operations leave of each part.                      *)
(***************************************************************************)

LEMMA TableFields ==
  ASSUME NEW T \in Tables
  PROVE  /\ T.daemons \in [Daemons -> DaemonRegistration \cup {None}]
         /\ T.tokens \in [Tokens -> TokenOwner \cup {None}]
         /\ T.nonces \in [Daemons \X Nonces -> Times \cup {None}]
         /\ T.codes \in [Codes -> PairingCodeEntry \cup {None}]
  BY DEF Tables

\* U is T but for one entry.
SetsDaemon(T, U, d, x) ==
  /\ U \in Tables /\ U.tokens = T.tokens /\ U.nonces = T.nonces /\ U.codes = T.codes
  /\ U.daemons[d] = x /\ \A e \in Daemons \ {d} : U.daemons[e] = T.daemons[e]
SetsToken(T, U, t, x) ==
  /\ U \in Tables /\ U.daemons = T.daemons /\ U.nonces = T.nonces /\ U.codes = T.codes
  /\ U.tokens[t] = x /\ \A e \in Tokens \ {t} : U.tokens[e] = T.tokens[e]
SetsNonce(T, U, n, x) ==
  /\ U \in Tables /\ U.daemons = T.daemons /\ U.tokens = T.tokens /\ U.codes = T.codes
  /\ U.nonces[n] = x /\ \A e \in (Daemons \X Nonces) \ {n} : U.nonces[e] = T.nonces[e]
SetsCode(T, U, c, x) ==
  /\ U \in Tables /\ U.daemons = T.daemons /\ U.tokens = T.tokens /\ U.nonces = T.nonces
  /\ U.codes[c] = x /\ \A e \in Codes \ {c} : U.codes[e] = T.codes[e]

LEMMA SetDaemon ==
  ASSUME NEW T \in Tables, NEW d \in Daemons, NEW x \in DaemonRegistration \cup {None}
  PROVE  SetsDaemon(T, [T EXCEPT !.daemons[d] = x], d, x)
  BY TableFields DEF SetsDaemon, Tables

LEMMA SetToken ==
  ASSUME NEW T \in Tables, NEW t \in Tokens, NEW x \in TokenOwner \cup {None}
  PROVE  SetsToken(T, [T EXCEPT !.tokens[t] = x], t, x)
  BY TableFields DEF SetsToken, Tables

LEMMA SetNonce ==
  ASSUME NEW T \in Tables, NEW n \in Daemons \X Nonces, NEW x \in Times
  PROVE  SetsNonce(T, [T EXCEPT !.nonces[n] = x], n, x)
  BY TableFields DEF SetsNonce, Tables

LEMMA SetCode ==
  ASSUME NEW T \in Tables, NEW c \in Codes, NEW x \in PairingCodeEntry \cup {None}
  PROVE  SetsCode(T, [T EXCEPT !.codes[c] = x], c, x)
  BY TableFields DEF SetsCode, Tables

\* The same registration, or binding, with another date.
LEMMA Dated ==
  ASSUME NEW T \in Tables, NEW at \in Times
  PROVE  /\ \A d \in Daemons : T.daemons[d] # None =>
              LET x == [T.daemons[d] EXCEPT !.at = at]
              IN /\ x \in DaemonRegistration /\ x.key = T.daemons[d].key /\ x.at = at
                 /\ SetsDaemon(T, [T EXCEPT !.daemons[d].at = at], d, x)
         /\ \A t \in Tokens : T.tokens[t] # None =>
              LET x == [T.tokens[t] EXCEPT !.at = at]
              IN /\ x \in TokenOwner /\ x.d = T.tokens[t].d /\ x.at = at
                 /\ SetsToken(T, [T EXCEPT !.tokens[t].at = at], t, x)
  <1>1. ASSUME NEW d \in Daemons, T.daemons[d] # None
        PROVE  LET x == [T.daemons[d] EXCEPT !.at = at]
               IN /\ x \in DaemonRegistration /\ x.key = T.daemons[d].key /\ x.at = at
                  /\ SetsDaemon(T, [T EXCEPT !.daemons[d].at = at], d, x)
    <2> DEFINE k == T.daemons[d]
               x == [k EXCEPT !.at = at]
    <2>1. k \in DaemonRegistration
      BY <1>1, TableFields
    <2>2. x \in DaemonRegistration /\ x.key = k.key /\ x.at = at
      BY <2>1 DEF DaemonRegistration
    <2>3. [T EXCEPT !.daemons[d].at = at] = [T EXCEPT !.daemons[d] = x]
      BY DEF Tables
    <2> HIDE DEF x
    <2>4. SetsDaemon(T, [T EXCEPT !.daemons[d] = x], d, x)
      BY <2>2, SetDaemon
    <2> QED
      BY <2>2, <2>3, <2>4 DEF x
  <1>2. ASSUME NEW t \in Tokens, T.tokens[t] # None
        PROVE  LET x == [T.tokens[t] EXCEPT !.at = at]
               IN /\ x \in TokenOwner /\ x.d = T.tokens[t].d /\ x.at = at
                  /\ SetsToken(T, [T EXCEPT !.tokens[t].at = at], t, x)
    <2> DEFINE k == T.tokens[t]
               x == [k EXCEPT !.at = at]
    <2>1. k \in TokenOwner
      BY <1>2, TableFields
    <2>2. x \in TokenOwner /\ x.d = k.d /\ x.at = at
      BY <2>1 DEF TokenOwner
    <2>3. [T EXCEPT !.tokens[t].at = at] = [T EXCEPT !.tokens[t] = x]
      BY DEF Tables
    <2> HIDE DEF x
    <2>4. SetsToken(T, [T EXCEPT !.tokens[t] = x], t, x)
      BY <2>2, SetToken
    <2> QED
      BY <2>2, <2>3, <2>4 DEF x
  <1> QED
    BY <1>1, <1>2

\* What a prune at `now`, of the daemons in `gone`, leaves.
Pruned(T, U, now, gone) ==
  /\ U \in Tables
  /\ \A d \in Daemons : U.daemons[d] = IF d \in gone THEN None ELSE T.daemons[d]
  /\ \A d \in Daemons, k \in Nonces : U.nonces[<<d, k>>] =
       IF T.nonces[<<d, k>>] # None /\ T.nonces[<<d, k>>] + Skew >= now /\ d \notin gone
       THEN T.nonces[<<d, k>>] ELSE None
  /\ \A c \in Codes : U.codes[c] =
       IF T.codes[c] # None /\ T.codes[c].expires > now /\ T.codes[c].d \notin gone
       THEN T.codes[c] ELSE None
  /\ \A t \in Tokens : U.tokens[t] =
       IF T.tokens[t] # None /\ now <= T.tokens[t].at + TokenTTL
            /\ T.tokens[t].d \notin gone
       THEN T.tokens[t] ELSE None

LEMMA UnexpiredIs ==
  ASSUME NEW T \in Tables, NEW now \in Times
  PROVE  Pruned(T, Unexpired(T, now), now, {})
  <1> DEFINE U == Unexpired(T, now)
  <1>1. /\ U \in Tables
        /\ U.daemons = T.daemons
        /\ \A n \in Daemons \X Nonces : U.nonces[n] =
             IF T.nonces[n] # None /\ T.nonces[n] >= SaturatingSub(now, Skew)
             THEN T.nonces[n] ELSE None
        /\ \A c \in Codes : U.codes[c] =
             IF T.codes[c] # None /\ T.codes[c].expires > now THEN T.codes[c] ELSE None
        /\ \A t \in Tokens : U.tokens[t] =
             IF T.tokens[t] # None /\ ~push_token_is_stale(T.tokens[t].at, now)
             THEN T.tokens[t] ELSE None
    BY TableFields DEF Unexpired, Retain, Tables
  <1> HIDE DEF U
  <1>2. \A a \in Times : /\ a >= SaturatingSub(now, Skew) <=> a + Skew >= now
                         /\ push_token_is_stale(a, now) <=> ~(now <= a + TokenTTL)
    BY RelayAssumption DEF SaturatingSub, push_token_is_stale, Times
  <1>3. \A d \in Daemons, k \in Nonces : U.nonces[<<d, k>>] =
          IF T.nonces[<<d, k>>] # None /\ T.nonces[<<d, k>>] + Skew >= now
          THEN T.nonces[<<d, k>>] ELSE None
    <2> TAKE d \in Daemons, k \in Nonces
    <2>1. /\ <<d, k>> \in Daemons \X Nonces
          /\ T.nonces[<<d, k>>] # None => T.nonces[<<d, k>>] \in Times
      BY TableFields
    <2> QED
      BY <1>1, <1>2, <2>1
  <1>4. \A t \in Tokens : U.tokens[t] =
          IF T.tokens[t] # None /\ now <= T.tokens[t].at + TokenTTL
          THEN T.tokens[t] ELSE None
    <2> TAKE t \in Tokens
    <2>1. T.tokens[t] # None => T.tokens[t].at \in Times
      BY TableFields DEF TokenOwner
    <2> QED
      BY <1>1, <1>2, <2>1
  <1> QED
    BY <1>1, <1>3, <1>4 DEF Pruned, U

LEMMA WithoutIs ==
  ASSUME NEW T \in Tables, NEW U \in Tables, NEW now \in Times, NEW gone,
         Pruned(T, U, now, {})
  PROVE  Pruned(T, Without(U, gone), now, gone)
  <1> DEFINE W == Without(U, gone)
  <1>1. /\ W \in Tables
        /\ \A d \in Daemons : W.daemons[d] =
             IF U.daemons[d] # None /\ d \notin gone THEN U.daemons[d] ELSE None
        /\ \A n \in Daemons \X Nonces : W.nonces[n] =
             IF U.nonces[n] # None /\ n[1] \notin gone THEN U.nonces[n] ELSE None
        /\ \A c \in Codes : W.codes[c] =
             IF U.codes[c] # None /\ U.codes[c].d \notin gone THEN U.codes[c] ELSE None
        /\ \A t \in Tokens : W.tokens[t] =
             IF U.tokens[t] # None /\ U.tokens[t].d \notin gone THEN U.tokens[t] ELSE None
    BY TableFields DEF Without, Retain, Tables
  <1> HIDE DEF W
  <1>2. \A d \in Daemons, k \in Nonces : W.nonces[<<d, k>>] =
          IF U.nonces[<<d, k>>] # None /\ d \notin gone THEN U.nonces[<<d, k>>] ELSE None
    BY <1>1
  <1> QED
    BY <1>1, <1>2 DEF Pruned, W

LEMMA PruneIs ==
  ASSUME NEW T \in Tables, NEW now \in Times
  PROVE  /\ Pruned(T, prune_expired_rows(T, now), now, Gone(T, now))
         /\ Pruned(T, prune_expired_relay_state(T, now), now, GoneFromMemory(T, now))
  <1>1. Unexpired(T, now) \in Tables
    BY UnexpiredIs DEF Pruned
  <1> QED
    BY <1>1, UnexpiredIs, WithoutIs DEF prune_expired_rows, prune_expired_relay_state

-----------------------------------------------------------------------------
(***************************************************************************)
(* Requests.  What a step does to them, field by field.                    *)
(***************************************************************************)

LEMMA LiveRequest ==
  ASSUME Typed, NEW r \in Slots, Live(r)
  PROVE  req[r] \in Requests /\ req[r] # Idle
  BY DEF Typed, Live, Idle

LEMMA RequestFields ==
  ASSUME NEW k \in Requests
  PROVE  /\ k.pc \in PCs /\ k.pc # "idle" /\ k # Idle
         /\ k.m \in Message /\ k.now \in Times /\ k.key \in Keys \cup {None}
         /\ k.seen \in {None} \cup DaemonRegistration \cup PairingCodeEntry
         /\ k.reg \in {None} \cup DaemonRegistration \cup TokenOwner \cup PairingCodeEntry
         /\ k.drop \subseteq Tokens \cup Codes /\ k.subject \subseteq Daemons \cup Tokens
         /\ k.alone \in BOOLEAN /\ k.dropped \in BOOLEAN
  <1>1. k.pc # "idle"
    BY DEF Requests, PCs, Signing, Registering, Binding, Showing
  <1>2. k # Idle
    BY <1>1 DEF Idle
  <1> QED
    BY <1>1, <1>2 DEF Requests

LEMMA MessageFields ==
  ASSUME NEW m \in Message
  PROVE  /\ m.kind \in {"pair", "prove", "token", "untoken", "push", "publish", "resolve"}
         /\ m.d \in Daemons /\ m.sig \in Keys \cup {None} /\ m.new \in Keys \cup {None}
         /\ m.nonce \in Nonces \cup {None} /\ m.ts \in Times
         /\ m.nonce # None => <<m.d, m.nonce>> \in Daemons \X Nonces
  BY DEF Message

\* Another request stays as it is; at most it is no longer alone.
Same(q) ==
  /\ req'[q].pc = req[q].pc
  /\ Live(q) => /\ req'[q].m = req[q].m /\ req'[q].now = req[q].now
                /\ req'[q].key = req[q].key /\ req'[q].seen = req[q].seen
                /\ req'[q].reg = req[q].reg /\ req'[q].drop = req[q].drop
                /\ req'[q].subject = req[q].subject
                /\ req'[q].alone => req[q].alone

ReqTyped == req \in [Slots -> {Idle} \cup Requests]

Rests(r) == ReqTyped' /\ \A q \in Slots \ {r} : req'[q] = req[q]

\* Request r ends.
Ends(r) == Rests(r) /\ req'[r] = Idle

\* Request r goes on at pc, with these values of the fields that change.
Goes(r, pc, now, key, seen, reg, drop) ==
  /\ Rests(r)
  /\ ~req[r].dropped /\ ~req'[r].dropped
  /\ req'[r] \in Requests /\ req'[r].pc = pc /\ req'[r].m = req[r].m
  /\ req'[r].now = now /\ req'[r].key = key /\ req'[r].seen = seen
  /\ req'[r].reg = reg /\ req'[r].drop = drop
  /\ req'[r].subject = req[r].subject /\ req'[r].alone = req[r].alone

Continues(r, pc) ==
  Goes(r, pc, req[r].now, req[r].key, req[r].seen, req[r].reg, req[r].drop)

LEMMA RestsSame ==
  ASSUME NEW r \in Slots, Rests(r)
  PROVE  \A q \in Slots \ {r} : Same(q)
  BY DEF Rests, Same

LEMMA ResumeEnds ==
  ASSUME Typed, NEW r \in Slots, NEW u, Resume(r, "idle", u)
  PROVE  Ends(r)
  BY DEF Typed, Resume, Ends, Rests, ReqTyped

LEMMA ResumeGoes ==
  ASSUME Typed, NEW r \in Slots, NEW u \in Requests, NEW pc \in PCs, Resume(r, pc, u),
         u.m = req[r].m, u.dropped = req[r].dropped,
         u.subject = req[r].subject, u.alone = req[r].alone
  PROVE  \/ Ends(r) /\ req[r].dropped
         \/ Goes(r, pc, u.now, u.key, u.seen, u.reg, u.drop)
  <1>1. pc # "idle"
    BY DEF PCs, Signing, Registering, Binding, Showing
  <1>2. u.dropped \in BOOLEAN
    BY RequestFields
  <1>3. CASE u.dropped
    BY <1>1, <1>3 DEF Typed, Resume, Ends, Rests, ReqTyped
  <1>4. CASE ~u.dropped
    <2> DEFINE k == [u EXCEPT !.pc = pc]
    <2>1. /\ k \in Requests /\ k.pc = pc /\ k.m = u.m /\ k.now = u.now
          /\ k.key = u.key /\ k.seen = u.seen /\ k.reg = u.reg /\ k.drop = u.drop
          /\ k.subject = u.subject /\ k.alone = u.alone /\ k.dropped = u.dropped
      BY DEF Requests
    <2>2. req' = [req EXCEPT ![r] = k]
      BY <1>1, <1>4 DEF Resume
    <2> HIDE DEF k
    <2>3. req'[r] = k /\ Rests(r)
      BY <2>1, <2>2 DEF Typed, Rests, ReqTyped
    <2> QED
      BY <1>4, <2>1, <2>3 DEF Goes
  <1> QED
    BY <1>2, <1>3, <1>4

LEMMA GotoEnds ==
  ASSUME Typed, NEW r \in Slots, Goto(r, "idle")
  PROVE  Ends(r)
  BY ResumeEnds DEF Goto

LEMMA GotoGoes ==
  ASSUME Typed, NEW r \in Slots, Live(r), NEW pc \in PCs, Goto(r, pc)
  PROVE  (Ends(r) /\ req[r].dropped) \/ Continues(r, pc)
  BY LiveRequest, ResumeGoes DEF Goto, Continues

\* A request that enters, or claims more.
Claims(r, xs) ==
  /\ ReqTyped'
  /\ \A q \in Slots \ {r} : Same(q)
  /\ \A q \in Slots \ {r} : Live(q) /\ req[q].subject \cap xs # {} => ~req'[q].alone

LEMMA ClaimClaims ==
  ASSUME Typed, NEW r \in Slots, NEW u \in Requests, NEW xs \in SUBSET (Daemons \cup Tokens),
         Claim(r, u, xs)
  PROVE  /\ Claims(r, xs)
         /\ req'[r] \in Requests /\ req'[r].pc = u.pc /\ req'[r].m = u.m
         /\ req'[r].now = u.now /\ req'[r].key = u.key /\ req'[r].seen = u.seen
         /\ req'[r].reg = u.reg /\ req'[r].drop = u.drop /\ req'[r].dropped = u.dropped
         /\ req'[r].subject = u.subject \cup xs
         /\ req'[r].alone => /\ u.alone
                             /\ \A q \in Slots \ {r} : Live(q) => req[q].subject \cap xs = {}
  <1> DEFINE other(q) == req[q].pc # "idle" /\ req[q].subject \cap xs # {}
             al == u.alone /\ ~\E o \in Slots \ {r} : other(o)
             k == [u EXCEPT !.subject = u.subject \cup xs, !.alone = al]
             w(q) == [req[q] EXCEPT !.alone = FALSE]
  <1>1. /\ k \in Requests /\ k.pc = u.pc /\ k.m = u.m /\ k.now = u.now
        /\ k.key = u.key /\ k.seen = u.seen /\ k.reg = u.reg /\ k.drop = u.drop
        /\ k.subject = u.subject \cup xs /\ k.alone = al /\ k.dropped = u.dropped
    <2>1. al \in BOOLEAN /\ u.subject \cup xs \in SUBSET (Daemons \cup Tokens)
      BY RequestFields
    <2> HIDE DEF al
    <2> QED
      BY <2>1 DEF Requests
  <1>2. \A q \in Slots \ {r} : Live(q) =>
          /\ w(q) \in Requests /\ w(q).pc = req[q].pc /\ w(q).m = req[q].m
          /\ w(q).now = req[q].now /\ w(q).key = req[q].key /\ w(q).seen = req[q].seen
          /\ w(q).reg = req[q].reg /\ w(q).drop = req[q].drop
          /\ w(q).subject = req[q].subject /\ w(q).dropped = req[q].dropped
          /\ w(q).alone = FALSE
    <2> TAKE q \in Slots \ {r}
    <2> HAVE Live(q)
    <2>1. req[q] \in Requests
      BY LiveRequest
    <2> QED
      BY <2>1 DEF Requests
  <1>3. req' = [q \in Slots |-> IF q = r THEN k ELSE IF other(q) THEN w(q) ELSE req[q]]
    BY DEF Claim
  <1> HIDE DEF k, w, al
  <1>4. req'[r] = k /\ \A q \in Slots \ {r} : req'[q] = IF other(q) THEN w(q) ELSE req[q]
    BY <1>3
  <1>5. \A q \in Slots \ {r} : Same(q)
    <2> TAKE q \in Slots \ {r}
    <2>1. CASE other(q)
      BY <1>2, <1>4, <2>1 DEF Same, Live
    <2>2. CASE ~other(q)
      BY <1>4, <2>2 DEF Same
    <2> QED
      BY <2>1, <2>2
  <1>6. ReqTyped'
    <2>1. \A q \in Slots : req'[q] \in {Idle} \cup Requests
      <3> TAKE q \in Slots
      <3>1. CASE q = r
        BY <1>1, <1>4, <3>1
      <3>2. CASE q # r /\ other(q)
        BY <1>2, <1>4, <3>2 DEF Live
      <3>3. CASE q # r /\ ~other(q)
        BY <1>4, <3>3 DEF Typed
      <3> QED
        BY <3>1, <3>2, <3>3
    <2> QED
      BY <1>3, <2>1 DEF ReqTyped
  <1>7. \A q \in Slots \ {r} : Live(q) /\ req[q].subject \cap xs # {} => ~req'[q].alone
    BY <1>2, <1>4 DEF Live
  <1>8. al => /\ u.alone
              /\ \A q \in Slots \ {r} : Live(q) => req[q].subject \cap xs = {}
    BY DEF al, Live
  <1> QED
    BY <1>1, <1>4, <1>5, <1>6, <1>7, <1>8 DEF Claims

-----------------------------------------------------------------------------
(***************************************************************************)
(* Steps.  What each of them does, in the terms above.                     *)
(***************************************************************************)

\* maybe_prune_expired_relay_state, when the acknowledgements of xs end as well.
MemoryPrune(xs) ==
  \/ UNCHANGED <<inner, prunedAt>> /\ Disturb(xs)
  \/ /\ prunedAt' = clock
     /\ Pruned(inner, inner', clock, GoneFromMemory(inner, clock))
     /\ Disturb(xs \cup TokensOf(GoneFromMemory(inner, clock)))

\* Request r enters with message m.
Enters(r, m, pc, seen, reg, drop, xs) ==
  /\ Claims(r, xs)
  /\ req'[r] \in Requests /\ req'[r].pc = pc /\ req'[r].m = m /\ req'[r].now = clock
  /\ req'[r].seen = seen /\ req'[r].reg = reg /\ req'[r].drop = drop
  /\ ~req'[r].dropped /\ req'[r].subject = xs
  /\ req'[r].alone => \A q \in Slots \ {r} : Live(q) => req[q].subject \cap xs = {}

\* Request r goes on at pc, to remove the one token t.
Grows(r, pc, t) ==
  /\ Claims(r, {t}) /\ ~req[r].dropped
  /\ req'[r] \in Requests /\ req'[r].pc = pc /\ req'[r].m = req[r].m
  /\ req'[r].now = req[r].now /\ req'[r].key = req[r].key /\ req'[r].seen = req[r].seen
  /\ req'[r].reg = req[r].reg /\ req'[r].drop = {t}
  /\ ~req'[r].dropped /\ req'[r].subject = req[r].subject \cup {t}
  /\ req'[r].alone => /\ req[r].alone
                      /\ \A q \in Slots \ {r} : Live(q) => t \notin req[q].subject

\* An operation on the database that did nothing, and one that was done.
Halts(r) == UNCHANGED store /\ Ends(r)
Proceeds(r, pc) == (Ends(r) /\ req[r].dropped) \/ Continues(r, pc)

ClaimedBy(m) == CASE m.kind = "prove" -> {m.d}
                  [] m.kind \in {"token", "untoken"} -> {m.item}
                  [] OTHER -> {}

ArriveTurn(r, m) ==
  /\ up /\ ~Live(r) /\ m \in scenario.msgs /\ m.kind \notin {"pair", "resolve"}
  /\ m.nonce # None => InWindow(clock, m.ts)
  /\ IF m.kind = "publish" THEN pubs < MaxPubs /\ pubs' = pubs + 1 ELSE UNCHANGED pubs
  /\ MemoryPrune(ClaimedBy(m)) /\ KeysGive
  /\ \E pc \in {"prune", Verify(m)} :
       Enters(r, m, pc, None, IF m.kind = "publish" THEN Published(m) ELSE None,
              IF m.kind = "untoken" THEN {m.item} ELSE {}, ClaimedBy(m))
  /\ UNCHANGED <<world, store, accepted, spent>>

RegisterTurn(r, m) ==
  /\ up /\ ~Live(r) /\ m \in scenario.msgs /\ m.kind = "pair"
  /\ Enters(r, m, "lookup", None, None, {}, {m.d}) /\ Disturb({m.d})
  /\ UNCHANGED <<world, store, inner, prunedAt, pubs, accepted, spent, former>>

ResolveTurn(r, m) ==
  /\ up /\ ~Live(r) /\ m \in scenario.msgs /\ m.kind = "resolve" /\ m.item \in Codes
  /\ inner.codes[m.item] # None
  /\ \/ /\ SetsCode(inner, inner', m.item, None)
        /\ Enters(r, m, "delete", None, None, {}, {})
     \/ /\ UNCHANGED inner
        /\ Enters(r, m, "forget", inner.codes[m.item], None, {}, {})
  /\ UNCHANGED <<world, prunedAt, store, noted>>

PruneTurn(r) ==
  /\ up /\ req[r].pc = "prune" /\ Proceeds(r, Verify(req[r].m))
  /\ \/ UNCHANGED <<store, acked>>
     \/ /\ Pruned(store, store', req[r].now, Gone(store, req[r].now))
        /\ Disturb(TokensOf(Gone(store, req[r].now)))
  /\ UNCHANGED <<world, inner, prunedAt, pubs, accepted, spent, former>>

CheckTurn(r) ==
  /\ up /\ req[r].pc = "key"
  /\ LET q == req[r]
         reg == inner.daemons[q.m.d]
     IN \/ Ends(r)
        \/ /\ reg # None /\ reg.key = q.m.sig
           /\ Goes(r, "admit", q.now, reg.key, q.seen, q.reg, q.drop)
  /\ UNCHANGED <<world, inner, prunedAt, store, noted>>

NonceEntered(T, U, q) ==
  IF q.m.nonce = None THEN U = T ELSE SetsNonce(T, U, <<q.m.d, q.m.nonce>>, q.m.ts)

AdmitTurn(r) ==
  /\ up /\ req[r].pc = "admit"
  /\ Ends(r) \/ Continues(r, "record")
  /\ inner' = inner \/ NonceEntered(inner, inner', req[r])
  /\ UNCHANGED <<world, prunedAt, store, noted>>

RecordTurn(r) ==
  /\ up /\ req[r].pc = "record"
  /\ \/ Halts(r)
     \/ /\ ~Known(r) /\ Proceeds(r, "verified")
        /\ \E T \in Tables : LET d == req[r].m.d
                                 old == store.daemons[d]
           IN /\ NonceEntered(store, T, req[r])
              /\ \/ old = None /\ store' = T
                 \/ /\ old # None
                    /\ \E new \in DaemonRegistration :
                         /\ new.key = old.key /\ new.at = req[r].now
                         /\ SetsDaemon(T, store', d, new)
  /\ UNCHANGED <<world, inner, prunedAt, noted>>

TouchTurn(r) ==
  /\ up /\ req[r].pc = "verified" /\ Continues(r, Handler(req[r].m.kind))
  /\ LET m == req[r].m
         old == inner.daemons[m.d]
     IN /\ \/ UNCHANGED inner
           \/ /\ old # None
              /\ \E new \in DaemonRegistration :
                   /\ new.key = old.key /\ new.at = req[r].now
                   /\ SetsDaemon(inner, inner', m.d, new)
        /\ accepted' = IF m.nonce = None \/ ~InWindow(clock, m.ts) THEN accepted
                       ELSE [accepted EXCEPT ![m.nonce] = @ + 1]
  /\ UNCHANGED <<world, prunedAt, store, pubs, spent, acked, former>>

EnterProofTurn(r) ==
  /\ up /\ req[r].pc = "proof"
  /\ Ends(r) \/ Continues(r, "proofdb")
  /\ NonceEntered(inner, inner', req[r])
  /\ UNCHANGED <<world, prunedAt, store, noted>>

RecordProofTurn(r) ==
  /\ up /\ req[r].pc = "proofdb"
  /\ \/ Halts(r)
     \/ Proceeds(r, "lookup") /\ NonceEntered(store, store', req[r])
  /\ UNCHANGED <<world, inner, prunedAt, noted>>

LookupTurn(r) ==
  /\ up /\ req[r].pc = "lookup"
  /\ LET q == req[r]
         reg == inner.daemons[q.m.d]
         goes(pc) == Goes(r, pc, clock, q.key, reg, q.reg, q.drop)
     IN \/ Ends(r) /\ UNCHANGED <<inner, prunedAt, acked, former>>
        \/ /\ reg = None \/ reg.key = q.m.new
           /\ goes("commit") /\ UNCHANGED <<inner, prunedAt, acked, former>>
        \/ /\ reg # None /\ q.m.kind = "pair" /\ (q.m.nonce # None => InWindow(clock, q.m.ts))
           /\ goes("prune") \/ goes("key")
           /\ MemoryPrune({}) /\ KeysGive
  /\ UNCHANGED <<world, store, pubs, accepted, spent>>

CommitTurn(r) ==
  /\ up /\ req[r].pc = "commit"
  /\ LET q == req[r]
     IN \/ Ends(r) /\ UNCHANGED <<inner, former>>
        \/ /\ ~daemon_capacity_exceeded(q.m.d)
           /\ ~registration_key_changed(KeyOf(q.seen), KeyOf(inner.daemons[q.m.d]), q.m.new)
           /\ KeysGive
           /\ \E reg \in DaemonRegistration :
                /\ reg.key = q.m.new /\ reg.at = clock
                /\ Goes(r, "save", q.now, q.key, q.seen, reg, q.drop)
                /\ SetsDaemon(inner, inner', q.m.d, reg)
  /\ UNCHANGED <<world, prunedAt, store, pubs, accepted, spent, acked>>

SaveTurn(r) ==
  /\ up /\ req[r].pc = "save"
  /\ \/ /\ Ends(r) /\ SetsDaemon(store, store', req[r].m.d, req[r].reg)
        /\ Ack(r, req[r].m.d, req[r].reg.key, req[r].reg.at)
     \/ scenario.fails /\ Proceeds(r, "undo") /\ UNCHANGED <<store, acked>>
  /\ UNCHANGED <<world, inner, prunedAt, pubs, accepted, spent, former>>

UndoTurn(r) ==
  /\ up /\ req[r].pc = "undo" /\ Ends(r) /\ KeysGive
  /\ \/ UNCHANGED inner
     \/ /\ inner.daemons[req[r].m.d] # None
        /\ SetsDaemon(inner, inner', req[r].m.d, req[r].seen)
  /\ UNCHANGED <<world, prunedAt, store, pubs, accepted, spent, acked>>

\* What a request will enter for its token.
BoundAs(reg, q) == reg \in TokenOwner /\ reg.d = q.m.d /\ reg.at = clock

EvictTurn(r) ==
  /\ up /\ req[r].pc = "token"
  /\ LET q == req[r]
     IN \/ /\ \E reg : BoundAs(reg, q) /\ Goes(r, "bind", q.now, q.key, q.seen, reg, q.drop)
           /\ UNCHANGED acked
        \/ \E t \in Tokens : Grows(r, "evict", t) /\ Disturb({t})
  /\ UNCHANGED <<world, inner, prunedAt, store, pubs, accepted, spent, former>>

RemoveTurn(r) ==
  /\ up /\ req[r].pc \in {"evict", "remove"}
  /\ \/ Halts(r)
     \/ /\ \E t \in Tokens : req[r].drop = {t} /\ SetsToken(store, store', t, None)
        /\ Proceeds(r, IF req[r].pc = "evict" THEN "evicted" ELSE "removed")
  /\ UNCHANGED <<world, inner, prunedAt, noted>>

ForgetTurn(r) ==
  /\ up /\ req[r].pc \in {"evicted", "removed"}
  /\ \E t \in Tokens : req[r].drop = {t} /\ SetsToken(inner, inner', t, None)
  /\ LET q == req[r]
     IN \/ /\ q.pc = "evicted"
           /\ \E reg : BoundAs(reg, q) /\ Goes(r, "bind", q.now, q.key, q.seen, reg, q.drop)
        \/ q.pc = "removed" /\ Ends(r)
  /\ UNCHANGED <<world, prunedAt, store, noted>>

BindTurn(r) ==
  /\ up /\ req[r].pc = "bind"
  /\ \/ Halts(r)
     \/ Proceeds(r, "bound") /\ SetsToken(store, store', req[r].m.item, req[r].reg)
  /\ UNCHANGED <<world, inner, prunedAt, noted>>

BoundTurn(r) ==
  /\ up /\ req[r].pc = "bound" /\ Ends(r)
  /\ SetsToken(inner, inner', req[r].m.item, req[r].reg)
  /\ Ack(r, req[r].m.item, req[r].m.d, req[r].reg.at)
  /\ UNCHANGED <<world, prunedAt, store, pubs, accepted, spent, former>>

LookupTokenTurn(r) ==
  /\ up /\ req[r].pc = "push"
  /\ \/ Grows(r, "remove", req[r].m.item) /\ Disturb({req[r].m.item})
     \/ (Ends(r) \/ Continues(r, "deliver")) /\ UNCHANGED acked
  /\ UNCHANGED <<world, inner, prunedAt, store, pubs, accepted, spent, former>>

DeliverTurn(r) ==
  /\ up /\ req[r].pc = "deliver"
  /\ LET q == req[r]
     IN \/ Grows(r, "remove", q.m.item) /\ Disturb({q.m.item})
        \/ /\ UNCHANGED acked
           /\ \/ Ends(r)
              \/ \E reg : BoundAs(reg, q)
                          /\ Goes(r, "touch", q.now, q.key, q.seen, reg, q.drop)
  /\ UNCHANGED <<world, inner, prunedAt, store, pubs, accepted, spent, former>>

\* A binding that is there gets the date of the request.
Refreshes(T, U, t, at) ==
  \/ U = T
  \/ /\ T.tokens[t] # None
     /\ \E new \in TokenOwner : /\ new.d = T.tokens[t].d /\ new.at = at
                                /\ SetsToken(T, U, t, new)

TouchTokenTurn(r) ==
  /\ up /\ req[r].pc = "touch"
  /\ \/ Halts(r)
     \/ Proceeds(r, "touched") /\ Refreshes(store, store', req[r].m.item, req[r].reg.at)
  /\ UNCHANGED <<world, inner, prunedAt, noted>>

TouchBindingTurn(r) ==
  /\ up /\ req[r].pc = "touched" /\ Ends(r)
  /\ Refreshes(inner, inner', req[r].m.item, req[r].reg.at)
  /\ UNCHANGED <<world, prunedAt, store, noted>>

EvictCodesTurn(r) ==
  /\ up /\ req[r].pc = "publish"
  /\ LET q == req[r]
     IN \/ Ends(r) /\ UNCHANGED inner
        \/ /\ \E pc \in {"savecode", "supersede"}, stale \in SUBSET (Codes \ {q.m.item}) :
                Goes(r, pc, q.now, q.key, q.seen, q.reg, stale)
           /\ inner' \in Tables /\ inner'.daemons = inner.daemons
           /\ inner'.tokens = inner.tokens /\ inner'.nonces = inner.nonces
           /\ \A c \in Codes : inner'.codes[c] \in {None, inner.codes[c]}
  /\ UNCHANGED <<world, prunedAt, store, noted>>

SupersedeTurn(r) ==
  /\ up /\ req[r].pc = "supersede"
  /\ LET q == req[r]
     IN \E c \in q.drop :
          /\ UNCHANGED store \/ SetsCode(store, store', c, None)
          /\ \/ Ends(r)
             \/ \E pc \in {"savecode", "supersede"} :
                  Goes(r, pc, q.now, q.key, q.seen, q.reg, q.drop \ {c})
  /\ UNCHANGED <<world, inner, prunedAt, noted>>

SaveCodeTurn(r) ==
  /\ up /\ req[r].pc = "savecode"
  /\ \/ Halts(r)
     \/ Proceeds(r, "show") /\ SetsCode(store, store', req[r].m.item, req[r].reg)
  /\ UNCHANGED <<world, inner, prunedAt, noted>>

ShowTurn(r) ==
  /\ up /\ req[r].pc = "show" /\ Ends(r)
  /\ SetsCode(inner, inner', req[r].m.item, req[r].reg)
  /\ UNCHANGED <<world, prunedAt, store, noted>>

ForgetCodeTurn(r) ==
  /\ up /\ req[r].pc = "forget" /\ Continues(r, "delete")
  /\ SetsCode(inner, inner', req[r].m.item, None)
  /\ UNCHANGED <<world, prunedAt, store, noted>>

DeleteCodeTurn(r) ==
  /\ up /\ req[r].pc = "delete" /\ Ends(r)
  /\ \/ /\ SetsCode(store, store', req[r].m.item, None)
        /\ \/ UNCHANGED spent
           \/ req[r].seen # None /\ spent' = spent \cup {req[r].seen.pub}
     \/ UNCHANGED <<store, spent>>
  /\ UNCHANGED <<world, inner, prunedAt, pubs, accepted, acked, former>>

DropTurn(r) ==
  /\ up /\ Live(r) /\ ReqTyped' /\ \A q \in Slots : Same(q)
  /\ UNCHANGED <<world, inner, prunedAt, store, noted>>

CrashTurn ==
  /\ up /\ up' = FALSE /\ crashes' = crashes + 1 /\ prunedAt' = 0
  /\ inner' \in Tables /\ \A d \in Daemons : inner'.daemons[d] = None
  /\ \A c \in Codes : inner'.codes[c] = None
  /\ req' = [r \in Slots |-> Idle] /\ former' = [d \in Daemons |-> {}]
  /\ UNCHANGED <<clock, scenario, store, pubs, accepted, spent, acked>>

RestartTurn ==
  /\ ~up /\ up' = TRUE /\ prunedAt' = 0 /\ inner' = store'
  /\ Pruned(store, store', clock, Gone(store, clock))
  /\ Disturb(TokensOf(Gone(store, clock)))
  /\ UNCHANGED <<clock, crashes, scenario, req, pubs, accepted, spent, former>>

LEMMA Environment ==
  ASSUME Typed
  PROVE  /\ scenario \in Scenario /\ scenario.msgs \subseteq Message
         /\ scenario.fails \in BOOLEAN
         /\ \A m \in scenario.msgs : Sensible(m)
         /\ \A m, o \in scenario.msgs : m.nonce # None /\ m.nonce = o.nonce => m = o
         /\ Cardinality(DOMAIN scenario.registered) <= MaxDaemons
         /\ scenario.registered \in UNION {[S -> Keys] : S \in SUBSET Daemons}
  BY RelayAssumption DEF Typed, Scenario

LEMMA InProgress ==
  ASSUME Typed, PhaseInv, NEW r \in Slots, Live(r)
  PROVE  /\ up /\ req[r] \in Requests /\ Sound(req[r], clock)
         /\ req[r].m \in Message /\ Sensible(req[r].m)
  BY LiveRequest, Environment DEF PhaseInv, Sound

\* Request r goes on with some of its fields changed.
LEMMA UpdateGoes ==
  ASSUME Typed, NEW r \in Slots, Live(r), NEW pc \in PCs
  PROVE  LET q == req[r]
             ends == Ends(r) /\ q.dropped
         IN /\ \A x \in Keys \cup {None} :
                 Resume(r, pc, [q EXCEPT !.key = x]) =>
                   ends \/ Goes(r, pc, q.now, x, q.seen, q.reg, q.drop)
            /\ \A x \in {None} \cup DaemonRegistration \cup PairingCodeEntry, n \in Times :
                 Resume(r, pc, [q EXCEPT !.seen = x, !.now = n]) =>
                   ends \/ Goes(r, pc, n, q.key, x, q.reg, q.drop)
            /\ \A x \in DaemonRegistration \cup TokenOwner :
                 Resume(r, pc, [q EXCEPT !.reg = x]) =>
                   ends \/ Goes(r, pc, q.now, q.key, q.seen, x, q.drop)
            /\ \A x \in SUBSET (Tokens \cup Codes) :
                 Resume(r, pc, [q EXCEPT !.drop = x]) =>
                   ends \/ Goes(r, pc, q.now, q.key, q.seen, q.reg, x)
  <1> DEFINE q == req[r]
             ends == Ends(r) /\ q.dropped
             keeps(u) == /\ u \in Requests /\ u.m = q.m /\ u.dropped = q.dropped
                         /\ u.subject = q.subject /\ u.alone = q.alone
  <1>0. q \in Requests
    BY LiveRequest
  <1>1. ASSUME NEW u, keeps(u), Resume(r, pc, u)
        PROVE  ends \/ Goes(r, pc, u.now, u.key, u.seen, u.reg, u.drop)
    BY <1>1, ResumeGoes
  <1>2. ASSUME NEW x \in Keys \cup {None}, Resume(r, pc, [q EXCEPT !.key = x])
        PROVE  ends \/ Goes(r, pc, q.now, x, q.seen, q.reg, q.drop)
    <2> DEFINE u == [q EXCEPT !.key = x]
    <2>1. /\ keeps(u) /\ u.now = q.now /\ u.key = x /\ u.seen = q.seen
          /\ u.reg = q.reg /\ u.drop = q.drop
      BY <1>0 DEF Requests
    <2> HIDE DEF u, q
    <2> QED
      BY <1>1, <1>2, <2>1 DEF u
  <1>3. ASSUME NEW x \in {None} \cup DaemonRegistration \cup PairingCodeEntry,
               NEW n \in Times, Resume(r, pc, [q EXCEPT !.seen = x, !.now = n])
        PROVE  ends \/ Goes(r, pc, n, q.key, x, q.reg, q.drop)
    <2> DEFINE u == [q EXCEPT !.seen = x, !.now = n]
    <2>1. /\ keeps(u) /\ u.now = n /\ u.key = q.key /\ u.seen = x
          /\ u.reg = q.reg /\ u.drop = q.drop
      BY <1>0 DEF Requests
    <2> HIDE DEF u, q
    <2> QED
      BY <1>1, <1>3, <2>1 DEF u
  <1>4. ASSUME NEW x \in DaemonRegistration \cup TokenOwner, Resume(r, pc, [q EXCEPT !.reg = x])
        PROVE  ends \/ Goes(r, pc, q.now, q.key, q.seen, x, q.drop)
    <2> DEFINE u == [q EXCEPT !.reg = x]
    <2>1. /\ keeps(u) /\ u.now = q.now /\ u.key = q.key /\ u.seen = q.seen
          /\ u.reg = x /\ u.drop = q.drop
      BY <1>0 DEF Requests
    <2> HIDE DEF u, q
    <2> QED
      BY <1>1, <1>4, <2>1 DEF u
  <1>5. ASSUME NEW x \in SUBSET (Tokens \cup Codes), Resume(r, pc, [q EXCEPT !.drop = x])
        PROVE  ends \/ Goes(r, pc, q.now, q.key, q.seen, q.reg, x)
    <2> DEFINE u == [q EXCEPT !.drop = x]
    <2>1. /\ keeps(u) /\ u.now = q.now /\ u.key = q.key /\ u.seen = q.seen
          /\ u.reg = q.reg /\ u.drop = x
      BY <1>0 DEF Requests
    <2> HIDE DEF u, q
    <2> QED
      BY <1>1, <1>5, <2>1 DEF u
  <1> QED
    BY <1>2, <1>3, <1>4, <1>5

LEMMA ClaimGrows ==
  ASSUME Typed, NEW r \in Slots, Live(r), ~req[r].dropped, NEW pc \in PCs, NEW t \in Tokens,
         Claim(r, [req[r] EXCEPT !.drop = {t}, !.pc = pc], {t})
  PROVE  Grows(r, pc, t)
  <1> DEFINE q == req[r]
             u == [q EXCEPT !.drop = {t}, !.pc = pc]
  <1>1. q \in Requests
    BY LiveRequest
  <1>2. /\ u \in Requests /\ u.pc = pc /\ u.m = q.m /\ u.now = q.now /\ u.key = q.key
        /\ u.seen = q.seen /\ u.reg = q.reg /\ u.drop = {t} /\ u.dropped = q.dropped
        /\ u.subject = q.subject /\ u.alone = q.alone
    BY <1>1 DEF Requests
  <1>3. Claim(r, u, {t})
    OBVIOUS
  <1> HIDE DEF u
  <1>4. {t} \in SUBSET (Daemons \cup Tokens)
    OBVIOUS
  <1> QED
    BY <1>2, <1>3, <1>4, ClaimClaims DEF Grows

\* A request as it enters.
IsNew(u, m, pc) ==
  /\ u \in Requests /\ u.pc = pc /\ u.m = m /\ u.now = clock
  /\ ~u.dropped /\ u.alone /\ u.subject = {}

LEMMA NewRequest ==
  ASSUME Typed, NEW m \in Message, NEW pc \in PCs
  PROVE  IsNew(Request(m, pc), m, pc)
  <1>1. clock \in Times
    BY DEF Typed
  <1> QED
    BY <1>1 DEF Request, Requests, IsNew

LEMMA NewRequestWith ==
  ASSUME Typed, NEW m \in Message, NEW pc \in PCs,
         NEW x \in {None} \cup PairingCodeEntry
  PROVE  /\ \A d \in SUBSET (Tokens \cup Codes) :
              IsNew([Request(m, pc) EXCEPT !.drop = d, !.reg = x], m, pc)
         /\ IsNew([Request(m, pc) EXCEPT !.seen = x], m, pc)
  <1> DEFINE new == Request(m, pc)
  <1>1. IsNew(new, m, pc)
    BY NewRequest
  <1> HIDE DEF new
  <1>2. /\ \A d \in SUBSET (Tokens \cup Codes) :
             IsNew([new EXCEPT !.drop = d, !.reg = x], m, pc)
        /\ IsNew([new EXCEPT !.seen = x], m, pc)
    BY <1>1 DEF Requests, IsNew
  <1> QED
    BY <1>2 DEF new

LEMMA NewRequestFields ==
  ASSUME NEW m, NEW pc, NEW x, NEW s, NEW d
  PROVE  /\ [Request(m, pc) EXCEPT !.drop = d, !.reg = x].seen = None
         /\ [Request(m, pc) EXCEPT !.drop = d, !.reg = x].reg = x
         /\ [Request(m, pc) EXCEPT !.drop = d, !.reg = x].drop = d
         /\ [Request(m, pc) EXCEPT !.seen = s].seen = s
         /\ [Request(m, pc) EXCEPT !.seen = s].reg = None
         /\ [Request(m, pc) EXCEPT !.seen = s].drop = {}
         /\ Request(m, pc).seen = None /\ Request(m, pc).reg = None
         /\ Request(m, pc).drop = {}
  BY DEF Request

LEMMA ClaimEnters ==
  ASSUME Typed, NEW r \in Slots, NEW m, NEW u \in Requests,
         NEW xs \in SUBSET (Daemons \cup Tokens), Claim(r, u, xs),
         u.m = m, u.now = clock, ~u.dropped, u.subject = {}
  PROVE  Enters(r, m, u.pc, u.seen, u.reg, u.drop, xs)
  <1>1. u.subject \cup xs = xs
    OBVIOUS
  <1>2. /\ Claims(r, xs)
        /\ req'[r] \in Requests /\ req'[r].pc = u.pc /\ req'[r].m = u.m
        /\ req'[r].now = u.now /\ req'[r].key = u.key /\ req'[r].seen = u.seen
        /\ req'[r].reg = u.reg /\ req'[r].drop = u.drop /\ req'[r].dropped = u.dropped
        /\ req'[r].subject = u.subject \cup xs
        /\ req'[r].alone => /\ u.alone
                            /\ \A q \in Slots \ {r} : Live(q) => req[q].subject \cap xs = {}
    BY ClaimClaims
  <1> QED
    BY <1>1, <1>2 DEF Enters

LEMMA MaybePruneIs ==
  ASSUME Typed, NEW xs, MaybePrune, Disturb(xs \cup TokensPruned)
  PROVE  MemoryPrune(xs)
  <1>1. inner \in Tables /\ clock \in Times
    BY DEF Typed
  <1>2. CASE PruneDue
    BY <1>1, <1>2, PruneIs DEF MaybePrune, MemoryPrune, TokensPruned
  <1>3. CASE ~PruneDue
    <2>1. xs \cup TokensPruned = xs
      BY <1>3 DEF TokensPruned
    <2> QED
      BY <1>3, <2>1 DEF MaybePrune, MemoryPrune
  <1> QED
    BY <1>2, <1>3

LEMMA ArriveTurns ==
  ASSUME Typed, NEW r \in Slots, NEW m \in scenario.msgs, Arrive(r, m)
  PROVE  ArriveTurn(r, m)
  <1> DEFINE pc == IF PruneDue THEN "prune" ELSE Verify(m)
             reg == IF m.kind = "publish" THEN Published(m) ELSE None
             drop == IF m.kind = "untoken" THEN {m.item} ELSE {}
             u == [Request(m, pc) EXCEPT !.drop = drop, !.reg = reg]
             xs == ClaimedBy(m)
  <1>1. m \in Message /\ Sensible(m)
    BY Environment
  <1>2. /\ Claim(r, u, xs) /\ Disturb(xs \cup TokensPruned) /\ MaybePrune /\ KeysGive
        /\ up /\ ~Live(r) /\ m.kind \notin {"pair", "resolve"} /\ Timely(m)
        /\ m.kind = "publish" => pubs < MaxPubs
        /\ pubs' = IF m.kind = "publish" THEN pubs + 1 ELSE pubs
        /\ UNCHANGED <<world, store, accepted, spent>>
    BY DEF Arrive, At, Live, ClaimedBy
  <1>3. xs \in SUBSET (Daemons \cup Tokens) /\ drop \in SUBSET (Tokens \cup Codes)
    BY <1>1, MessageFields DEF ClaimedBy, Sensible
  <1>4. reg \in {None} \cup PairingCodeEntry
    <2>1. CASE m.kind = "publish"
      <3>1. pubs \in Nat /\ MaxPubs \in Nat /\ pubs < MaxPubs /\ clock \in Nat /\ CodeTTL \in Nat
        BY <1>2, <2>1, RelayAssumption DEF Typed, Times
      <3>2. pubs + 1 \in 1 .. MaxPubs /\ clock + CodeTTL \in Nat
        BY <3>1
      <3> QED
        BY <1>1, <2>1, <3>2, MessageFields DEF Published, PairingCodeEntry
    <2> QED
      BY <2>1
  <1>5. pc \in PCs
    BY DEF Verify, PCs, Signing
  <1> HIDE DEF pc, reg, drop
  <1>6. IsNew(u, m, pc)
    BY <1>1, <1>3, <1>4, <1>5, NewRequestWith
  <1>7. u.seen = None /\ u.reg = reg /\ u.drop = drop
    BY NewRequestFields
  <1> HIDE DEF u, xs
  <1>8. Enters(r, m, u.pc, u.seen, u.reg, u.drop, xs)
    BY <1>2, <1>3, <1>6, ClaimEnters DEF IsNew
  <1>9. Enters(r, m, pc, None, reg, drop, xs)
    BY <1>6, <1>7, <1>8 DEF IsNew
  <1>10. MemoryPrune(xs)
    BY <1>2, MaybePruneIs
  <1>11. m.nonce # None => InWindow(clock, m.ts)
    BY <1>2 DEF Timely
  <1>12. pc \in {"prune", Verify(m)}
    BY DEF pc
  <1> QED
    BY <1>2, <1>9, <1>10, <1>11, <1>12 DEF ArriveTurn, xs, reg, drop

LEMMA RegisterTurns ==
  ASSUME Typed, NEW r \in Slots, NEW m \in scenario.msgs, RegisterDaemon(r, m)
  PROVE  RegisterTurn(r, m)
  <1> DEFINE u == Request(m, "lookup")
  <1>1. m \in Message
    BY Environment
  <1>2. {m.d} \in SUBSET (Daemons \cup Tokens) /\ "lookup" \in PCs
    BY <1>1, MessageFields DEF PCs, Registering
  <1>3. u \in Requests /\ u.pc = "lookup" /\ u.m = m /\ u.now = clock /\ ~u.dropped
        /\ u.subject = {}
    BY <1>1, <1>2, NewRequest DEF IsNew
  <1>4. u.seen = None /\ u.reg = None /\ u.drop = {}
    BY NewRequestFields
  <1>5. Claim(r, u, {m.d})
    BY DEF RegisterDaemon
  <1> HIDE DEF u
  <1>6. Enters(r, m, u.pc, u.seen, u.reg, u.drop, {m.d})
    BY <1>2, <1>3, <1>5, ClaimEnters
  <1> QED
    BY <1>3, <1>4, <1>6 DEF RegisterDaemon, RegisterTurn, At, Live

LEMMA ResolveTurns ==
  ASSUME Typed, NEW r \in Slots, NEW m \in scenario.msgs, Resolve(r, m)
  PROVE  ResolveTurn(r, m)
  <1> DEFINE seen == inner.codes[m.item]
             u == Request(m, "delete")
             v == [Request(m, "forget") EXCEPT !.seen = seen]
  <1>1. /\ m \in Message /\ m.kind = "resolve" /\ m.item \in Codes /\ ~Live(r) /\ up
        /\ seen # None /\ UNCHANGED <<world, prunedAt, store, noted>>
    BY Environment DEF Resolve, Sensible, At, Live
  <1>2. inner \in Tables /\ seen \in PairingCodeEntry
    BY <1>1, TableFields DEF Typed
  <1>3. /\ "delete" \in PCs /\ "forget" \in PCs
    BY DEF PCs
  <1>4. ASSUME NEW k \in Requests, k.m = m, k.now = clock, ~k.dropped, k.subject = {},
               req' = [req EXCEPT ![r] = k]
        PROVE  Enters(r, m, k.pc, k.seen, k.reg, k.drop, {})
    <2>1. req'[r] = k /\ ReqTyped' /\ \A q \in Slots \ {r} : req'[q] = req[q]
      BY <1>4 DEF Typed, ReqTyped
    <2> QED
      BY <1>4, <2>1 DEF Enters, Claims, Same
  <1>5. CASE inner.codes[m.item].expires <= clock
    <2>1. u \in Requests /\ u.pc = "delete" /\ u.m = m /\ u.now = clock /\ ~u.dropped
          /\ u.subject = {}
      BY <1>1, <1>3, NewRequest DEF IsNew
    <2>2. u.seen = None /\ u.reg = None /\ u.drop = {}
      BY NewRequestFields
    <2>3. req' = [req EXCEPT ![r] = u] /\ inner' = [inner EXCEPT !.codes[m.item] = None]
      BY <1>5 DEF Resolve
    <2> HIDE DEF u
    <2>4. Enters(r, m, "delete", None, None, {}, {})
      BY <1>4, <2>1, <2>2, <2>3
    <2>5. SetsCode(inner, inner', m.item, None)
      BY <1>1, <1>2, <2>3, SetCode
    <2> QED
      BY <1>1, <2>4, <2>5 DEF ResolveTurn
  <1>6. CASE ~(inner.codes[m.item].expires <= clock)
    <2>0. seen \in {None} \cup PairingCodeEntry
      BY <1>2
    <2> HIDE DEF seen
    <2>1. IsNew(v, m, "forget")
      BY <2>0, <1>1, <1>3, NewRequestWith
    <2>2. v.seen = seen /\ v.reg = None /\ v.drop = {}
      BY NewRequestFields
    <2>3. req' = [req EXCEPT ![r] = v] /\ UNCHANGED inner
      BY <1>6 DEF Resolve, seen
    <2> HIDE DEF v
    <2>4. Enters(r, m, "forget", seen, None, {}, {})
      BY <1>4, <2>1, <2>2, <2>3 DEF IsNew
    <2> QED
      BY <1>1, <2>3, <2>4 DEF ResolveTurn, seen
  <1> QED
    BY <1>5, <1>6

LEMMA PruneTurns ==
  ASSUME Typed, PhaseInv, NEW r \in Slots, PruneStore(r)
  PROVE  PruneTurn(r)
  <1> DEFINE q == req[r]
             next == Verify(q.m)
  <1>1. Live(r) /\ next \in PCs /\ q.pc = "prune"
    BY DEF PruneStore, At, Live, Verify, PCs, Signing
  <1>2. q.now \in Times /\ store \in Tables
    BY <1>1, InProgress, RequestFields DEF Typed
  <1>3. Goto(r, next)
    BY DEF PruneStore, Run
  <1>4. Proceeds(r, next)
    BY <1>1, <1>3, GotoGoes DEF Proceeds
  <1>5. Pruned(store, prune_expired_rows(store, q.now), q.now, Gone(store, q.now))
    BY <1>2, PruneIs
  <1>6. store' = store \/ store' = prune_expired_rows(store, q.now)
    BY DEF PruneStore, Run
  <1>7. Disturb(IF store' = store THEN {} ELSE TokensOf(Gone(store, q.now)))
    BY DEF PruneStore
  <1>8. Disturb({}) => UNCHANGED acked
    BY DEF Disturb, Typed
  <1> QED
    BY <1>1, <1>4, <1>5, <1>6, <1>7, <1>8 DEF PruneStore, PruneTurn, Run, At

LEMMA CheckTurns ==
  ASSUME Typed, PhaseInv, NEW r \in Slots, CheckSignature(r)
  PROVE  CheckTurn(r)
  <1> DEFINE q == req[r]
             reg == inner.daemons[q.m.d]
  <1>1. Live(r) /\ q.pc = "key" /\ "admit" \in PCs
    BY DEF CheckSignature, At, Live, PCs, Signing
  <1>2. reg \in DaemonRegistration \cup {None}
    BY <1>1, InProgress, MessageFields, TableFields DEF Typed
  <1>3. CASE reg # None /\ reg.key = q.m.sig
    <2>1. reg.key \in Keys \cup {None}
      BY <1>2, <1>3 DEF DaemonRegistration
    <2>2. Resume(r, "admit", [req[r] EXCEPT !.key = reg.key]) /\ ~q.dropped
      BY <1>3 DEF CheckSignature, Locked
    <2>3. Goes(r, "admit", q.now, reg.key, q.seen, q.reg, q.drop)
      BY <1>1, <2>1, <2>2, UpdateGoes
    <2> QED
      BY <1>1, <1>3, <2>3 DEF CheckSignature, CheckTurn, At, Locked
  <1>4. CASE ~(reg # None /\ reg.key = q.m.sig)
    BY <1>1, <1>4, GotoEnds DEF CheckSignature, CheckTurn, At, Locked
  <1> QED
    BY <1>3, <1>4

LEMMA EntersNonce ==
  ASSUME Typed, NEW T \in Tables, NEW m \in Message, m.nonce # None
  PROVE  SetsNonce(T, [T EXCEPT !.nonces[<<m.d, m.nonce>>] = m.ts], <<m.d, m.nonce>>, m.ts)
  BY SetNonce, MessageFields

LEMMA AdmitTurns ==
  ASSUME Typed, PhaseInv, NEW r \in Slots, Admit(r)
  PROVE  AdmitTurn(r)
  <1> DEFINE q == req[r]
  <1>1. Live(r) /\ q.pc = "admit" /\ "record" \in PCs /\ ~q.dropped /\ up
    BY DEF Admit, At, Live, PCs, Signing, Locked
  <1>2. q.m \in Message /\ inner \in Tables
    BY <1>1, InProgress DEF Typed
  <1>3. Ends(r) \/ Continues(r, "record")
    BY <1>1, GotoEnds, GotoGoes DEF Admit, RateLimited
  <1>4. inner' = inner \/ NonceEntered(inner, inner', q)
    <2>1. inner' = inner \/ EnterNonce(r)
      BY DEF Admit
    <2>2. EnterNonce(r) => NonceEntered(inner, inner', q)
      BY <1>2, EntersNonce DEF EnterNonce, NonceEntered
    <2> QED
      BY <2>1, <2>2
  <1> QED
    BY <1>1, <1>3, <1>4 DEF Admit, AdmitTurn, Locked

LEMMA EnterProofTurns ==
  ASSUME Typed, PhaseInv, NEW r \in Slots, EnterProof(r)
  PROVE  EnterProofTurn(r)
  <1> DEFINE q == req[r]
  <1>1. Live(r) /\ q.pc = "proof" /\ "proofdb" \in PCs /\ ~q.dropped /\ up
    BY DEF EnterProof, At, Live, PCs, Locked
  <1>2. q.m \in Message /\ inner \in Tables
    BY <1>1, InProgress DEF Typed
  <1>3. Ends(r) \/ Continues(r, "proofdb")
    BY <1>1, GotoEnds, GotoGoes DEF EnterProof
  <1>4. NonceEntered(inner, inner', q)
    BY <1>2, EntersNonce DEF EnterNonce, NonceEntered, EnterProof
  <1> QED
    BY <1>1, <1>3, <1>4 DEF EnterProof, EnterProofTurn, Locked

LEMMA RecordedIs ==
  ASSUME Typed, PhaseInv, NEW r \in Slots, Live(r)
  PROVE  Recorded(r) \in Tables /\ NonceEntered(store, Recorded(r), req[r])
  <1>1. req[r].m \in Message /\ store \in Tables
    BY InProgress DEF Typed
  <1>2. CASE req[r].m.nonce = None
    BY <1>1, <1>2 DEF Recorded, NonceEntered
  <1>3. CASE req[r].m.nonce # None
    BY <1>1, <1>3, EntersNonce DEF Recorded, NonceEntered, SetsNonce
  <1> QED
    BY <1>2, <1>3

LEMMA RecordProofTurns ==
  ASSUME Typed, PhaseInv, NEW r \in Slots, RecordProof(r)
  PROVE  RecordProofTurn(r)
  <1>1. Live(r) /\ req[r].pc = "proofdb" /\ "lookup" \in PCs /\ up
    BY DEF RecordProof, At, Live, PCs, Registering
  <1>2. NonceEntered(store, Recorded(r), req[r])
    BY <1>1, RecordedIs
  <1>3. \/ UNCHANGED store /\ Goto(r, "idle")
        \/ store' = Recorded(r) /\ Goto(r, "lookup")
    BY DEF RecordProof, Run
  <1>4. Halts(r) \/ (Proceeds(r, "lookup") /\ NonceEntered(store, store', req[r]))
    BY <1>1, <1>2, <1>3, GotoEnds, GotoGoes DEF Halts, Proceeds
  <1> QED
    BY <1>1, <1>4 DEF RecordProof, RecordProofTurn, Run

LEMMA RecordTurns ==
  ASSUME Typed, PhaseInv, NEW r \in Slots, RecordActivity(r)
  PROVE  RecordTurn(r)
  <1> DEFINE d == req[r].m.d
             now == req[r].now
             old == store.daemons[d]
             T == Recorded(r)
             active == IF old = None THEN T ELSE [T EXCEPT !.daemons[d].at = now]
  <1>1. Live(r) /\ req[r].pc = "record" /\ "verified" \in PCs /\ up
    BY DEF RecordActivity, At, Live, PCs, Signing
  <1>2. T \in Tables /\ NonceEntered(store, T, req[r]) /\ d \in Daemons /\ now \in Times
    BY <1>1, RecordedIs, InProgress, MessageFields, RequestFields
  <1>3. T.daemons = store.daemons
    BY <1>2 DEF NonceEntered, SetsNonce
  <1>4. \/ UNCHANGED store /\ Goto(r, "idle")
        \/ ~Known(r) /\ store' = active /\ Goto(r, "verified")
    BY DEF RecordActivity, Run
  <1>5. CASE UNCHANGED store /\ Goto(r, "idle")
    BY <1>1, <1>5, GotoEnds DEF RecordActivity, RecordTurn, Run, Halts
  <1>6. CASE ~Known(r) /\ store' = active /\ Goto(r, "verified")
    <2> HIDE DEF T, d, now
    <2>1. Proceeds(r, "verified")
      BY <1>1, <1>6, GotoGoes DEF Proceeds
    <2>2. CASE old = None
      BY <1>1, <1>2, <1>6, <2>1, <2>2 DEF RecordActivity, RecordTurn, Run, d
    <2>3. CASE old # None
      <3> DEFINE k == T.daemons[d]
                 new == [k EXCEPT !.at = now]
      <3>1. /\ new \in DaemonRegistration /\ new.key = k.key /\ new.at = now
            /\ SetsDaemon(T, [T EXCEPT !.daemons[d].at = now], d, new)
        BY <1>2, <1>3, <2>3, Dated
      <3> HIDE DEF new
      <3>2. store' = [T EXCEPT !.daemons[d].at = now] /\ k = old
        BY <1>3, <1>6, <2>3
      <3>3. /\ new \in DaemonRegistration /\ new.key = old.key /\ new.at = now
            /\ SetsDaemon(T, store', d, new)
        BY <3>1, <3>2
      <3> QED
        BY <1>1, <1>2, <1>6, <2>1, <2>3, <3>3 DEF RecordActivity, RecordTurn, Run, d, now
    <2> QED
      BY <2>2, <2>3
  <1> QED
    BY <1>4, <1>5, <1>6

LEMMA TouchTurns ==
  ASSUME Typed, PhaseInv, NEW r \in Slots, Touch(r)
  PROVE  TouchTurn(r)
  <1> DEFINE m == req[r].m
             now == req[r].now
             old == inner.daemons[m.d]
  <1>1. Live(r) /\ req[r].pc = "verified" /\ up /\ ~req[r].dropped
    BY DEF Touch, At, Live, Locked
  <1>2. m \in Message /\ m.d \in Daemons /\ now \in Times /\ inner \in Tables
    BY <1>1, InProgress, MessageFields, RequestFields DEF Typed
  <1>3. Handler(m.kind) \in PCs
    <2>1. m.kind # "prove" /\ m.kind # "resolve"
      BY <1>1, InProgress DEF Sound, SoundKeys, Signing
    <2> QED
      BY <1>2, <2>1, MessageFields DEF Handler, PCs, Registering, Binding, Showing
  <1>4. Continues(r, Handler(m.kind))
    BY <1>1, <1>3, GotoGoes DEF Touch
  <1>5. \/ UNCHANGED inner
        \/ /\ old # None
           /\ \E new \in DaemonRegistration :
                new.key = old.key /\ new.at = now /\ SetsDaemon(inner, inner', m.d, new)
    <2>1. CASE KeyIs(m.d, req[r].key)
      <3> DEFINE new == [old EXCEPT !.at = now]
      <3>1. inner' = [inner EXCEPT !.daemons[m.d].at = now] /\ old # None
        BY <2>1 DEF Touch, KeyIs
      <3>2. /\ new \in DaemonRegistration /\ new.key = old.key /\ new.at = now
            /\ SetsDaemon(inner, [inner EXCEPT !.daemons[m.d].at = now], m.d, new)
        BY <1>2, <3>1, Dated
      <3> HIDE DEF new
      <3> QED
        BY <3>1, <3>2
    <2>2. CASE ~KeyIs(m.d, req[r].key)
      BY <2>2 DEF Touch
    <2> QED
      BY <2>1, <2>2
  <1> QED
    BY <1>1, <1>4, <1>5 DEF Touch, TouchTurn, Locked

\* Without a change in memory no key gives way.
LEMMA NoKeyGives ==
  ASSUME Typed, KeysGive, UNCHANGED inner
  PROVE  UNCHANGED former
  <1>1. \A d \in Daemons : former'[d] = former[d]
    BY DEF KeysGive
  <1>2. former' = [d \in Daemons |-> former'[d]]
    BY DEF KeysGive
  <1>3. former = [d \in Daemons |-> former[d]]
    BY DEF Typed
  <1>4. [d \in Daemons |-> former'[d]] = [d \in Daemons |-> former[d]]
    BY <1>1
  <1> QED
    BY <1>2, <1>3, <1>4

LEMMA LookupTurns ==
  ASSUME Typed, PhaseInv, NEW r \in Slots, LookupRegistration(r)
  PROVE  LookupTurn(r)
  <1> DEFINE q == req[r]
             reg == inner.daemons[q.m.d]
             u == [q EXCEPT !.seen = reg, !.now = clock]
             goes(pc) == Goes(r, pc, clock, q.key, reg, q.reg, q.drop)
  <1>1. /\ Live(r) /\ up /\ q.pc = "lookup" /\ ~q.dropped /\ KeysGive
        /\ UNCHANGED <<world, store, pubs, accepted, spent>>
    BY DEF LookupRegistration, At, Live
  <1>2. reg \in {None} \cup DaemonRegistration /\ clock \in Times
    BY <1>1, InProgress, MessageFields, TableFields DEF Typed
  <1>3. \A pc \in PCs : Resume(r, pc, u) => goes(pc)
    BY <1>1, <1>2, UpdateGoes
  <1>4. {"commit", "prune", "key"} \subseteq PCs
    BY DEF PCs, Registering, Signing
  <1>5. \/ Resume(r, "idle", u) /\ UNCHANGED <<inner, prunedAt, acked>>
        \/ /\ reg = None \/ reg.key = q.m.new
           /\ Resume(r, "commit", u) /\ UNCHANGED <<inner, prunedAt, acked>>
        \/ /\ reg # None /\ q.m.kind = "pair" /\ Timely(q.m)
           /\ Resume(r, "prune", u) \/ Resume(r, "key", u)
           /\ MaybePrune /\ Disturb(TokensPruned)
    <2>1. CASE daemon_capacity_exceeded(q.m.d)
      BY <2>1 DEF LookupRegistration
    <2>2. CASE ~daemon_capacity_exceeded(q.m.d) /\ (reg = None \/ reg.key = q.m.new)
      BY <2>2 DEF LookupRegistration
    <2>3. CASE /\ ~daemon_capacity_exceeded(q.m.d) /\ ~(reg = None \/ reg.key = q.m.new)
               /\ q.m.kind = "pair" /\ q.m.sig # None /\ Timely(q.m)
      BY <2>3 DEF LookupRegistration
    <2>4. CASE /\ ~daemon_capacity_exceeded(q.m.d) /\ ~(reg = None \/ reg.key = q.m.new)
               /\ ~(q.m.kind = "pair" /\ q.m.sig # None /\ Timely(q.m))
      BY <2>4 DEF LookupRegistration
    <2> QED
      BY <2>1, <2>2, <2>3, <2>4
  <1>6. {} \cup TokensPruned = TokensPruned
    OBVIOUS
  <1> HIDE DEF u
  <1>7. CASE Resume(r, "idle", u) /\ UNCHANGED <<inner, prunedAt, acked>>
    BY <1>1, <1>7, ResumeEnds, NoKeyGives DEF LookupTurn
  <1>8. CASE /\ reg = None \/ reg.key = q.m.new
             /\ Resume(r, "commit", u) /\ UNCHANGED <<inner, prunedAt, acked>>
    BY <1>1, <1>3, <1>4, <1>8, NoKeyGives DEF LookupTurn
  <1>9. CASE /\ reg # None /\ q.m.kind = "pair" /\ Timely(q.m)
             /\ Resume(r, "prune", u) \/ Resume(r, "key", u)
             /\ MaybePrune /\ Disturb(TokensPruned)
    <2>1. MemoryPrune({})
      BY <1>6, <1>9, MaybePruneIs
    <2>2. q.m.nonce # None => InWindow(clock, q.m.ts)
      BY <1>9 DEF Timely
    <2>3. goes("prune") \/ goes("key")
      BY <1>3, <1>4, <1>9
    <2> QED
      BY <1>1, <1>9, <2>1, <2>2, <2>3 DEF LookupTurn
  <1> QED
    BY <1>5, <1>7, <1>8, <1>9

LEMMA CommitTurns ==
  ASSUME Typed, PhaseInv, NEW r \in Slots, CommitRegistration(r)
  PROVE  CommitTurn(r)
  <1> DEFINE q == req[r]
             reg == [key |-> q.m.new, at |-> clock]
             turned == \/ daemon_capacity_exceeded(q.m.d)
                       \/ registration_key_changed(KeyOf(q.seen),
                            KeyOf(inner.daemons[q.m.d]), q.m.new)
  <1>1. /\ Live(r) /\ up /\ q.pc = "commit" /\ ~q.dropped /\ KeysGive
        /\ UNCHANGED <<world, prunedAt, store, pubs, accepted, spent, acked>>
    BY DEF CommitRegistration, At, Live, Locked
  <1>2. reg \in DaemonRegistration /\ q.m.d \in Daemons /\ inner \in Tables
    <2>1. q.m.new \in Keys
      BY <1>1, InProgress DEF Sound, SoundKeys, Sensible, Registering
    <2> QED
      BY <1>1, <2>1, InProgress, MessageFields DEF Typed, DaemonRegistration
  <1>3. CASE turned
    BY <1>1, <1>3, GotoEnds, NoKeyGives DEF CommitRegistration, CommitTurn
  <1>4. CASE ~turned
    <2>1. /\ inner' = [inner EXCEPT !.daemons[q.m.d] = reg]
          /\ Resume(r, "save", [q EXCEPT !.reg = reg])
      BY <1>4 DEF CommitRegistration
    <2>2. reg.key = q.m.new /\ reg.at = clock
      OBVIOUS
    <2> HIDE DEF reg
    <2>3. "save" \in PCs
      BY DEF PCs, Registering
    <2>4. Goes(r, "save", q.now, q.key, q.seen, reg, q.drop)
      BY <1>1, <1>2, <2>1, <2>3, UpdateGoes
    <2>5. SetsDaemon(inner, inner', q.m.d, reg)
      BY <1>2, <2>1, SetDaemon
    <2> QED
      BY <1>1, <1>2, <1>4, <2>2, <2>4, <2>5 DEF CommitTurn
  <1> QED
    BY <1>3, <1>4

LEMMA SaveTurns ==
  ASSUME Typed, PhaseInv, NEW r \in Slots, SaveDaemon(r)
  PROVE  SaveTurn(r)
  <1> DEFINE q == req[r]
  <1>1. Live(r) /\ q.pc = "save" /\ "undo" \in PCs
    BY DEF SaveDaemon, At, Live, PCs, Registering
  <1>2. q.reg \in DaemonRegistration /\ q.m.d \in Daemons /\ store \in Tables
    BY <1>1, InProgress, MessageFields DEF Typed, Sound, SoundKeys
  <1>3. CASE store' = Upsert(r) /\ Goto(r, "idle") /\ Ack(r, q.m.d, q.reg.key, q.reg.at)
    <2>1. SetsDaemon(store, store', q.m.d, q.reg)
      BY <1>2, <1>3, SetDaemon DEF Upsert
    <2> QED
      BY <1>3, <2>1, GotoEnds DEF SaveDaemon, SaveTurn, At
  <1>4. CASE scenario.fails /\ Goto(r, "undo") /\ UNCHANGED <<store, acked>>
    BY <1>1, <1>4, GotoGoes DEF SaveDaemon, SaveTurn, At, Proceeds
  <1> QED
    BY <1>3, <1>4 DEF SaveDaemon

LEMMA UndoTurns ==
  ASSUME Typed, PhaseInv, NEW r \in Slots, rollback_daemon_registration(r)
  PROVE  UndoTurn(r)
  <1> DEFINE q == req[r]
             d == q.m.d
  <1>1. /\ Live(r) /\ up /\ q.pc = "undo" /\ KeysGive /\ Goto(r, "idle")
        /\ UNCHANGED <<world, prunedAt, store, pubs, accepted, spent, acked>>
    BY DEF rollback_daemon_registration, At, Live, Locked
  <1>2. /\ d \in Daemons /\ inner \in Tables /\ q.seen \in DaemonRegistration \cup {None}
        /\ q.reg \in DaemonRegistration
    BY <1>1, InProgress, MessageFields DEF Typed, Sound, SoundKeys
  <1>3. Ends(r)
    BY <1>1, GotoEnds
  <1>4. CASE inner.daemons[d] # q.reg
    BY <1>1, <1>3, <1>4 DEF rollback_daemon_registration, UndoTurn
  <1>5. CASE inner.daemons[d] = q.reg
    <2>1. inner.daemons[d] # None
      BY <1>2, <1>5, RelayAssumption
    <2>2. inner' = [inner EXCEPT !.daemons[d] = q.seen]
      BY <1>5 DEF rollback_daemon_registration
    <2>3. SetsDaemon(inner, inner', d, q.seen)
      BY <1>2, <2>2, SetDaemon
    <2> QED
      BY <1>1, <1>3, <2>1, <2>3 DEF UndoTurn
  <1> QED
    BY <1>4, <1>5

LEMMA LeastOf ==
  ASSUME NEW S \in SUBSET Nat, S # {}
  PROVE  \E n \in S : \A k \in S : n <= k
  <1>1. PICK n \in S : \A k \in S : <<k, n>> \notin OpToRel(<, Nat)
    BY WFMin, NatLessThanWellFounded, Zenon
  <1>2. \A k \in S : ~(k < n)
    BY <1>1 DEF OpToRel
  <1> QED
    BY <1>2

\* A daemon at its cap has an oldest token.
LEMMA EvictedIsAToken ==
  ASSUME Typed, NEW d, NEW t \in Tokens
  PROVE  \/ token_evicted_by_cap(d, t) = {}
         \/ \E o \in Tokens : token_evicted_by_cap(d, t) = {o}
  <1> DEFINE S == Owned(inner, d)
             oldest(o) == \A p \in S : inner.tokens[o].at <= inner.tokens[p].at
             chosen == CHOOSE o \in S : oldest(o)
  <1>1. CASE inner.tokens[t] # None \/ Cardinality(S) < MaxTokens
    BY <1>1 DEF token_evicted_by_cap
  <1>2. CASE ~(inner.tokens[t] # None \/ Cardinality(S) < MaxTokens)
    <2>0. MaxTokens \in Nat \ {0}
      BY RelayAssumption
    <2>1. S # {}
      BY <1>2, <2>0, FS_EmptySet
    <2>2. S \subseteq Tokens /\ \A o \in S : inner.tokens[o].at \in Nat
      BY TableFields DEF Owned, Typed, TokenOwner, Times
    <2> DEFINE ats == {inner.tokens[o].at : o \in S}
    <2>3. ats \in SUBSET Nat /\ ats # {}
      BY <2>1, <2>2
    <2>4. PICK n \in ats : \A k \in ats : n <= k
      BY <2>3, LeastOf
    <2>5. \E o \in S : oldest(o)
      BY <2>4
    <2> HIDE DEF S, oldest
    <2>6. chosen \in S
      BY <2>5
    <2>7. token_evicted_by_cap(d, t) = {chosen}
      BY <1>2 DEF token_evicted_by_cap, oldest, S
    <2> HIDE DEF chosen
    <2> QED
      BY <2>2, <2>6, <2>7
  <1> QED
    BY <1>1, <1>2

\* The binding a request goes on to enter.
LEMMA BoundGoes ==
  ASSUME Typed, PhaseInv, NEW r \in Slots, Live(r), NEW pc \in PCs, Resume(r, pc, Bound(r))
  PROVE  LET q == req[r]
         IN \/ Ends(r) /\ q.dropped
            \/ \E reg : BoundAs(reg, q) /\ Goes(r, pc, q.now, q.key, q.seen, reg, q.drop)
  <1> DEFINE q == req[r]
             reg == [d |-> q.m.d, at |-> clock]
  <1>1. reg \in TokenOwner /\ reg.d = q.m.d /\ reg.at = clock
    BY InProgress, MessageFields DEF Typed, TokenOwner
  <1>2. Resume(r, pc, [q EXCEPT !.reg = reg])
    BY DEF Bound
  <1> HIDE DEF reg
  <1>3. (Ends(r) /\ q.dropped) \/ Goes(r, pc, q.now, q.key, q.seen, reg, q.drop)
    BY <1>1, <1>2, UpdateGoes
  <1> QED
    BY <1>1, <1>3 DEF BoundAs

LEMMA EvictTurns ==
  ASSUME Typed, PhaseInv, NEW r \in Slots, EvictByCap(r)
  PROVE  EvictTurn(r)
  <1> DEFINE q == req[r]
             evicted == token_evicted_by_cap(q.m.d, q.m.item)
  <1>1. /\ Live(r) /\ up /\ q.pc = "token" /\ ~q.dropped
        /\ {"bind", "evict"} \subseteq PCs
        /\ UNCHANGED <<world, inner, prunedAt, store, pubs, accepted, spent, former>>
    BY DEF EvictByCap, At, Live, Locked, PCs, Binding
  <1>2. q.m.item \in Tokens
    BY <1>1, InProgress DEF Sound, SoundTokens, Binding, Sensible
  <1>3. CASE evicted = {}
    BY <1>1, <1>3, BoundGoes DEF EvictByCap, EvictTurn
  <1>4. CASE evicted # {}
    <2>1. PICK o \in Tokens : evicted = {o}
      BY <1>2, <1>4, EvictedIsAToken
    <2>2. Claim(r, [q EXCEPT !.drop = {o}, !.pc = "evict"], {o}) /\ Disturb({o})
      BY <1>4, <2>1 DEF EvictByCap
    <2>3. Grows(r, "evict", o)
      BY <1>1, <2>2, ClaimGrows
    <2> QED
      BY <1>1, <2>2, <2>3 DEF EvictTurn
  <1> QED
    BY <1>3, <1>4

\* The one token a request removes.
LEMMA DroppedToken ==
  ASSUME Typed, PhaseInv, NEW r \in Slots,
         req[r].pc \in {"evict", "evicted", "remove", "removed"}
  PROVE  \E t \in Tokens : req[r].drop = {t}
  <1>1. Live(r)
    BY DEF Live
  <1> QED
    BY <1>1, InProgress DEF Sound, SoundTokens

LEMMA RemoveTurns ==
  ASSUME Typed, PhaseInv, NEW r \in Slots, RemoveToken(r)
  PROVE  RemoveTurn(r)
  <1> DEFINE q == req[r]
             next == IF q.pc = "evict" THEN "evicted" ELSE "removed"
  <1>1. /\ Live(r) /\ up /\ q.pc \in {"evict", "remove"} /\ next \in PCs
        /\ UNCHANGED <<world, inner, prunedAt, noted>>
    BY DEF RemoveToken, Run, At, Live, PCs, Binding
  <1>2. PICK t \in Tokens : q.drop = {t}
    BY <1>1, DroppedToken
  <1>3. (CHOOSE x \in q.drop : TRUE) = t
    BY <1>2
  <1>4. \/ store' = [store EXCEPT !.tokens[t] = None] /\ Goto(r, next)
        \/ UNCHANGED store /\ Goto(r, "idle")
    BY <1>3 DEF RemoveToken, Run
  <1>5. SetsToken(store, [store EXCEPT !.tokens[t] = None], t, None)
    BY SetToken DEF Typed
  <1>6. CASE store' = [store EXCEPT !.tokens[t] = None] /\ Goto(r, next)
    <2>1. Proceeds(r, next)
      BY <1>1, <1>6, GotoGoes DEF Proceeds
    <2> QED
      BY <1>1, <1>2, <1>5, <1>6, <2>1 DEF RemoveTurn
  <1>7. CASE UNCHANGED store /\ Goto(r, "idle")
    BY <1>1, <1>7, GotoEnds DEF RemoveTurn, Halts
  <1> QED
    BY <1>4, <1>6, <1>7

LEMMA ForgetTurns ==
  ASSUME Typed, PhaseInv, NEW r \in Slots, ForgetToken(r)
  PROVE  ForgetTurn(r)
  <1> DEFINE q == req[r]
             T == [inner EXCEPT !.tokens = Retain(inner.tokens, LAMBDA t : t \notin q.drop)]
  <1>1. /\ Live(r) /\ up /\ q.pc \in {"evicted", "removed"} /\ ~q.dropped
        /\ "bind" \in PCs
        /\ UNCHANGED <<world, prunedAt, store, noted>>
    BY DEF ForgetToken, Locked, At, Live, PCs, Binding
  <1>2. PICK t \in Tokens : q.drop = {t}
    BY <1>1, DroppedToken
  <1>3. SetsToken(inner, T, t, None)
    BY <1>2, TableFields DEF Typed, SetsToken, Retain, Tables
  <1>4. inner' = T
    BY DEF ForgetToken
  <1> HIDE DEF T
  <1>5. CASE q.pc = "evicted"
    BY <1>1, <1>2, <1>3, <1>4, <1>5, BoundGoes DEF ForgetToken, ForgetTurn
  <1>6. CASE q.pc = "removed"
    BY <1>1, <1>2, <1>3, <1>4, <1>6, GotoEnds DEF ForgetToken, ForgetTurn
  <1> QED
    BY <1>1, <1>5, <1>6

\* The binding, or the date, a request enters.
LEMMA EnteredToken ==
  ASSUME Typed, PhaseInv, NEW r \in Slots,
         req[r].pc \in {"bind", "bound", "touch", "touched"}
  PROVE  /\ req[r].m.item \in Tokens
         /\ req[r].reg \in TokenOwner /\ req[r].reg.at \in Times
         /\ inner \in Tables /\ store \in Tables
  <1>1. Live(r)
    BY DEF Live
  <1>2. req[r].reg \in TokenOwner
    BY <1>1, InProgress DEF Sound, SoundTokens
  <1>3. req[r].m.item \in Tokens
    BY <1>1, InProgress DEF Sound, SoundTokens, Binding, Sensible
  <1> QED
    BY <1>2, <1>3 DEF Typed, TokenOwner

LEMMA BindTurns ==
  ASSUME Typed, PhaseInv, NEW r \in Slots, SaveToken(r)
  PROVE  BindTurn(r)
  <1> DEFINE q == req[r]
             T == [store EXCEPT !.tokens[q.m.item] = q.reg]
  <1>1. /\ Live(r) /\ up /\ q.pc = "bind" /\ "bound" \in PCs
        /\ UNCHANGED <<world, inner, prunedAt, noted>>
    BY DEF SaveToken, Run, At, Live, PCs, Binding
  <1>2. SetsToken(store, T, q.m.item, q.reg)
    BY <1>1, EnteredToken, SetToken
  <1>3. (store' = T /\ Goto(r, "bound")) \/ (UNCHANGED store /\ Goto(r, "idle"))
    BY DEF SaveToken, Run
  <1> HIDE DEF T
  <1>4. CASE store' = T /\ Goto(r, "bound")
    BY <1>1, <1>2, <1>4, GotoGoes DEF BindTurn, Proceeds
  <1>5. CASE UNCHANGED store /\ Goto(r, "idle")
    BY <1>1, <1>5, GotoEnds DEF BindTurn, Halts
  <1> QED
    BY <1>3, <1>4, <1>5

LEMMA BoundTurns ==
  ASSUME Typed, PhaseInv, NEW r \in Slots, InsertToken(r)
  PROVE  BoundTurn(r)
  <1> DEFINE q == req[r]
  <1>1. q.pc = "bound"
    BY DEF InsertToken, At
  <1>2. SetsToken(inner, [inner EXCEPT !.tokens[q.m.item] = q.reg], q.m.item, q.reg)
    BY <1>1, EnteredToken, SetToken
  <1> QED
    BY <1>1, <1>2, GotoEnds DEF InsertToken, BoundTurn, At, Locked

LEMMA LookupTokenTurns ==
  ASSUME Typed, PhaseInv, NEW r \in Slots, LookupToken(r)
  PROVE  LookupTokenTurn(r)
  <1> DEFINE q == req[r]
             t == q.m.item
  <1>1. /\ Live(r) /\ up /\ q.pc = "push" /\ ~q.dropped
        /\ {"remove", "deliver"} \subseteq PCs
        /\ UNCHANGED <<world, inner, prunedAt, store, pubs, accepted, spent, former>>
    BY DEF LookupToken, At, Live, Locked, PCs
  <1>2. t \in Tokens
    BY <1>1, InProgress DEF Sound, SoundTokens, Sensible
  <1>3. \/ Claim(r, [q EXCEPT !.drop = {t}, !.pc = "remove"], {t}) /\ Disturb({t})
        \/ (Goto(r, "deliver") \/ Goto(r, "idle")) /\ UNCHANGED acked
    BY DEF LookupToken, RateLimited
  <1>4. CASE Claim(r, [q EXCEPT !.drop = {t}, !.pc = "remove"], {t}) /\ Disturb({t})
    <2>1. Grows(r, "remove", t)
      BY <1>1, <1>2, <1>4, ClaimGrows
    <2> QED
      BY <1>1, <1>4, <2>1 DEF LookupTokenTurn
  <1>5. CASE (Goto(r, "deliver") \/ Goto(r, "idle")) /\ UNCHANGED acked
    <2>1. Ends(r) \/ Continues(r, "deliver")
      BY <1>1, <1>5, GotoEnds, GotoGoes
    <2> QED
      BY <1>1, <1>5, <2>1 DEF LookupTokenTurn
  <1> QED
    BY <1>3, <1>4, <1>5

LEMMA DeliverTurns ==
  ASSUME Typed, PhaseInv, NEW r \in Slots, Deliver(r)
  PROVE  DeliverTurn(r)
  <1> DEFINE q == req[r]
             t == q.m.item
  <1>1. /\ Live(r) /\ up /\ q.pc = "deliver" /\ {"remove", "touch"} \subseteq PCs
        /\ UNCHANGED <<world, inner, prunedAt, store, pubs, accepted, spent, former>>
    BY DEF Deliver, At, Live, PCs
  <1>2. t \in Tokens
    BY <1>1, InProgress DEF Sound, SoundTokens, Sensible
  <1>3. CASE Resume(r, "touch", Bound(r)) /\ UNCHANGED acked
    BY <1>1, <1>3, BoundGoes DEF DeliverTurn
  <1>4. CASE ~q.dropped /\ Claim(r, [q EXCEPT !.drop = {t}, !.pc = "remove"], {t})
             /\ Disturb({t})
    <2>1. Grows(r, "remove", t)
      BY <1>1, <1>2, <1>4, ClaimGrows
    <2> QED
      BY <1>1, <1>4, <2>1 DEF DeliverTurn
  <1>5. CASE Goto(r, "idle") /\ UNCHANGED acked
    BY <1>1, <1>5, GotoEnds DEF DeliverTurn
  <1> QED
    BY <1>3, <1>4, <1>5 DEF Deliver

LEMMA RefreshedIs ==
  ASSUME NEW T \in Tables, NEW t \in Tokens, NEW at \in Times
  PROVE  Refreshes(T, Refreshed(T, t, at), t, at)
  <1>1. CASE T.tokens[t] = None
    BY <1>1 DEF Refreshes, Refreshed
  <1>2. CASE T.tokens[t] # None
    <2> DEFINE new == [T.tokens[t] EXCEPT !.at = at]
               U == [T EXCEPT !.tokens[t].at = at]
    <2>1. /\ new \in TokenOwner /\ new.d = T.tokens[t].d /\ new.at = at
          /\ SetsToken(T, U, t, new)
      BY <1>2, Dated
    <2>2. Refreshed(T, t, at) = U
      BY <1>2 DEF Refreshed
    <2> HIDE DEF new, U
    <2> QED
      BY <1>2, <2>1, <2>2 DEF Refreshes
  <1> QED
    BY <1>1, <1>2

LEMMA TouchTokenTurns ==
  ASSUME Typed, PhaseInv, NEW r \in Slots, TouchToken(r)
  PROVE  TouchTokenTurn(r)
  <1> DEFINE q == req[r]
             T == Refreshed(store, q.m.item, q.reg.at)
  <1>1. /\ Live(r) /\ up /\ q.pc = "touch" /\ "touched" \in PCs
        /\ UNCHANGED <<world, inner, prunedAt, noted>>
    BY DEF TouchToken, Run, At, Live, PCs
  <1>2. Refreshes(store, T, q.m.item, q.reg.at)
    BY <1>1, EnteredToken, RefreshedIs
  <1>3. (store' = T /\ Goto(r, "touched")) \/ (UNCHANGED store /\ Goto(r, "idle"))
    BY DEF TouchToken, Run
  <1> HIDE DEF T
  <1>4. CASE store' = T /\ Goto(r, "touched")
    BY <1>1, <1>2, <1>4, GotoGoes DEF TouchTokenTurn, Proceeds
  <1>5. CASE UNCHANGED store /\ Goto(r, "idle")
    BY <1>1, <1>5, GotoEnds DEF TouchTokenTurn, Halts
  <1> QED
    BY <1>3, <1>4, <1>5

LEMMA TouchBindingTurns ==
  ASSUME Typed, PhaseInv, NEW r \in Slots, TouchBinding(r)
  PROVE  TouchBindingTurn(r)
  <1> DEFINE q == req[r]
             T == Refreshed(inner, q.m.item, q.reg.at)
  <1>1. /\ up /\ q.pc = "touched" /\ Goto(r, "idle") /\ inner' = T
        /\ UNCHANGED <<world, prunedAt, store, noted>>
    BY DEF TouchBinding, At, Locked
  <1>2. Refreshes(inner, T, q.m.item, q.reg.at)
    BY <1>1, EnteredToken, RefreshedIs
  <1> HIDE DEF T
  <1> QED
    BY <1>1, <1>2, GotoEnds DEF TouchBindingTurn

LEMMA EvictCodesTurns ==
  ASSUME Typed, PhaseInv, NEW r \in Slots, EvictCodes(r)
  PROVE  EvictCodesTurn(r)
  <1> DEFINE q == req[r]
             stale == {c \in Codes \ {q.m.item} :
                         inner.codes[c] # None /\ inner.codes[c].d = q.m.d}
             T == [inner EXCEPT !.codes = Retain(inner.codes, LAMBDA c : c \notin stale)]
             pc == IF stale = {} THEN "savecode" ELSE "supersede"
  <1>1. /\ Live(r) /\ up /\ q.pc = "publish" /\ ~q.dropped
        /\ UNCHANGED <<world, prunedAt, store, noted>>
    BY DEF EvictCodes, At, Live, Locked
  <1>2. CASE q.reg.expires <= clock
    BY <1>1, <1>2, GotoEnds DEF EvictCodes, EvictCodesTurn
  <1>3. CASE ~(q.reg.expires <= clock)
    <2>1. inner' = T /\ Resume(r, pc, [q EXCEPT !.drop = stale])
      BY <1>3 DEF EvictCodes
    <2>2. stale \in SUBSET (Codes \ {q.m.item})
      OBVIOUS
    <2> HIDE DEF stale
    <2>3. /\ T \in Tables /\ T.daemons = inner.daemons /\ T.tokens = inner.tokens
          /\ T.nonces = inner.nonces /\ \A c \in Codes : T.codes[c] \in {None, inner.codes[c]}
      BY TableFields DEF Typed, Retain, Tables
    <2> HIDE DEF T
    <2>4. pc \in PCs /\ pc \in {"savecode", "supersede"}
      BY DEF PCs, Showing
    <2> HIDE DEF pc
    <2>5. Goes(r, pc, q.now, q.key, q.seen, q.reg, stale)
      BY <1>1, <2>1, <2>2, <2>4, UpdateGoes
    <2> QED
      BY <1>1, <2>1, <2>2, <2>3, <2>4, <2>5 DEF EvictCodesTurn
  <1> QED
    BY <1>2, <1>3

LEMMA SupersedeTurns ==
  ASSUME Typed, PhaseInv, NEW r \in Slots, DeleteSuperseded(r)
  PROVE  SupersedeTurn(r)
  <1> DEFINE q == req[r]
  <1>1. /\ Live(r) /\ up /\ q.pc = "supersede"
        /\ UNCHANGED <<world, inner, prunedAt, noted>>
    BY DEF DeleteSuperseded, At, Live
  <1>2. q \in Requests /\ q.drop \subseteq Codes
    BY <1>1, InProgress DEF Sound, SoundCodes
  <1>3. PICK c \in q.drop :
          /\ store' = [store EXCEPT !.codes[c] = None] \/ UNCHANGED store
          /\ Resume(r, IF q.drop = {c} THEN "savecode" ELSE "supersede",
                    [q EXCEPT !.drop = q.drop \ {c}])
    BY DEF DeleteSuperseded
  <1>4. SetsCode(store, [store EXCEPT !.codes[c] = None], c, None)
    BY <1>2, SetCode DEF Typed
  <1> DEFINE pc == IF q.drop = {c} THEN "savecode" ELSE "supersede"
             d == q.drop \ {c}
  <1>5. pc \in PCs /\ pc \in {"savecode", "supersede"} /\ d \in SUBSET (Tokens \cup Codes)
    BY <1>2 DEF PCs, Showing
  <1>6. Resume(r, pc, [q EXCEPT !.drop = d])
    BY <1>3
  <1> HIDE DEF pc, d
  <1>7. Ends(r) \/ Goes(r, pc, q.now, q.key, q.seen, q.reg, d)
    BY <1>1, <1>5, <1>6, UpdateGoes
  <1> QED
    BY <1>1, <1>3, <1>4, <1>5, <1>7 DEF SupersedeTurn, d

\* The publication a request enters.
LEMMA EnteredCode ==
  ASSUME Typed, PhaseInv, NEW r \in Slots, req[r].pc \in Showing
  PROVE  /\ req[r].m.item \in Codes /\ req[r].reg \in PairingCodeEntry
         /\ inner \in Tables /\ store \in Tables
  <1>1. Live(r)
    BY DEF Live, Showing
  <1> QED
    BY <1>1, InProgress DEF Typed, Sound, SoundCodes, Sensible

LEMMA SaveCodeTurns ==
  ASSUME Typed, PhaseInv, NEW r \in Slots, SaveCode(r)
  PROVE  SaveCodeTurn(r)
  <1> DEFINE q == req[r]
             T == [store EXCEPT !.codes[q.m.item] = q.reg]
  <1>1. /\ Live(r) /\ up /\ q.pc = "savecode" /\ "show" \in PCs
        /\ UNCHANGED <<world, inner, prunedAt, noted>>
    BY DEF SaveCode, Run, At, Live, PCs, Showing
  <1>2. SetsCode(store, T, q.m.item, q.reg)
    BY <1>1, EnteredCode, SetCode DEF Showing
  <1>3. (store' = T /\ Goto(r, "show")) \/ (UNCHANGED store /\ Goto(r, "idle"))
    BY DEF SaveCode, Run
  <1> HIDE DEF T
  <1>4. CASE store' = T /\ Goto(r, "show")
    BY <1>1, <1>2, <1>4, GotoGoes DEF SaveCodeTurn, Proceeds
  <1>5. CASE UNCHANGED store /\ Goto(r, "idle")
    BY <1>1, <1>5, GotoEnds DEF SaveCodeTurn, Halts
  <1> QED
    BY <1>3, <1>4, <1>5

LEMMA ShowTurns ==
  ASSUME Typed, PhaseInv, NEW r \in Slots, InsertCode(r)
  PROVE  ShowTurn(r)
  <1> DEFINE q == req[r]
  <1>1. q.pc = "show"
    BY DEF InsertCode, At
  <1>2. SetsCode(inner, [inner EXCEPT !.codes[q.m.item] = q.reg], q.m.item, q.reg)
    BY <1>1, EnteredCode, SetCode DEF Showing
  <1> QED
    BY <1>1, <1>2, GotoEnds DEF InsertCode, ShowTurn, At, Locked

\* The code a request resolves.
LEMMA ResolvedCode ==
  ASSUME Typed, PhaseInv, NEW r \in Slots, req[r].pc \in {"forget", "delete"}
  PROVE  /\ req[r].m.item \in Codes /\ Live(r)
         /\ inner \in Tables /\ store \in Tables
  <1>1. Live(r)
    BY DEF Live
  <1> QED
    BY <1>1, InProgress DEF Typed, Sound, SoundCodes, Sensible

LEMMA ForgetCodeTurns ==
  ASSUME Typed, PhaseInv, NEW r \in Slots, ForgetCode(r)
  PROVE  ForgetCodeTurn(r)
  <1> DEFINE q == req[r]
  <1>1. q.pc = "forget" /\ ~q.dropped /\ "delete" \in PCs
    BY DEF ForgetCode, At, Locked, PCs
  <1>2. SetsCode(inner, [inner EXCEPT !.codes[q.m.item] = None], q.m.item, None)
    BY <1>1, ResolvedCode, SetCode
  <1>3. Continues(r, "delete")
    BY <1>1, ResolvedCode, GotoGoes DEF ForgetCode
  <1> QED
    BY <1>1, <1>2, <1>3 DEF ForgetCode, ForgetCodeTurn, At, Locked

LEMMA DeleteCodeTurns ==
  ASSUME Typed, PhaseInv, NEW r \in Slots, DeleteCode(r)
  PROVE  DeleteCodeTurn(r)
  <1> DEFINE q == req[r]
  <1>1. /\ up /\ q.pc = "delete" /\ Goto(r, "idle")
        /\ UNCHANGED <<world, inner, prunedAt, pubs, accepted, acked, former>>
    BY DEF DeleteCode, At
  <1>2. SetsCode(store, [store EXCEPT !.codes[q.m.item] = None], q.m.item, None)
    BY <1>1, ResolvedCode, SetCode
  <1>3. \/ /\ store' = [store EXCEPT !.codes[q.m.item] = None]
           /\ \/ UNCHANGED spent
              \/ q.seen # None /\ spent' = spent \cup {q.seen.pub}
        \/ UNCHANGED <<store, spent>>
    BY DEF DeleteCode
  <1>4. Ends(r)
    BY <1>1, GotoEnds
  <1> QED
    BY <1>1, <1>2, <1>3, <1>4 DEF DeleteCodeTurn

LEMMA DropTurns ==
  ASSUME Typed, NEW r \in Slots, DropHandler(r)
  PROVE  DropTurn(r)
  <1> DEFINE q == req[r]
             k == [q EXCEPT !.dropped = TRUE]
  <1>1. Live(r) /\ up /\ UNCHANGED <<world, inner, prunedAt, store, noted>>
    BY DEF DropHandler, At, Live, Awaiting
  <1>2. q \in Requests
    BY <1>1, LiveRequest
  <1>3. /\ k \in Requests /\ k.pc = q.pc /\ k.m = q.m /\ k.now = q.now /\ k.key = q.key
        /\ k.seen = q.seen /\ k.reg = q.reg /\ k.drop = q.drop
        /\ k.subject = q.subject /\ k.alone = q.alone
    BY <1>2 DEF Requests
  <1>4. req' = [req EXCEPT ![r] = k]
    BY DEF DropHandler
  <1> HIDE DEF k
  <1>5. ReqTyped' /\ req'[r] = k /\ \A o \in Slots \ {r} : req'[o] = req[o]
    BY <1>3, <1>4 DEF Typed, ReqTyped
  <1>6. Same(r)
    BY <1>3, <1>5 DEF Same
  <1>7. \A o \in Slots : Same(o)
    BY <1>5, <1>6 DEF Same
  <1> QED
    BY <1>1, <1>5, <1>7 DEF DropTurn

LEMMA FreshIs ==
  ASSUME NEW f \in UNION {[S -> Keys] : S \in SUBSET Daemons}
  PROVE  LET T == Fresh(f)
         IN /\ T \in Tables
            /\ \A d \in Daemons : IF d \in DOMAIN f
                 THEN T.daemons[d] # None /\ T.daemons[d].at = 0
                 ELSE T.daemons[d] = None
            /\ \A t \in Tokens : T.tokens[t] = None
            /\ \A d \in Daemons, n \in Nonces : T.nonces[<<d, n>>] = None
            /\ \A c \in Codes : T.codes[c] = None
  <1> DEFINE row(d) == [key |-> f[d], at |-> 0]
             T == Fresh(f)
  <1>1. \A d \in DOMAIN f : f[d] \in Keys
    OBVIOUS
  <1>2. 0 \in Times
    BY RelayAssumption DEF Times
  <1>3. \A d \in DOMAIN f : row(d) \in DaemonRegistration /\ row(d).at = 0
    BY <1>1, <1>2 DEF DaemonRegistration
  <1>4. \A d \in DOMAIN f : row(d) # None
    BY <1>3, RelayAssumption
  <1>5. T = [daemons |-> [d \in Daemons |-> IF d \in DOMAIN f THEN row(d) ELSE None],
             tokens |-> [t \in Tokens |-> None],
             nonces |-> [n \in Daemons \X Nonces |-> None],
             codes |-> [c \in Codes |-> None]]
    BY DEF Fresh
  <1> HIDE DEF row, T
  <1>6. T \in Tables
    BY <1>3, <1>5 DEF Tables
  <1>7. \A d \in Daemons : IF d \in DOMAIN f
          THEN T.daemons[d] # None /\ T.daemons[d].at = 0
          ELSE T.daemons[d] = None
    BY <1>3, <1>4, <1>5
  <1>8. /\ \A t \in Tokens : T.tokens[t] = None
        /\ \A d \in Daemons, n \in Nonces : T.nonces[<<d, n>>] = None
        /\ \A c \in Codes : T.codes[c] = None
    BY <1>5
  <1> QED
    BY <1>6, <1>7, <1>8 DEF T

LEMMA CrashTurns ==
  ASSUME Typed, Crash
  PROVE  CrashTurn
  <1>1. <<>> \in UNION {[S -> Keys] : S \in SUBSET Daemons} /\ DOMAIN <<>> = {}
    <2>1. <<>> \in [{} -> Keys]
      OBVIOUS
    <2> QED
      BY <2>1
  <1>2. /\ inner' \in Tables /\ \A d \in Daemons : inner'.daemons[d] = None
        /\ \A c \in Codes : inner'.codes[c] = None
    BY <1>1, FreshIs DEF Crash
  <1> QED
    BY <1>2 DEF Crash, CrashTurn

LEMMA RestartTurns ==
  ASSUME Typed, Restart
  PROVE  RestartTurn
  <1>1. Pruned(store, prune_expired_rows(store, clock), clock, Gone(store, clock))
    BY PruneIs DEF Typed
  <1> QED
    BY <1>1 DEF Restart, RestartTurn, load_state

\* What a step does.
Turn(r) ==
  \/ \E m \in scenario.msgs : ArriveTurn(r, m) \/ RegisterTurn(r, m) \/ ResolveTurn(r, m)
  \/ PruneTurn(r) \/ CheckTurn(r) \/ AdmitTurn(r) \/ RecordTurn(r) \/ TouchTurn(r)
  \/ EnterProofTurn(r) \/ RecordProofTurn(r) \/ LookupTurn(r) \/ CommitTurn(r)
  \/ SaveTurn(r) \/ UndoTurn(r) \/ EvictTurn(r) \/ RemoveTurn(r) \/ ForgetTurn(r)
  \/ BindTurn(r) \/ BoundTurn(r) \/ LookupTokenTurn(r) \/ DeliverTurn(r)
  \/ TouchTokenTurn(r) \/ TouchBindingTurn(r) \/ EvictCodesTurn(r)
  \/ SupersedeTurn(r) \/ SaveCodeTurn(r) \/ ShowTurn(r) \/ ForgetCodeTurn(r)
  \/ DeleteCodeTurn(r) \/ DropTurn(r)

Turns == (\E r \in Slots : Turn(r)) \/ Tick \/ CrashTurn \/ RestartTurn \/ UNCHANGED vars

LEMMA NextTurns ==
  ASSUME Typed, PhaseInv, [Next]_vars
  PROVE  Turns
  <1>1. ASSUME NEW r \in Slots, Step(r) PROVE Turn(r)
    <2>1. ASSUME NEW m \in scenario.msgs, Arrive(r, m) \/ RegisterDaemon(r, m) \/ Resolve(r, m)
          PROVE  Turn(r)
      BY <2>1, ArriveTurns, RegisterTurns, ResolveTurns DEF Turn
    <2>2. CASE \/ PruneStore(r) \/ CheckSignature(r) \/ Admit(r) \/ RecordActivity(r)
               \/ Touch(r) \/ EnterProof(r) \/ RecordProof(r)
      BY <2>2, PruneTurns, CheckTurns, AdmitTurns, RecordTurns, TouchTurns,
         EnterProofTurns, RecordProofTurns DEF Turn
    <2>3. CASE \/ LookupRegistration(r) \/ CommitRegistration(r) \/ SaveDaemon(r)
               \/ rollback_daemon_registration(r)
      BY <2>3, LookupTurns, CommitTurns, SaveTurns, UndoTurns DEF Turn
    <2>4. CASE \/ EvictByCap(r) \/ RemoveToken(r) \/ ForgetToken(r) \/ SaveToken(r)
               \/ InsertToken(r) \/ LookupToken(r) \/ Deliver(r) \/ TouchToken(r)
               \/ TouchBinding(r)
      BY <2>4, EvictTurns, RemoveTurns, ForgetTurns, BindTurns, BoundTurns,
         LookupTokenTurns, DeliverTurns, TouchTokenTurns, TouchBindingTurns DEF Turn
    <2>5. CASE \/ EvictCodes(r) \/ DeleteSuperseded(r) \/ SaveCode(r) \/ InsertCode(r)
               \/ ForgetCode(r) \/ DeleteCode(r) \/ DropHandler(r)
      BY <2>5, EvictCodesTurns, SupersedeTurns, SaveCodeTurns, ShowTurns,
         ForgetCodeTurns, DeleteCodeTurns, DropTurns DEF Turn
    <2> QED
      BY <1>1, <2>1, <2>2, <2>3, <2>4, <2>5 DEF Step
  <1> QED
    BY <1>1, CrashTurns, RestartTurns DEF Next, Turns

-----------------------------------------------------------------------------
(***************************************************************************)
(* Types, and what a request in progress is.                               *)
(***************************************************************************)
\* A request's turn leaves the others as they are.
LEMMA TurnRests ==
  ASSUME Typed, NEW r \in Slots, Turn(r)
  PROVE  /\ up /\ UNCHANGED world /\ ReqTyped'
         /\ \A q \in Slots \ {r} : Same(q)
  <1>1. ASSUME NEW m \in scenario.msgs, ArriveTurn(r, m)
        PROVE  /\ up /\ UNCHANGED world /\ ReqTyped'
               /\ \A q \in Slots \ {r} : Same(q)
    BY <1>1 DEF ArriveTurn, Ends, Goes, Continues, Rests, Halts, Proceeds,
       Enters, Claims, Grows, Same
  <1>2. ASSUME NEW m \in scenario.msgs, RegisterTurn(r, m)
        PROVE  /\ up /\ UNCHANGED world /\ ReqTyped'
               /\ \A q \in Slots \ {r} : Same(q)
    BY <1>2 DEF RegisterTurn, Ends, Goes, Continues, Rests, Halts, Proceeds,
       Enters, Claims, Grows, Same
  <1>3. ASSUME NEW m \in scenario.msgs, ResolveTurn(r, m)
        PROVE  /\ up /\ UNCHANGED world /\ ReqTyped'
               /\ \A q \in Slots \ {r} : Same(q)
    BY <1>3 DEF ResolveTurn, Ends, Goes, Continues, Rests, Halts, Proceeds,
       Enters, Claims, Grows, Same
  <1>4. CASE PruneTurn(r)
    BY <1>4 DEF PruneTurn, Ends, Goes, Continues, Rests, Halts, Proceeds,
       Enters, Claims, Grows, Same
  <1>5. CASE CheckTurn(r)
    BY <1>5 DEF CheckTurn, Ends, Goes, Continues, Rests, Halts, Proceeds,
       Enters, Claims, Grows, Same
  <1>6. CASE AdmitTurn(r)
    BY <1>6 DEF AdmitTurn, Ends, Goes, Continues, Rests, Halts, Proceeds,
       Enters, Claims, Grows, Same
  <1>7. CASE RecordTurn(r)
    BY <1>7 DEF RecordTurn, Ends, Goes, Continues, Rests, Halts, Proceeds,
       Enters, Claims, Grows, Same
  <1>8. CASE TouchTurn(r)
    BY <1>8 DEF TouchTurn, Ends, Goes, Continues, Rests, Halts, Proceeds,
       Enters, Claims, Grows, Same
  <1>9. CASE EnterProofTurn(r)
    BY <1>9 DEF EnterProofTurn, Ends, Goes, Continues, Rests, Halts, Proceeds,
       Enters, Claims, Grows, Same
  <1>10. CASE RecordProofTurn(r)
    BY <1>10 DEF RecordProofTurn, Ends, Goes, Continues, Rests, Halts,
       Proceeds, Enters, Claims, Grows, Same
  <1>11. CASE LookupTurn(r)
    BY <1>11 DEF LookupTurn, Ends, Goes, Continues, Rests, Halts, Proceeds,
       Enters, Claims, Grows, Same
  <1>12. CASE CommitTurn(r)
    BY <1>12 DEF CommitTurn, Ends, Goes, Continues, Rests, Halts, Proceeds,
       Enters, Claims, Grows, Same
  <1>13. CASE SaveTurn(r)
    BY <1>13 DEF SaveTurn, Ends, Goes, Continues, Rests, Halts, Proceeds,
       Enters, Claims, Grows, Same
  <1>14. CASE UndoTurn(r)
    BY <1>14 DEF UndoTurn, Ends, Goes, Continues, Rests, Halts, Proceeds,
       Enters, Claims, Grows, Same
  <1>15. CASE EvictTurn(r)
    BY <1>15 DEF EvictTurn, Ends, Goes, Continues, Rests, Halts, Proceeds,
       Enters, Claims, Grows, Same
  <1>16. CASE RemoveTurn(r)
    BY <1>16 DEF RemoveTurn, Ends, Goes, Continues, Rests, Halts, Proceeds,
       Enters, Claims, Grows, Same
  <1>17. CASE ForgetTurn(r)
    BY <1>17 DEF ForgetTurn, Ends, Goes, Continues, Rests, Halts, Proceeds,
       Enters, Claims, Grows, Same
  <1>18. CASE BindTurn(r)
    BY <1>18 DEF BindTurn, Ends, Goes, Continues, Rests, Halts, Proceeds,
       Enters, Claims, Grows, Same
  <1>19. CASE BoundTurn(r)
    BY <1>19 DEF BoundTurn, Ends, Goes, Continues, Rests, Halts, Proceeds,
       Enters, Claims, Grows, Same
  <1>20. CASE LookupTokenTurn(r)
    BY <1>20 DEF LookupTokenTurn, Ends, Goes, Continues, Rests, Halts,
       Proceeds, Enters, Claims, Grows, Same
  <1>21. CASE DeliverTurn(r)
    BY <1>21 DEF DeliverTurn, Ends, Goes, Continues, Rests, Halts, Proceeds,
       Enters, Claims, Grows, Same
  <1>22. CASE TouchTokenTurn(r)
    BY <1>22 DEF TouchTokenTurn, Ends, Goes, Continues, Rests, Halts,
       Proceeds, Enters, Claims, Grows, Same
  <1>23. CASE TouchBindingTurn(r)
    BY <1>23 DEF TouchBindingTurn, Ends, Goes, Continues, Rests, Halts,
       Proceeds, Enters, Claims, Grows, Same
  <1>24. CASE EvictCodesTurn(r)
    BY <1>24 DEF EvictCodesTurn, Ends, Goes, Continues, Rests, Halts,
       Proceeds, Enters, Claims, Grows, Same
  <1>25. CASE SupersedeTurn(r)
    BY <1>25 DEF SupersedeTurn, Ends, Goes, Continues, Rests, Halts, Proceeds,
       Enters, Claims, Grows, Same
  <1>26. CASE SaveCodeTurn(r)
    BY <1>26 DEF SaveCodeTurn, Ends, Goes, Continues, Rests, Halts, Proceeds,
       Enters, Claims, Grows, Same
  <1>27. CASE ShowTurn(r)
    BY <1>27 DEF ShowTurn, Ends, Goes, Continues, Rests, Halts, Proceeds,
       Enters, Claims, Grows, Same
  <1>28. CASE ForgetCodeTurn(r)
    BY <1>28 DEF ForgetCodeTurn, Ends, Goes, Continues, Rests, Halts,
       Proceeds, Enters, Claims, Grows, Same
  <1>29. CASE DeleteCodeTurn(r)
    BY <1>29 DEF DeleteCodeTurn, Ends, Goes, Continues, Rests, Halts,
       Proceeds, Enters, Claims, Grows, Same
  <1>30. CASE DropTurn(r)
    BY <1>30 DEF DropTurn, Ends, Goes, Continues, Rests, Halts, Proceeds,
       Enters, Claims, Grows, Same
  <1> QED
    BY <1>1, <1>2, <1>3, <1>4, <1>5, <1>6, <1>7, <1>8, <1>9, <1>10, <1>11,
       <1>12, <1>13, <1>14, <1>15, <1>16, <1>17, <1>18, <1>19, <1>20, <1>21,
       <1>22, <1>23, <1>24, <1>25, <1>26, <1>27, <1>28, <1>29, <1>30 DEF Turn

LEMMA TurnSound ==
  ASSUME Typed, PhaseInv, NEW r \in Slots, Turn(r)
  PROVE  Live(r)' => Sound(req'[r], clock)
  <1>1. ASSUME NEW m \in scenario.msgs, ArriveTurn(r, m)
        PROVE  Live(r)' => Sound(req'[r], clock)
    <2>1. m \in Message /\ Sensible(m) /\ m.kind \notin {"pair", "resolve"}
      BY <1>1, Environment DEF ArriveTurn
    <2>2. clock \in Nat /\ Timeout \in Nat
      BY RelayAssumption DEF Typed, Times
    <2>3. m.kind = "publish" => Published(m) \in PairingCodeEntry
      <3> HAVE m.kind = "publish"
      <3>1. pubs \in Nat /\ MaxPubs \in Nat /\ pubs < MaxPubs /\ CodeTTL \in Nat
        BY <1>1, RelayAssumption DEF Typed, ArriveTurn
      <3>2. pubs + 1 \in 1 .. MaxPubs /\ clock + CodeTTL \in Nat
        BY <2>2, <3>1
      <3> QED
        BY <2>1, <3>2, MessageFields DEF Published, PairingCodeEntry
    <2>4. PICK pc \in {"prune", Verify(m)} :
            Enters(r, m, pc, None, IF m.kind = "publish" THEN Published(m) ELSE None,
                   IF m.kind = "untoken" THEN {m.item} ELSE {}, ClaimedBy(m))
      BY <1>1 DEF ArriveTurn
    <2>5. /\ req'[r].pc = pc /\ req'[r].m = m /\ req'[r].now = clock
          /\ req'[r].reg = IF m.kind = "publish" THEN Published(m) ELSE None
          /\ req'[r].drop = IF m.kind = "untoken" THEN {m.item} ELSE {}
          /\ req'[r].subject = ClaimedBy(m)
      BY <2>4 DEF Enters
    <2>6. m.nonce # None => InWindow(clock, m.ts)
      BY <1>1 DEF ArriveTurn
    <2> DEFINE k == req'[r]
    <2> HIDE DEF k
    <2>7. /\ k.pc = pc /\ k.m = m /\ k.now = clock
          /\ k.reg = IF m.kind = "publish" THEN Published(m) ELSE None
          /\ k.drop = IF m.kind = "untoken" THEN {m.item} ELSE {}
          /\ k.subject = ClaimedBy(m)
      BY <2>5 DEF k
    <2>8. Sound(k, clock)
      <3>1. SoundKeys(k, clock)
        BY <2>1, <2>4, <2>6, <2>7 DEF Verify, ClaimedBy, SoundKeys, Signing, Registering
      <3>2. SoundTokens(k, clock)
        BY <2>1, <2>4, <2>7 DEF Verify, ClaimedBy, SoundTokens, Binding
      <3>3. SoundCodes(k)
        BY <2>1, <2>3, <2>4, <2>7 DEF Verify, SoundCodes, Showing, Signing
      <3> QED
        BY <2>2, <2>7, <3>1, <3>2, <3>3 DEF Sound, Aged
    <2> QED
      BY <2>8 DEF k
  <1>2. ASSUME NEW m \in scenario.msgs, RegisterTurn(r, m)
        PROVE  Live(r)' => Sound(req'[r], clock)
    <2>1. clock \in Nat /\ Timeout \in Nat
      BY RelayAssumption DEF Typed, Times
    <2> QED
      BY <1>2, <2>1 DEF RegisterTurn, Enters, Sound, Aged, SoundKeys, SoundTokens, SoundCodes, PCs, Signing, Registering, Binding, Showing
  <1>3. ASSUME NEW m \in scenario.msgs, ResolveTurn(r, m)
        PROVE  Live(r)' => Sound(req'[r], clock)
    <2>1. clock \in Nat /\ Timeout \in Nat
      BY RelayAssumption DEF Typed, Times
    <2>2. m.item \in Codes /\ inner.codes[m.item] \in PairingCodeEntry \cup {None}
      BY <1>3, TableFields DEF ResolveTurn, Typed
    <2> QED
      BY <1>3, <2>1, <2>2 DEF ResolveTurn, Enters, Sound, Aged, SoundKeys, SoundTokens, SoundCodes, PCs, Signing, Registering, Binding, Showing
  <1>4. CASE PruneTurn(r)
    <2>1. Live(r)
      BY <1>4 DEF PruneTurn, Live
    <2>2. Sound(req[r], clock) /\ req[r] \in Requests /\ clock \in Nat
      BY <2>1, InProgress DEF Typed, Times
    <2> QED
      BY <1>4, <2>1, <2>2, InProgress, MessageFields DEF PruneTurn, Ends, Goes,
         Continues, Proceeds, Halts, Grows, Idle, Live, Verify, Sound, Aged,
         SoundKeys, SoundTokens, SoundCodes, PCs, Signing, Registering,
         Binding, Showing
  <1>5. CASE CheckTurn(r)
    <2>1. Live(r)
      BY <1>5 DEF CheckTurn, Live
    <2>2. Sound(req[r], clock) /\ req[r] \in Requests /\ clock \in Nat
      BY <2>1, InProgress DEF Typed, Times
    <2> QED
      BY <1>5, <2>1, <2>2, InProgress, MessageFields DEF CheckTurn, Ends, Goes,
         Continues, Proceeds, Halts, Grows, Idle, Live, Sound, Aged,
         SoundKeys, SoundTokens, SoundCodes, PCs, Signing, Registering,
         Binding, Showing
  <1>6. CASE AdmitTurn(r)
    <2>1. Live(r)
      BY <1>6 DEF AdmitTurn, Live
    <2>2. Sound(req[r], clock) /\ req[r] \in Requests /\ clock \in Nat
      BY <2>1, InProgress DEF Typed, Times
    <2> QED
      BY <1>6, <2>1, <2>2, InProgress, MessageFields DEF AdmitTurn, Ends, Goes,
         Continues, Proceeds, Halts, Grows, Idle, Live, Sound, Aged,
         SoundKeys, SoundTokens, SoundCodes, PCs, Signing, Registering,
         Binding, Showing
  <1>7. CASE RecordTurn(r)
    <2>1. Live(r)
      BY <1>7 DEF RecordTurn, Live
    <2>2. /\ Sound(req[r], clock) /\ req[r] \in Requests /\ clock \in Nat
          /\ req[r].m \in Message /\ Sensible(req[r].m)
      BY <2>1, InProgress DEF Typed, Times
    <2>3. req[r].pc = "record" /\ (Halts(r) \/ Proceeds(r, "verified"))
      BY <1>7, <2>2 DEF RecordTurn
    <2> QED
      BY <1>7, <2>1, <2>2, <2>3, MessageFields DEF Sensible, Ends, Goes,
         Continues, Proceeds, Halts, Grows, Idle, Live, Sound, Aged,
         SoundKeys, SoundTokens, SoundCodes, PCs, Signing, Registering,
         Binding, Showing
  <1>8. CASE TouchTurn(r)
    <2>1. Live(r)
      BY <1>8 DEF TouchTurn, Live
    <2>2. /\ Sound(req[r], clock) /\ req[r] \in Requests /\ clock \in Nat
          /\ req[r].m \in Message /\ Sensible(req[r].m)
      BY <2>1, InProgress DEF Typed, Times
    <2>3. req[r].pc = "verified" /\ Continues(r, Handler(req[r].m.kind))
      BY <1>8, <2>2 DEF TouchTurn
    <2> QED
      BY <1>8, <2>1, <2>2, <2>3, MessageFields DEF Sensible, Ends, Goes,
         Continues, Proceeds, Halts, Grows, Idle, Live, Handler, Sound, Aged,
         SoundKeys, SoundTokens, SoundCodes, PCs, Signing, Registering,
         Binding, Showing
  <1>9. CASE EnterProofTurn(r)
    <2>1. Live(r)
      BY <1>9 DEF EnterProofTurn, Live
    <2>2. Sound(req[r], clock) /\ req[r] \in Requests /\ clock \in Nat
      BY <2>1, InProgress DEF Typed, Times
    <2> QED
      BY <1>9, <2>1, <2>2, InProgress, MessageFields DEF EnterProofTurn, Ends,
         Goes, Continues, Proceeds, Halts, Grows, Idle, Live, Sound, Aged,
         SoundKeys, SoundTokens, SoundCodes, PCs, Signing, Registering,
         Binding, Showing
  <1>10. CASE RecordProofTurn(r)
    <2>1. Live(r)
      BY <1>10 DEF RecordProofTurn, Live
    <2>2. Sound(req[r], clock) /\ req[r] \in Requests /\ clock \in Nat
      BY <2>1, InProgress DEF Typed, Times
    <2> QED
      BY <1>10, <2>1, <2>2, InProgress, MessageFields DEF RecordProofTurn, Ends,
         Goes, Continues, Proceeds, Halts, Grows, Idle, Live, Sound, Aged,
         SoundKeys, SoundTokens, SoundCodes, PCs, Signing, Registering,
         Binding, Showing
  <1>11. CASE LookupTurn(r)
    <2>1. Live(r)
      BY <1>11 DEF LookupTurn, Live
    <2>2. /\ Sound(req[r], clock) /\ req[r] \in Requests /\ clock \in Nat
          /\ req[r].m \in Message /\ Sensible(req[r].m)
      BY <2>1, InProgress DEF Typed, Times
    <2>0. /\ inner.daemons[req[r].m.d] \in {None} \cup DaemonRegistration
          /\ Timeout \in Nat
      BY <2>2, MessageFields, TableFields, RelayAssumption DEF Typed
    <2>3. /\ req[r].pc = "lookup"
          /\ LET q == req[r]
                 reg == inner.daemons[q.m.d]
                 goes(pc) == Goes(r, pc, clock, q.key, reg, q.reg, q.drop)
             IN \/ Ends(r)
                \/ reg \in {None} \cup DaemonRegistration /\ goes("commit")
                \/ /\ reg \in DaemonRegistration /\ (goes("prune") \/ goes("key"))
                   /\ q.m.kind = "pair" /\ (q.m.nonce # None => InWindow(clock, q.m.ts))
      BY <1>11, <2>2, <2>0 DEF LookupTurn
    <2> QED
      BY <1>11, <2>0, <2>1, <2>2, <2>3, MessageFields DEF Sensible, Ends, Goes,
         Continues, Proceeds, Halts, Grows, Idle, Live, Sound, Aged,
         SoundKeys, SoundTokens, SoundCodes, PCs, Signing, Registering,
         Binding, Showing
  <1>12. CASE CommitTurn(r)
    <2>1. Live(r)
      BY <1>12 DEF CommitTurn, Live
    <2>2. Sound(req[r], clock) /\ req[r] \in Requests /\ clock \in Nat
      BY <2>1, InProgress DEF Typed, Times
    <2> QED
      BY <1>12, <2>1, <2>2, InProgress, MessageFields DEF CommitTurn, Ends, Goes,
         Continues, Proceeds, Halts, Grows, Idle, Live, Sound, Aged,
         SoundKeys, SoundTokens, SoundCodes, PCs, Signing, Registering,
         Binding, Showing
  <1>13. CASE SaveTurn(r)
    <2>1. Live(r)
      BY <1>13 DEF SaveTurn, Live
    <2>2. Sound(req[r], clock) /\ req[r] \in Requests /\ clock \in Nat
      BY <2>1, InProgress DEF Typed, Times
    <2> QED
      BY <1>13, <2>1, <2>2, InProgress, MessageFields DEF SaveTurn, Ends, Goes,
         Continues, Proceeds, Halts, Grows, Idle, Live, Sound, Aged,
         SoundKeys, SoundTokens, SoundCodes, PCs, Signing, Registering,
         Binding, Showing
  <1>14. CASE UndoTurn(r)
    <2>1. Live(r)
      BY <1>14 DEF UndoTurn, Live
    <2>2. Sound(req[r], clock) /\ req[r] \in Requests /\ clock \in Nat
      BY <2>1, InProgress DEF Typed, Times
    <2> QED
      BY <1>14, <2>1, <2>2, InProgress, MessageFields DEF UndoTurn, Ends, Goes,
         Continues, Proceeds, Halts, Grows, Idle, Live, Sound, Aged,
         SoundKeys, SoundTokens, SoundCodes, PCs, Signing, Registering,
         Binding, Showing
  <1>15. CASE EvictTurn(r)
    <2>1. Live(r)
      BY <1>15 DEF EvictTurn, Live
    <2>2. /\ Sound(req[r], clock) /\ req[r] \in Requests /\ clock \in Nat
          /\ req[r].m \in Message /\ Sensible(req[r].m)
      BY <2>1, InProgress DEF Typed, Times
    <2>3. /\ req[r].pc = "token"
          /\ LET q == req[r]
             IN \/ Ends(r)
                \/ \E reg : /\ reg \in TokenOwner /\ reg.d = q.m.d /\ reg.at = clock
                            /\ Goes(r, "bind", q.now, q.key, q.seen, reg, q.drop)
                \/ \E t \in Tokens : Grows(r, "evict", t)
      BY <1>15, <2>2 DEF EvictTurn, BoundAs
    <2>4. CASE \E t \in Tokens : Grows(r, "evict", t)
      <3>1. PICK t \in Tokens : Grows(r, "evict", t)
        BY <2>4
      <3> DEFINE k == req'[r]
      <3>2. /\ k.pc = "evict" /\ k.m = req[r].m /\ k.now = req[r].now
            /\ k.seen = req[r].seen /\ k.reg = req[r].reg /\ k.drop = {t}
            /\ k.subject = req[r].subject \cup {t}
        BY <3>1 DEF Grows
      <3> HIDE DEF k
      <3>3. Sound(k, clock)
        BY <2>2, <2>3, <3>2 DEF Sound, Aged, SoundKeys, SoundTokens, SoundCodes, PCs, Signing, Registering, Binding, Showing
      <3> QED
        BY <3>3 DEF k
    <2>5. CASE \/ Ends(r)
               \/ \E reg \in TokenOwner :
                    /\ reg.d = req[r].m.d /\ reg.at = clock
                    /\ Goes(r, "bind", req[r].now, req[r].key, req[r].seen, reg, req[r].drop)
      BY <1>15, <2>1, <2>2, <2>3, <2>5, MessageFields DEF Sensible, Ends, Goes,
         Continues, Proceeds, Halts, Idle, Live, Sound, Aged,
         SoundKeys, SoundTokens, SoundCodes, PCs, Signing, Registering,
         Binding, Showing
    <2> QED
      BY <2>3, <2>4, <2>5
  <1>16. CASE RemoveTurn(r)
    <2>1. Live(r)
      BY <1>16 DEF RemoveTurn, Live
    <2>2. Sound(req[r], clock) /\ req[r] \in Requests /\ clock \in Nat
      BY <2>1, InProgress DEF Typed, Times
    <2> QED
      BY <1>16, <2>1, <2>2, InProgress, MessageFields DEF RemoveTurn, Ends, Goes,
         Continues, Proceeds, Halts, Grows, Idle, Live, Sound, Aged,
         SoundKeys, SoundTokens, SoundCodes, PCs, Signing, Registering,
         Binding, Showing
  <1>17. CASE ForgetTurn(r)
    <2>1. Live(r)
      BY <1>17 DEF ForgetTurn, Live
    <2>2. /\ Sound(req[r], clock) /\ req[r] \in Requests /\ clock \in Nat
          /\ req[r].m \in Message /\ Sensible(req[r].m)
      BY <2>1, InProgress DEF Typed, Times
    <2>3. /\ req[r].pc \in {"evicted", "removed"}
          /\ LET q == req[r]
             IN \/ Ends(r)
                \/ \E reg : /\ req[r].pc = "evicted" /\ reg \in TokenOwner /\ reg.d = q.m.d /\ reg.at = clock
                            /\ Goes(r, "bind", q.now, q.key, q.seen, reg, q.drop)
                \/ req[r].pc = "removed" /\ Ends(r)
      BY <1>17, <2>2 DEF ForgetTurn, BoundAs
    <2> QED
      BY <1>17, <2>1, <2>2, <2>3, MessageFields DEF Sensible, Ends, Goes,
         Continues, Proceeds, Halts, Grows, Idle, Live, Sound, Aged,
         SoundKeys, SoundTokens, SoundCodes, PCs, Signing, Registering,
         Binding, Showing
  <1>18. CASE BindTurn(r)
    <2>1. Live(r)
      BY <1>18 DEF BindTurn, Live
    <2>2. Sound(req[r], clock) /\ req[r] \in Requests /\ clock \in Nat
      BY <2>1, InProgress DEF Typed, Times
    <2> QED
      BY <1>18, <2>1, <2>2, InProgress, MessageFields DEF BindTurn, Ends, Goes,
         Continues, Proceeds, Halts, Grows, Idle, Live, Sound, Aged,
         SoundKeys, SoundTokens, SoundCodes, PCs, Signing, Registering,
         Binding, Showing
  <1>19. CASE BoundTurn(r)
    <2>1. Live(r)
      BY <1>19 DEF BoundTurn, Live
    <2>2. Sound(req[r], clock) /\ req[r] \in Requests /\ clock \in Nat
      BY <2>1, InProgress DEF Typed, Times
    <2> QED
      BY <1>19, <2>1, <2>2, InProgress, MessageFields DEF BoundTurn, Ends, Goes,
         Continues, Proceeds, Halts, Grows, Idle, Live, Sound, Aged,
         SoundKeys, SoundTokens, SoundCodes, PCs, Signing, Registering,
         Binding, Showing
  <1>20. CASE LookupTokenTurn(r)
    <2>1. Live(r)
      BY <1>20 DEF LookupTokenTurn, Live
    <2>2. /\ Sound(req[r], clock) /\ req[r] \in Requests /\ clock \in Nat
          /\ req[r].m \in Message /\ Sensible(req[r].m)
      BY <2>1, InProgress DEF Typed, Times
    <2>3. /\ req[r].pc = "push"
          /\ Ends(r) \/ Continues(r, "deliver") \/ Grows(r, "remove", req[r].m.item)
      BY <1>20, <2>2 DEF LookupTokenTurn
    <2> QED
      BY <1>20, <2>1, <2>2, <2>3, MessageFields DEF Sensible, Ends, Goes,
         Continues, Proceeds, Halts, Grows, Idle, Live, Sound, Aged,
         SoundKeys, SoundTokens, SoundCodes, PCs, Signing, Registering,
         Binding, Showing
  <1>21. CASE DeliverTurn(r)
    <2>1. Live(r)
      BY <1>21 DEF DeliverTurn, Live
    <2>2. /\ Sound(req[r], clock) /\ req[r] \in Requests /\ clock \in Nat
          /\ req[r].m \in Message /\ Sensible(req[r].m)
      BY <2>1, InProgress DEF Typed, Times
    <2>3. /\ req[r].pc = "deliver"
          /\ LET q == req[r]
             IN \/ Ends(r)
                \/ \E reg : /\ reg \in TokenOwner /\ reg.d = q.m.d /\ reg.at = clock
                            /\ Goes(r, "touch", q.now, q.key, q.seen, reg, q.drop)
                \/ Grows(r, "remove", q.m.item)
      BY <1>21, <2>2 DEF DeliverTurn, BoundAs
    <2> QED
      BY <1>21, <2>1, <2>2, <2>3, MessageFields DEF Sensible, Ends, Goes,
         Continues, Proceeds, Halts, Grows, Idle, Live, Sound, Aged,
         SoundKeys, SoundTokens, SoundCodes, PCs, Signing, Registering,
         Binding, Showing
  <1>22. CASE TouchTokenTurn(r)
    <2>1. Live(r)
      BY <1>22 DEF TouchTokenTurn, Live
    <2>2. Sound(req[r], clock) /\ req[r] \in Requests /\ clock \in Nat
      BY <2>1, InProgress DEF Typed, Times
    <2> QED
      BY <1>22, <2>1, <2>2, InProgress, MessageFields DEF TouchTokenTurn, Ends,
         Goes, Continues, Proceeds, Halts, Grows, Idle, Live, Sound, Aged,
         SoundKeys, SoundTokens, SoundCodes, PCs, Signing, Registering,
         Binding, Showing
  <1>23. CASE TouchBindingTurn(r)
    <2>1. Live(r)
      BY <1>23 DEF TouchBindingTurn, Live
    <2>2. Sound(req[r], clock) /\ req[r] \in Requests /\ clock \in Nat
      BY <2>1, InProgress DEF Typed, Times
    <2> QED
      BY <1>23, <2>1, <2>2, InProgress, MessageFields DEF TouchBindingTurn, Ends,
         Goes, Continues, Proceeds, Halts, Grows, Idle, Live, Sound, Aged,
         SoundKeys, SoundTokens, SoundCodes, PCs, Signing, Registering,
         Binding, Showing
  <1>24. CASE EvictCodesTurn(r)
    <2>1. Live(r)
      BY <1>24 DEF EvictCodesTurn, Live
    <2>2. Sound(req[r], clock) /\ req[r] \in Requests /\ clock \in Nat
      BY <2>1, InProgress DEF Typed, Times
    <2> QED
      BY <1>24, <2>1, <2>2, InProgress, MessageFields DEF EvictCodesTurn, Ends,
         Goes, Continues, Proceeds, Halts, Grows, Idle, Live, Sound, Aged,
         SoundKeys, SoundTokens, SoundCodes, PCs, Signing, Registering,
         Binding, Showing
  <1>25. CASE SupersedeTurn(r)
    <2>1. Live(r)
      BY <1>25 DEF SupersedeTurn, Live
    <2>2. Sound(req[r], clock) /\ req[r] \in Requests /\ clock \in Nat
      BY <2>1, InProgress DEF Typed, Times
    <2> QED
      BY <1>25, <2>1, <2>2, InProgress, MessageFields DEF SupersedeTurn, Ends,
         Goes, Continues, Proceeds, Halts, Grows, Idle, Live, Sound, Aged,
         SoundKeys, SoundTokens, SoundCodes, PCs, Signing, Registering,
         Binding, Showing
  <1>26. CASE SaveCodeTurn(r)
    <2>1. Live(r)
      BY <1>26 DEF SaveCodeTurn, Live
    <2>2. Sound(req[r], clock) /\ req[r] \in Requests /\ clock \in Nat
      BY <2>1, InProgress DEF Typed, Times
    <2> QED
      BY <1>26, <2>1, <2>2, InProgress, MessageFields DEF SaveCodeTurn, Ends,
         Goes, Continues, Proceeds, Halts, Grows, Idle, Live, Sound, Aged,
         SoundKeys, SoundTokens, SoundCodes, PCs, Signing, Registering,
         Binding, Showing
  <1>27. CASE ShowTurn(r)
    <2>1. Live(r)
      BY <1>27 DEF ShowTurn, Live
    <2>2. Sound(req[r], clock) /\ req[r] \in Requests /\ clock \in Nat
      BY <2>1, InProgress DEF Typed, Times
    <2> QED
      BY <1>27, <2>1, <2>2, InProgress, MessageFields DEF ShowTurn, Ends, Goes,
         Continues, Proceeds, Halts, Grows, Idle, Live, Sound, Aged,
         SoundKeys, SoundTokens, SoundCodes, PCs, Signing, Registering,
         Binding, Showing
  <1>28. CASE ForgetCodeTurn(r)
    <2>1. Live(r)
      BY <1>28 DEF ForgetCodeTurn, Live
    <2>2. Sound(req[r], clock) /\ req[r] \in Requests /\ clock \in Nat
      BY <2>1, InProgress DEF Typed, Times
    <2> QED
      BY <1>28, <2>1, <2>2, InProgress, MessageFields DEF ForgetCodeTurn, Ends,
         Goes, Continues, Proceeds, Halts, Grows, Idle, Live, Sound, Aged,
         SoundKeys, SoundTokens, SoundCodes, PCs, Signing, Registering,
         Binding, Showing
  <1>29. CASE DeleteCodeTurn(r)
    <2>1. Live(r)
      BY <1>29 DEF DeleteCodeTurn, Live
    <2>2. Sound(req[r], clock) /\ req[r] \in Requests /\ clock \in Nat
      BY <2>1, InProgress DEF Typed, Times
    <2> QED
      BY <1>29, <2>1, <2>2, InProgress, MessageFields DEF DeleteCodeTurn, Ends,
         Goes, Continues, Proceeds, Halts, Grows, Idle, Live, Sound, Aged,
         SoundKeys, SoundTokens, SoundCodes, PCs, Signing, Registering,
         Binding, Showing
  <1>30. CASE DropTurn(r)
    <2>1. Live(r)
      BY <1>30 DEF DropTurn, Live
    <2>2. Sound(req[r], clock) /\ req[r] \in Requests /\ clock \in Nat
      BY <2>1, InProgress DEF Typed, Times
    <2> QED
      BY <1>30, <2>1, <2>2, InProgress, MessageFields DEF DropTurn, Ends, Goes,
         Continues, Proceeds, Halts, Grows, Idle, Live, Same, Sound, Aged,
         SoundKeys, SoundTokens, SoundCodes, PCs, Signing, Registering,
         Binding, Showing
  <1> QED
    BY <1>1, <1>2, <1>3, <1>4, <1>5, <1>6, <1>7, <1>8, <1>9, <1>10, <1>11,
       <1>12, <1>13, <1>14, <1>15, <1>16, <1>17, <1>18, <1>19, <1>20, <1>21,
       <1>22, <1>23, <1>24, <1>25, <1>26, <1>27, <1>28, <1>29, <1>30 DEF Turn

LEMMA SameSound ==
  ASSUME NEW q \in Slots, Live(q), Same(q), UNCHANGED world, Sound(req[q], clock)
  PROVE  Sound(req[q], clock)'
  <1> DEFINE k == req[q]
             l == req'[q]
  <1>1. /\ l.pc = k.pc /\ l.m = k.m /\ l.now = k.now /\ l.seen = k.seen
        /\ l.reg = k.reg /\ l.drop = k.drop /\ l.subject = k.subject
    BY DEF Same
  <1>2. /\ SoundKeys(k, clock) /\ SoundTokens(k, clock) /\ SoundCodes(k)
        /\ Aged(k, clock) /\ k.m \in scenario.msgs
    BY DEF Sound
  <1> HIDE DEF k, l
  <1>3. SoundKeys(l, clock) /\ SoundTokens(l, clock) /\ SoundCodes(l) /\ Aged(l, clock)
    BY <1>1, <1>2 DEF SoundKeys, SoundTokens, SoundCodes, Aged
  <1> QED
    BY <1>1, <1>2, <1>3 DEF Sound, world, l

\* A tick within the timeout leaves a request as it is.
LEMMA TickSound ==
  ASSUME Typed, PhaseInv, Tick, NEW q \in Slots, Live(q)
  PROVE  Sound(req[q], clock)'
  <1> DEFINE k == req[q]
  <1>1. /\ Sound(k, clock) /\ k \in Requests /\ clock \in Nat /\ clock' = clock + 1
        /\ clock < k.now + Timeout /\ UNCHANGED <<scenario, req>> /\ Timeout \in Nat
    BY InProgress, RelayAssumption DEF Typed, Times, Tick, Live
  <1>2. k.now \in Nat
    BY <1>1, RequestFields DEF Times
  <1>3. k.reg \in DaemonRegistration \cup TokenOwner => k.reg.at \in Nat
    BY DEF DaemonRegistration, TokenOwner, Times
  <1> HIDE DEF k
  <1>4. Sound(k, clock + 1)
    BY <1>1, <1>2, <1>3 DEF Sound, Aged, SoundKeys, SoundTokens, SoundCodes
  <1> QED
    BY <1>1, <1>4 DEF Sound, k

LEMMA PhaseStep ==
  ASSUME Typed, PhaseInv, Turns
  PROVE  PhaseInv'
  <1>1. ASSUME NEW r \in Slots, Turn(r) PROVE PhaseInv'
    <2>1. /\ up /\ UNCHANGED world /\ \A q \in Slots \ {r} : Same(q)
          /\ Live(r)' => Sound(req'[r], clock)
      BY <1>1, TurnRests, TurnSound
    <2>2. ASSUME NEW q \in Slots, Live(q)' PROVE up' /\ Sound(req[q], clock)'
      <3>1. CASE q = r
        BY <2>1, <2>2, <3>1 DEF Sound, world
      <3>2. CASE q # r
        <4>1. Same(q) /\ Live(q)
          BY <2>1, <2>2, <3>2 DEF Same, Live
        <4> QED
          BY <2>1, <4>1, SameSound DEF PhaseInv, world
      <3> QED
        BY <3>1, <3>2
    <2> QED
      BY <2>2 DEF PhaseInv
  <1>2. CASE Tick
    BY <1>2, TickSound DEF PhaseInv, Tick, Live
  <1>3. CASE CrashTurn
    BY <1>3 DEF CrashTurn, PhaseInv, Live, Idle
  <1>4. CASE RestartTurn
    BY <1>4 DEF RestartTurn, PhaseInv, Live
  <1>5. CASE UNCHANGED vars
    BY <1>5 DEF vars, PhaseInv, Live, Sound
  <1> QED
    BY <1>1, <1>2, <1>3, <1>4, <1>5 DEF Turns

LEMMA PhaseInit ==
  ASSUME Init
  PROVE  PhaseInv
  BY DEF Init, PhaseInv, Live, Idle

LEMMA TurnTables ==
  ASSUME Typed, PhaseInv, NEW r \in Slots, Turn(r)
  PROVE  inner' \in Tables /\ store' \in Tables /\ prunedAt' \in Times
  <1>1. ASSUME NEW m \in scenario.msgs, ArriveTurn(r, m)
        PROVE  inner' \in Tables /\ store' \in Tables /\ prunedAt' \in Times
    BY <1>1 DEF ArriveTurn, Ends, Goes, Continues, Rests, Halts, Proceeds,
       Enters, Claims, Grows, Typed, SetsDaemon, SetsToken, SetsCode,
       SetsNonce, NonceEntered, Refreshes, Pruned, MemoryPrune, Halts, world
  <1>2. ASSUME NEW m \in scenario.msgs, RegisterTurn(r, m)
        PROVE  inner' \in Tables /\ store' \in Tables /\ prunedAt' \in Times
    BY <1>2 DEF RegisterTurn, Ends, Goes, Continues, Rests, Halts, Proceeds,
       Enters, Claims, Grows, Typed, SetsDaemon, SetsToken, SetsCode,
       SetsNonce, NonceEntered, Refreshes, Pruned, MemoryPrune, Halts, world
  <1>3. ASSUME NEW m \in scenario.msgs, ResolveTurn(r, m)
        PROVE  inner' \in Tables /\ store' \in Tables /\ prunedAt' \in Times
    BY <1>3 DEF ResolveTurn, Ends, Goes, Continues, Rests, Halts, Proceeds,
       Enters, Claims, Grows, Typed, SetsDaemon, SetsToken, SetsCode,
       SetsNonce, NonceEntered, Refreshes, Pruned, MemoryPrune, Halts, world
  <1>4. CASE PruneTurn(r)
    BY <1>4 DEF PruneTurn, Ends, Goes, Continues, Rests, Halts, Proceeds,
       Enters, Claims, Grows, Typed, SetsDaemon, SetsToken, SetsCode,
       SetsNonce, NonceEntered, Refreshes, Pruned, MemoryPrune, Halts, world
  <1>5. CASE CheckTurn(r)
    BY <1>5 DEF CheckTurn, Ends, Goes, Continues, Rests, Halts, Proceeds,
       Enters, Claims, Grows, Typed, SetsDaemon, SetsToken, SetsCode,
       SetsNonce, NonceEntered, Refreshes, Pruned, MemoryPrune, Halts, world
  <1>6. CASE AdmitTurn(r)
    BY <1>6 DEF AdmitTurn, Ends, Goes, Continues, Rests, Halts, Proceeds,
       Enters, Claims, Grows, Typed, SetsDaemon, SetsToken, SetsCode,
       SetsNonce, NonceEntered, Refreshes, Pruned, MemoryPrune, Halts, world
  <1>7. CASE RecordTurn(r)
    BY <1>7 DEF RecordTurn, Ends, Goes, Continues, Rests, Halts, Proceeds,
       Enters, Claims, Grows, Typed, SetsDaemon, SetsToken, SetsCode,
       SetsNonce, NonceEntered, Refreshes, Pruned, MemoryPrune, Halts, world
  <1>8. CASE TouchTurn(r)
    BY <1>8 DEF TouchTurn, Ends, Goes, Continues, Rests, Halts, Proceeds,
       Enters, Claims, Grows, Typed, SetsDaemon, SetsToken, SetsCode,
       SetsNonce, NonceEntered, Refreshes, Pruned, MemoryPrune, Halts, world
  <1>9. CASE EnterProofTurn(r)
    BY <1>9 DEF EnterProofTurn, Ends, Goes, Continues, Rests, Halts, Proceeds,
       Enters, Claims, Grows, Typed, SetsDaemon, SetsToken, SetsCode,
       SetsNonce, NonceEntered, Refreshes, Pruned, MemoryPrune, Halts, world
  <1>10. CASE RecordProofTurn(r)
    BY <1>10 DEF RecordProofTurn, Ends, Goes, Continues, Rests, Halts,
       Proceeds, Enters, Claims, Grows, Typed, SetsDaemon, SetsToken,
       SetsCode, SetsNonce, NonceEntered, Refreshes, Pruned, MemoryPrune,
       Halts, world
  <1>11. CASE LookupTurn(r)
    BY <1>11 DEF LookupTurn, Ends, Goes, Continues, Rests, Halts, Proceeds,
       Enters, Claims, Grows, Typed, SetsDaemon, SetsToken, SetsCode,
       SetsNonce, NonceEntered, Refreshes, Pruned, MemoryPrune, Halts, world
  <1>12. CASE CommitTurn(r)
    BY <1>12 DEF CommitTurn, Ends, Goes, Continues, Rests, Halts, Proceeds,
       Enters, Claims, Grows, Typed, SetsDaemon, SetsToken, SetsCode,
       SetsNonce, NonceEntered, Refreshes, Pruned, MemoryPrune, Halts, world
  <1>13. CASE SaveTurn(r)
    BY <1>13 DEF SaveTurn, Ends, Goes, Continues, Rests, Halts, Proceeds,
       Enters, Claims, Grows, Typed, SetsDaemon, SetsToken, SetsCode,
       SetsNonce, NonceEntered, Refreshes, Pruned, MemoryPrune, Halts, world
  <1>14. CASE UndoTurn(r)
    BY <1>14 DEF UndoTurn, Ends, Goes, Continues, Rests, Halts, Proceeds,
       Enters, Claims, Grows, Typed, SetsDaemon, SetsToken, SetsCode,
       SetsNonce, NonceEntered, Refreshes, Pruned, MemoryPrune, Halts, world
  <1>15. CASE EvictTurn(r)
    BY <1>15 DEF EvictTurn, Ends, Goes, Continues, Rests, Halts, Proceeds,
       Enters, Claims, Grows, Typed, SetsDaemon, SetsToken, SetsCode,
       SetsNonce, NonceEntered, Refreshes, Pruned, MemoryPrune, Halts, world
  <1>16. CASE RemoveTurn(r)
    BY <1>16 DEF RemoveTurn, Ends, Goes, Continues, Rests, Halts, Proceeds,
       Enters, Claims, Grows, Typed, SetsDaemon, SetsToken, SetsCode,
       SetsNonce, NonceEntered, Refreshes, Pruned, MemoryPrune, Halts, world
  <1>17. CASE ForgetTurn(r)
    BY <1>17 DEF ForgetTurn, Ends, Goes, Continues, Rests, Halts, Proceeds,
       Enters, Claims, Grows, Typed, SetsDaemon, SetsToken, SetsCode,
       SetsNonce, NonceEntered, Refreshes, Pruned, MemoryPrune, Halts, world
  <1>18. CASE BindTurn(r)
    BY <1>18 DEF BindTurn, Ends, Goes, Continues, Rests, Halts, Proceeds,
       Enters, Claims, Grows, Typed, SetsDaemon, SetsToken, SetsCode,
       SetsNonce, NonceEntered, Refreshes, Pruned, MemoryPrune, Halts, world
  <1>19. CASE BoundTurn(r)
    BY <1>19 DEF BoundTurn, Ends, Goes, Continues, Rests, Halts, Proceeds,
       Enters, Claims, Grows, Typed, SetsDaemon, SetsToken, SetsCode,
       SetsNonce, NonceEntered, Refreshes, Pruned, MemoryPrune, Halts, world
  <1>20. CASE LookupTokenTurn(r)
    BY <1>20 DEF LookupTokenTurn, Ends, Goes, Continues, Rests, Halts,
       Proceeds, Enters, Claims, Grows, Typed, SetsDaemon, SetsToken,
       SetsCode, SetsNonce, NonceEntered, Refreshes, Pruned, MemoryPrune,
       Halts, world
  <1>21. CASE DeliverTurn(r)
    BY <1>21 DEF DeliverTurn, Ends, Goes, Continues, Rests, Halts, Proceeds,
       Enters, Claims, Grows, Typed, SetsDaemon, SetsToken, SetsCode,
       SetsNonce, NonceEntered, Refreshes, Pruned, MemoryPrune, Halts, world
  <1>22. CASE TouchTokenTurn(r)
    BY <1>22 DEF TouchTokenTurn, Ends, Goes, Continues, Rests, Halts,
       Proceeds, Enters, Claims, Grows, Typed, SetsDaemon, SetsToken,
       SetsCode, SetsNonce, NonceEntered, Refreshes, Pruned, MemoryPrune,
       Halts, world
  <1>23. CASE TouchBindingTurn(r)
    BY <1>23 DEF TouchBindingTurn, Ends, Goes, Continues, Rests, Halts,
       Proceeds, Enters, Claims, Grows, Typed, SetsDaemon, SetsToken,
       SetsCode, SetsNonce, NonceEntered, Refreshes, Pruned, MemoryPrune,
       Halts, world
  <1>24. CASE EvictCodesTurn(r)
    BY <1>24 DEF EvictCodesTurn, Ends, Goes, Continues, Rests, Halts,
       Proceeds, Enters, Claims, Grows, Typed, SetsDaemon, SetsToken,
       SetsCode, SetsNonce, NonceEntered, Refreshes, Pruned, MemoryPrune,
       Halts, world
  <1>25. CASE SupersedeTurn(r)
    BY <1>25 DEF SupersedeTurn, Ends, Goes, Continues, Rests, Halts, Proceeds,
       Enters, Claims, Grows, Typed, SetsDaemon, SetsToken, SetsCode,
       SetsNonce, NonceEntered, Refreshes, Pruned, MemoryPrune, Halts, world
  <1>26. CASE SaveCodeTurn(r)
    BY <1>26 DEF SaveCodeTurn, Ends, Goes, Continues, Rests, Halts, Proceeds,
       Enters, Claims, Grows, Typed, SetsDaemon, SetsToken, SetsCode,
       SetsNonce, NonceEntered, Refreshes, Pruned, MemoryPrune, Halts, world
  <1>27. CASE ShowTurn(r)
    BY <1>27 DEF ShowTurn, Ends, Goes, Continues, Rests, Halts, Proceeds,
       Enters, Claims, Grows, Typed, SetsDaemon, SetsToken, SetsCode,
       SetsNonce, NonceEntered, Refreshes, Pruned, MemoryPrune, Halts, world
  <1>28. CASE ForgetCodeTurn(r)
    BY <1>28 DEF ForgetCodeTurn, Ends, Goes, Continues, Rests, Halts,
       Proceeds, Enters, Claims, Grows, Typed, SetsDaemon, SetsToken,
       SetsCode, SetsNonce, NonceEntered, Refreshes, Pruned, MemoryPrune,
       Halts, world
  <1>29. CASE DeleteCodeTurn(r)
    BY <1>29 DEF DeleteCodeTurn, Ends, Goes, Continues, Rests, Halts,
       Proceeds, Enters, Claims, Grows, Typed, SetsDaemon, SetsToken,
       SetsCode, SetsNonce, NonceEntered, Refreshes, Pruned, MemoryPrune,
       Halts, world
  <1>30. CASE DropTurn(r)
    BY <1>30 DEF DropTurn, Ends, Goes, Continues, Rests, Halts, Proceeds,
       Enters, Claims, Grows, Typed, SetsDaemon, SetsToken, SetsCode,
       SetsNonce, NonceEntered, Refreshes, Pruned, MemoryPrune, Halts, world
  <1> QED
    BY <1>1, <1>2, <1>3, <1>4, <1>5, <1>6, <1>7, <1>8, <1>9, <1>10, <1>11,
       <1>12, <1>13, <1>14, <1>15, <1>16, <1>17, <1>18, <1>19, <1>20, <1>21,
       <1>22, <1>23, <1>24, <1>25, <1>26, <1>27, <1>28, <1>29, <1>30 DEF Turn

LEMMA TurnCounts ==
  ASSUME Typed, PhaseInv, NEW r \in Slots, Turn(r)
  PROVE  /\ pubs' \in 0 .. MaxPubs
         /\ accepted' \in [Nonces -> Nat] /\ spent' \subseteq 1 .. MaxPubs
  <1>1. ASSUME NEW m \in scenario.msgs, ArriveTurn(r, m)
        PROVE  /\ pubs' \in 0 .. MaxPubs
               /\ accepted' \in [Nonces -> Nat] /\ spent' \subseteq 1 .. MaxPubs
    BY <1>1, RelayAssumption DEF ArriveTurn, Typed
  <1>2. ASSUME NEW m \in scenario.msgs, RegisterTurn(r, m)
        PROVE  /\ pubs' \in 0 .. MaxPubs
               /\ accepted' \in [Nonces -> Nat] /\ spent' \subseteq 1 .. MaxPubs
    BY <1>2 DEF RegisterTurn, Typed, noted, MemoryPrune
  <1>3. ASSUME NEW m \in scenario.msgs, ResolveTurn(r, m)
        PROVE  /\ pubs' \in 0 .. MaxPubs
               /\ accepted' \in [Nonces -> Nat] /\ spent' \subseteq 1 .. MaxPubs
    BY <1>3 DEF ResolveTurn, Typed, noted, MemoryPrune
  <1>4. CASE \/ PruneTurn(r) \/ CheckTurn(r) \/ AdmitTurn(r)
            \/ RecordTurn(r) \/ EnterProofTurn(r) \/ RecordProofTurn(r)
    BY <1>4 DEF PruneTurn, CheckTurn, AdmitTurn, RecordTurn, EnterProofTurn,
       RecordProofTurn, Typed, noted, MemoryPrune
  <1>5. CASE TouchTurn(r)
    <2>1. req[r].m \in Message
      BY <1>5, InProgress DEF TouchTurn, Live
    <2>2. req[r].m.nonce \in Nonces \cup {None}
      BY <2>1, MessageFields
    <2> QED
      BY <1>5, <2>2 DEF TouchTurn, Typed
  <1>6. CASE \/ LookupTurn(r) \/ CommitTurn(r) \/ SaveTurn(r)
            \/ UndoTurn(r) \/ EvictTurn(r) \/ RemoveTurn(r)
    BY <1>6 DEF LookupTurn, CommitTurn, SaveTurn, UndoTurn, EvictTurn,
       RemoveTurn, Typed, noted, MemoryPrune
  <1>7. CASE \/ ForgetTurn(r) \/ BindTurn(r) \/ BoundTurn(r)
            \/ LookupTokenTurn(r) \/ DeliverTurn(r) \/ TouchTokenTurn(r)
    BY <1>7 DEF ForgetTurn, BindTurn, BoundTurn, LookupTokenTurn, DeliverTurn,
       TouchTokenTurn, Typed, noted, MemoryPrune
  <1>8. CASE \/ TouchBindingTurn(r) \/ EvictCodesTurn(r) \/ SupersedeTurn(r)
            \/ SaveCodeTurn(r) \/ ShowTurn(r) \/ ForgetCodeTurn(r)
    BY <1>8 DEF TouchBindingTurn, EvictCodesTurn, SupersedeTurn, SaveCodeTurn,
       ShowTurn, ForgetCodeTurn, Typed, noted, MemoryPrune
  <1>9. CASE DeleteCodeTurn(r)
    <2>1. req[r].seen \in {None} \cup PairingCodeEntry
      BY <1>9, ResolvedCode, InProgress DEF DeleteCodeTurn, Sound, SoundCodes
    <2> QED
      BY <1>9, <2>1 DEF DeleteCodeTurn, Typed, PairingCodeEntry
  <1>10. CASE DropTurn(r)
    BY <1>10 DEF DropTurn, Typed, noted, MemoryPrune
  <1> QED
    BY <1>1, <1>2, <1>3, <1>4, <1>5, <1>6, <1>7, <1>8, <1>9, <1>10 DEF Turn

Acks == [Daemons \cup Tokens -> {None} \cup Acknowledgement]

LEMMA DisturbIs ==
  ASSUME acked \in Acks, NEW xs, Disturb(xs)
  PROVE  /\ acked' \in Acks
         /\ \A x \in Daemons \cup Tokens :
              acked'[x] = IF x \in xs THEN None ELSE acked[x]
  BY DEF Disturb, Acks

LEMMA AckIs ==
  ASSUME acked \in Acks, NEW r, NEW x \in Daemons \cup Tokens, NEW val \in Daemons \cup Keys,
         NEW at \in Times, Ack(r, x, val, at)
  PROVE  /\ acked' \in Acks
         /\ \A y \in (Daemons \cup Tokens) \ {x} : acked'[y] = acked[y]
         /\ \/ acked'[x] = acked[x] /\ (req[r].dropped \/ ~req[r].alone)
            \/ /\ req[r].alone /\ ~req[r].dropped
               /\ acked'[x] # None /\ acked'[x].val = val /\ acked'[x].at = at
  <1> DEFINE k == [val |-> val, at |-> at]
  <1>1. k \in Acknowledgement /\ k.val = val /\ k.at = at
    BY DEF Acknowledgement
  <1>2. k # None
    BY <1>1, RelayAssumption DEF Acknowledgement
  <1>3. acked' = IF req[r].alone /\ ~req[r].dropped THEN [acked EXCEPT ![x] = k] ELSE acked
    BY DEF Ack
  <1> HIDE DEF k
  <1> QED
    BY <1>1, <1>2, <1>3 DEF Acks

LEMMA KeysGiveIs ==
  ASSUME Typed, KeysGive
  PROVE  /\ former' \in [Daemons -> SUBSET Keys]
         /\ \A d \in Daemons : former[d] \subseteq former'[d]
         /\ \A d \in Daemons : inner.daemons[d] # None
              /\ KeyOf(inner'.daemons[d]) # inner.daemons[d].key
                => inner.daemons[d].key \in former'[d]
  <1>1. \A d \in Daemons : KeyOf(inner.daemons[d]) \in Keys \cup {None}
    BY TableFields DEF Typed, KeyOf, DaemonRegistration
  <1>2. \A d \in Daemons : former'[d] = former[d] \cup
          ({KeyOf(inner.daemons[d])} \ {None, KeyOf(inner'.daemons[d])})
    BY DEF KeysGive
  <1>3. \A d \in Daemons : inner.daemons[d] # None =>
          /\ KeyOf(inner.daemons[d]) = inner.daemons[d].key
          /\ inner.daemons[d].key # None
    BY TableFields, RelayAssumption DEF Typed, KeyOf, DaemonRegistration
  <1>4. former' = [d \in Daemons |-> former'[d]]
    BY DEF KeysGive
  <1>5. \A d \in Daemons : former'[d] \in SUBSET Keys
    BY <1>1, <1>2 DEF Typed
  <1> QED
    BY <1>2, <1>3, <1>4, <1>5

LEMMA TurnNotes ==
  ASSUME Typed, PhaseInv, NEW r \in Slots, Turn(r)
  PROVE  acked' \in Acks /\ former' \in [Daemons -> SUBSET Keys]
  <1>1. ASSUME NEW m \in scenario.msgs, ArriveTurn(r, m)
        PROVE  acked' \in Acks /\ former' \in [Daemons -> SUBSET Keys]
    BY <1>1, DisturbIs, KeysGiveIs DEF ArriveTurn, Typed, Acks, MemoryPrune,
       noted
  <1>2. ASSUME NEW m \in scenario.msgs, RegisterTurn(r, m)
        PROVE  acked' \in Acks /\ former' \in [Daemons -> SUBSET Keys]
    BY <1>2, DisturbIs, KeysGiveIs DEF RegisterTurn, Typed, Acks, MemoryPrune,
       noted
  <1>3. ASSUME NEW m \in scenario.msgs, ResolveTurn(r, m)
        PROVE  acked' \in Acks /\ former' \in [Daemons -> SUBSET Keys]
    BY <1>3, DisturbIs, KeysGiveIs DEF ResolveTurn, Typed, Acks, MemoryPrune,
       noted
  <1>4. CASE \/ PruneTurn(r) \/ CheckTurn(r) \/ AdmitTurn(r)
            \/ RecordTurn(r) \/ TouchTurn(r) \/ EnterProofTurn(r)
    BY <1>4, DisturbIs, KeysGiveIs DEF PruneTurn, CheckTurn, AdmitTurn,
       RecordTurn, TouchTurn, EnterProofTurn, Typed, Acks, MemoryPrune, noted
  <1>5. CASE \/ RecordProofTurn(r) \/ LookupTurn(r) \/ CommitTurn(r)
            \/ UndoTurn(r) \/ EvictTurn(r) \/ RemoveTurn(r)
    BY <1>5, DisturbIs, KeysGiveIs DEF RecordProofTurn, LookupTurn,
       CommitTurn, UndoTurn, EvictTurn, RemoveTurn, Typed, Acks, MemoryPrune,
       noted
  <1>6. CASE SaveTurn(r)
    <2>1. Live(r) /\ acked \in Acks /\ former' = former
      BY <1>6 DEF SaveTurn, Live, Typed, Acks
    <2>2. req[r].reg \in DaemonRegistration /\ req[r].m.d \in Daemons
      BY <1>6, <2>1, InProgress, MessageFields DEF SaveTurn, Sound, SoundKeys
    <2>3. req[r].reg.key \in Keys /\ req[r].reg.at \in Times
      BY <2>2 DEF DaemonRegistration
    <2>4. acked' \in Acks
      BY <1>6, <2>1, <2>2, <2>3, AckIs DEF SaveTurn
    <2> QED
      BY <2>1, <2>4 DEF Typed
  <1>7. CASE \/ ForgetTurn(r) \/ BindTurn(r) \/ LookupTokenTurn(r)
            \/ DeliverTurn(r) \/ TouchTokenTurn(r) \/ TouchBindingTurn(r)
    BY <1>7, DisturbIs, KeysGiveIs DEF ForgetTurn, BindTurn, LookupTokenTurn,
       DeliverTurn, TouchTokenTurn, TouchBindingTurn, Typed, Acks,
       MemoryPrune, noted
  <1>8. CASE BoundTurn(r)
    <2>1. Live(r) /\ acked \in Acks /\ former' = former
      BY <1>8 DEF BoundTurn, Live, Typed, Acks
    <2>2. req[r].reg.at \in Times /\ req[r].m.item \in Tokens
      BY <1>8, EnteredToken DEF BoundTurn
    <2>3. req[r].m.d \in Daemons
      BY <2>1, InProgress, MessageFields
    <2>4. acked' \in Acks
      BY <1>8, <2>1, <2>2, <2>3, AckIs DEF BoundTurn
    <2> QED
      BY <2>1, <2>4 DEF Typed
  <1>9. CASE \/ EvictCodesTurn(r) \/ SupersedeTurn(r) \/ SaveCodeTurn(r)
            \/ ShowTurn(r) \/ ForgetCodeTurn(r) \/ DeleteCodeTurn(r)
    BY <1>9, DisturbIs, KeysGiveIs DEF EvictCodesTurn, SupersedeTurn,
       SaveCodeTurn, ShowTurn, ForgetCodeTurn, DeleteCodeTurn, Typed, Acks,
       MemoryPrune, noted
  <1>10. CASE DropTurn(r)
    BY <1>10, DisturbIs, KeysGiveIs DEF DropTurn, Typed, Acks, MemoryPrune,
       noted
  <1> QED
    BY <1>1, <1>2, <1>3, <1>4, <1>5, <1>6, <1>7, <1>8, <1>9, <1>10 DEF Turn

LEMMA TypedStep ==
  ASSUME Typed, PhaseInv, Turns
  PROVE  Typed'
  <1>1. ASSUME NEW r \in Slots, Turn(r) PROVE Typed'
    BY <1>1, TurnRests, TurnTables, TurnCounts, TurnNotes
       DEF Typed, ReqTyped, Acks, world
  <1>2. CASE Tick
    <2>1. clock' \in Times
      BY <1>2, Environment, RelayAssumption DEF Typed, Tick, Times, Scenario
    <2> QED
      BY <1>2, <2>1 DEF Tick, Typed, noted
  <1>3. CASE CrashTurn
    <2>1. 0 \in Times
      BY RelayAssumption DEF Times
    <2>2. /\ req' \in [Slots -> {Idle} \cup Requests]
          /\ former' \in [Daemons -> SUBSET Keys]
      BY <1>3 DEF CrashTurn
    <2>5. up' = FALSE
      BY <1>3, Zenon DEF CrashTurn
    <2>6. crashes' = crashes + 1 /\ crashes \in Nat /\ inner' \in Tables /\ prunedAt' = 0
      BY <1>3 DEF CrashTurn, Typed
    <2>7. up' \in BOOLEAN
      BY <2>5
    <2>3. up' \in BOOLEAN /\ crashes' \in Nat /\ inner' \in Tables /\ prunedAt' \in Times
      BY <2>1, <2>6, <2>7
    <2>4. UNCHANGED <<clock, scenario, store, pubs, accepted, spent, acked>>
      BY <1>3 DEF CrashTurn
    <2> QED
      BY <2>2, <2>3, <2>4 DEF Typed
  <1>4. CASE RestartTurn
    <2>1. 0 \in Times
      BY RelayAssumption DEF Times
    <2>2. acked' \in Acks
      BY <1>4, DisturbIs DEF RestartTurn, Typed, Acks
    <2> QED
      BY <1>4, <2>1, <2>2 DEF RestartTurn, Typed, Pruned, Acks
  <1>5. CASE UNCHANGED vars
    BY <1>5 DEF vars, Typed
  <1> QED
    BY <1>1, <1>2, <1>3, <1>4, <1>5 DEF Turns

LEMMA TypedInit ==
  ASSUME Init
  PROVE  Typed
  <1>1. scenario \in Scenario
    BY RelayAssumption DEF Init
  <1>2. inner \in Tables /\ store = inner
    BY <1>1, FreshIs DEF Init, Scenario
  <1>3. 0 \in Times
    BY RelayAssumption DEF Times
  <1> QED
    BY <1>2, <1>3, RelayAssumption DEF Init, Typed

-----------------------------------------------------------------------------
(***************************************************************************)
(* Pairing codes (SpentCodesAreGone).                                      *)
(***************************************************************************)

\* A step that publishes nothing, answers nothing and brings no entry back.
QuietAt(q) ==
  /\ Publishing(q)' => /\ Publishing(q)
                       /\ req'[q].reg = req[q].reg /\ req'[q].m = req[q].m
                       /\ req[q].pc = "show" => req'[q].pc = "show"
  /\ Resolving(q)' => /\ Resolving(q)
                      /\ req'[q].seen = req[q].seen /\ req'[q].m = req[q].m
                      /\ req[q].pc = "forget" => req'[q].pc = "forget"

Fewer(T, U) == \A c \in Codes : U.codes[c] \in {None, T.codes[c]}

QuietTables == UNCHANGED <<pubs, spent>> /\ Fewer(inner, inner') /\ Fewer(store, store')

LEMMA QuietKeeps ==
  ASSUME CodeInv, QuietTables, \A q \in Slots : QuietAt(q)
  PROVE  CodeInv'
  <1> USE DEF QuietTables
  <1>1. NotSpent(inner)' /\ NotSpent(store)'
    BY DEF CodeInv, NotSpent, Fewer
  <1>2. OnePlace(inner, inner)' /\ OnePlace(inner, store)' /\ OnePlace(store, store)'
    BY DEF CodeInv, OnePlace, Fewer
  <1>3. ASSUME NEW r \in Slots, Publishing(r)'
        PROVE  /\ req'[r].reg.pub \in (1 .. pubs) \ spent
               /\ \A c \in Codes : inner'.codes[c] # None =>
                    inner'.codes[c].pub # req'[r].reg.pub
               /\ \A c \in Codes : store'.codes[c] # None
                      /\ store'.codes[c].pub = req'[r].reg.pub
                    => req'[r].pc = "show" /\ c = req'[r].m.item
    BY <1>3 DEF CodeInv, QuietAt, Fewer
  <1>4. ASSUME NEW q \in Slots, Resolving(q)'
        PROVE  /\ req'[q].seen.pub \in 1 .. pubs
               /\ \A c \in Codes : inner'.codes[c] # None
                      /\ inner'.codes[c].pub = req'[q].seen.pub
                    => c = req'[q].m.item /\ req'[q].pc = "forget"
               /\ \A c \in Codes : store'.codes[c] # None
                      /\ store'.codes[c].pub = req'[q].seen.pub
                    => c = req'[q].m.item
    BY <1>4 DEF CodeInv, QuietAt, Fewer
  <1>5. ASSUME NEW r \in Slots, NEW q \in Slots, Publishing(r)'
        PROVE  /\ Publishing(q)' /\ r # q => req'[r].reg.pub # req'[q].reg.pub
               /\ Resolving(q)' => req'[r].reg.pub # req'[q].seen.pub
    BY <1>5 DEF CodeInv, QuietAt
  <1>6. spent' \subseteq 1 .. pubs'
    BY DEF CodeInv
  <1> QED
    BY <1>1, <1>2, <1>3, <1>4, <1>5, <1>6 DEF CodeInv

LEMMA SameQuiet ==
  ASSUME NEW q \in Slots, Same(q)
  PROVE  QuietAt(q)
  BY DEF Same, QuietAt, Publishing, Resolving, Live

\* The turns that are about a publication.
PublicTurn(r) ==
  \/ \E m \in scenario.msgs : \/ ArriveTurn(r, m) /\ m.kind = "publish"
                              \/ ResolveTurn(r, m)
  \/ SaveCodeTurn(r) \/ ShowTurn(r) \/ ForgetCodeTurn(r) \/ DeleteCodeTurn(r)

LEMMA QuietTurns ==
  ASSUME Typed, PhaseInv, NEW r \in Slots, Turn(r)
  PROVE  PublicTurn(r) \/ (QuietTables /\ QuietAt(r))
  <1>1. ASSUME NEW m \in scenario.msgs, ArriveTurn(r, m)
        PROVE  PublicTurn(r) \/ (QuietTables /\ QuietAt(r))
    <2>1. CASE m.kind = "publish"
      BY <1>1, <2>1 DEF PublicTurn
    <2>2. CASE m.kind # "publish"
      <3>1. QuietTables
        BY <1>1, <2>2 DEF ArriveTurn, QuietTables, Fewer, Pruned, MemoryPrune
      <3>2. PICK pc \in {"prune", Verify(m)} : req'[r].pc = pc /\ req'[r].m = m
        BY <1>1 DEF ArriveTurn, Enters
      <3>3. QuietAt(r)
        BY <2>2, <3>2 DEF QuietAt, Publishing, Resolving, Verify
      <3> QED
        BY <3>1, <3>3
    <2> QED
      BY <2>1, <2>2
  <1>2. ASSUME NEW m \in scenario.msgs, RegisterTurn(r, m)
        PROVE  PublicTurn(r) \/ (QuietTables /\ QuietAt(r))
    <2>1. QuietTables
      BY <1>2 DEF RegisterTurn, QuietTables, Fewer
    <2>2. req'[r].pc = "lookup" /\ req'[r].m = m /\ m.kind = "pair"
      BY <1>2 DEF RegisterTurn, Enters
    <2>3. QuietAt(r)
      BY <2>2 DEF QuietAt, Publishing, Resolving
    <2> QED
      BY <2>1, <2>3
  <1>3. ASSUME NEW m \in scenario.msgs, ResolveTurn(r, m)
        PROVE  PublicTurn(r) \/ (QuietTables /\ QuietAt(r))
    BY <1>3 DEF ResolveTurn, PublicTurn
  <1>4. CASE PruneTurn(r)
    <2>1. QuietTables
      BY <1>4 DEF PruneTurn, QuietTables, Fewer, SetsDaemon, SetsToken,
         SetsNonce, SetsCode, NonceEntered, Refreshes, Pruned, MemoryPrune,
         noted, Halts
    <2>2. Live(r)
      BY <1>4 DEF PruneTurn, Live
    <2>3. SoundKeys(req[r], clock) /\ SoundTokens(req[r], clock) /\ SoundCodes(req[r])
      BY <2>2, InProgress DEF Sound
    <2>4. QuietAt(r)
      BY <1>4, <2>2, <2>3 DEF PruneTurn, QuietAt, Publishing, Resolving, Live,
         Idle, Ends, Goes, Continues, Proceeds, Halts, Grows, SoundKeys,
         SoundTokens, SoundCodes, Signing, Registering, Binding, Showing,
         Verify
    <2> QED
      BY <2>1, <2>4
  <1>5. CASE CheckTurn(r)
    <2>1. QuietTables
      BY <1>5 DEF CheckTurn, QuietTables, Fewer, SetsDaemon, SetsToken,
         SetsNonce, SetsCode, NonceEntered, Refreshes, Pruned, MemoryPrune,
         noted, Halts
    <2>2. Live(r)
      BY <1>5 DEF CheckTurn, Live
    <2>3. SoundKeys(req[r], clock) /\ SoundTokens(req[r], clock) /\ SoundCodes(req[r])
      BY <2>2, InProgress DEF Sound
    <2>4. QuietAt(r)
      BY <1>5, <2>2, <2>3 DEF CheckTurn, QuietAt, Publishing, Resolving, Live,
         Idle, Ends, Goes, Continues, Proceeds, Halts, Grows, SoundKeys,
         SoundTokens, SoundCodes, Signing, Registering, Binding, Showing
    <2> QED
      BY <2>1, <2>4
  <1>6. CASE AdmitTurn(r)
    <2>1. QuietTables
      BY <1>6 DEF AdmitTurn, QuietTables, Fewer, SetsDaemon, SetsToken,
         SetsNonce, SetsCode, NonceEntered, Refreshes, Pruned, MemoryPrune,
         noted, Halts
    <2>2. Live(r)
      BY <1>6 DEF AdmitTurn, Live
    <2>3. SoundKeys(req[r], clock) /\ SoundTokens(req[r], clock) /\ SoundCodes(req[r])
      BY <2>2, InProgress DEF Sound
    <2>4. QuietAt(r)
      BY <1>6, <2>2, <2>3 DEF AdmitTurn, QuietAt, Publishing, Resolving, Live,
         Idle, Ends, Goes, Continues, Proceeds, Halts, Grows, SoundKeys,
         SoundTokens, SoundCodes, Signing, Registering, Binding, Showing
    <2> QED
      BY <2>1, <2>4
  <1>7. CASE RecordTurn(r)
    <2>1. QuietTables
      BY <1>7 DEF RecordTurn, QuietTables, Fewer, SetsDaemon, SetsToken,
         SetsNonce, SetsCode, NonceEntered, Refreshes, Pruned, MemoryPrune,
         noted, Halts
    <2>2. Live(r)
      BY <1>7 DEF RecordTurn, Live
    <2>3. SoundKeys(req[r], clock) /\ SoundTokens(req[r], clock) /\ SoundCodes(req[r])
      BY <2>2, InProgress DEF Sound
    <2>4. QuietAt(r)
      BY <1>7, <2>2, <2>3 DEF RecordTurn, QuietAt, Publishing, Resolving, Live,
         Idle, Ends, Goes, Continues, Proceeds, Halts, Grows, SoundKeys,
         SoundTokens, SoundCodes, Signing, Registering, Binding, Showing
    <2> QED
      BY <2>1, <2>4
  <1>8. CASE TouchTurn(r)
    <2>1. QuietTables
      BY <1>8 DEF TouchTurn, QuietTables, Fewer, SetsDaemon, SetsToken,
         SetsNonce, SetsCode, NonceEntered, Refreshes, Pruned, MemoryPrune,
         noted, Halts
    <2>2. Live(r)
      BY <1>8 DEF TouchTurn, Live
    <2>3. SoundKeys(req[r], clock) /\ SoundTokens(req[r], clock) /\ SoundCodes(req[r])
      BY <2>2, InProgress DEF Sound
    <2>5. req[r].m.kind \in {"pair", "prove", "token", "untoken", "push", "publish", "resolve"}
      BY <2>2, InProgress, MessageFields
    <2>4. QuietAt(r)
      BY <1>8, <2>2, <2>3, <2>5 DEF TouchTurn, QuietAt, Publishing, Resolving, Live,
         Idle, Ends, Goes, Continues, Proceeds, Halts, Grows, SoundKeys,
         SoundTokens, SoundCodes, Signing, Registering, Binding, Showing,
         Handler
    <2> QED
      BY <2>1, <2>4
  <1>9. CASE EnterProofTurn(r)
    <2>1. QuietTables
      BY <1>9 DEF EnterProofTurn, QuietTables, Fewer, SetsDaemon, SetsToken,
         SetsNonce, SetsCode, NonceEntered, Refreshes, Pruned, MemoryPrune,
         noted, Halts
    <2>2. Live(r)
      BY <1>9 DEF EnterProofTurn, Live
    <2>3. SoundKeys(req[r], clock) /\ SoundTokens(req[r], clock) /\ SoundCodes(req[r])
      BY <2>2, InProgress DEF Sound
    <2>4. QuietAt(r)
      BY <1>9, <2>2, <2>3 DEF EnterProofTurn, QuietAt, Publishing, Resolving,
         Live, Idle, Ends, Goes, Continues, Proceeds, Halts, Grows, SoundKeys,
         SoundTokens, SoundCodes, Signing, Registering, Binding, Showing
    <2> QED
      BY <2>1, <2>4
  <1>10. CASE RecordProofTurn(r)
    <2>1. QuietTables
      BY <1>10 DEF RecordProofTurn, QuietTables, Fewer, SetsDaemon, SetsToken,
         SetsNonce, SetsCode, NonceEntered, Refreshes, Pruned, MemoryPrune,
         noted, Halts
    <2>2. Live(r)
      BY <1>10 DEF RecordProofTurn, Live
    <2>3. SoundKeys(req[r], clock) /\ SoundTokens(req[r], clock) /\ SoundCodes(req[r])
      BY <2>2, InProgress DEF Sound
    <2>4. QuietAt(r)
      BY <1>10, <2>2, <2>3 DEF RecordProofTurn, QuietAt, Publishing, Resolving,
         Live, Idle, Ends, Goes, Continues, Proceeds, Halts, Grows, SoundKeys,
         SoundTokens, SoundCodes, Signing, Registering, Binding, Showing
    <2> QED
      BY <2>1, <2>4
  <1>11. CASE LookupTurn(r)
    <2>1. QuietTables
      BY <1>11 DEF LookupTurn, QuietTables, Fewer, SetsDaemon, SetsToken,
         SetsNonce, SetsCode, NonceEntered, Refreshes, Pruned, MemoryPrune,
         noted, Halts
    <2>2. Live(r)
      BY <1>11 DEF LookupTurn, Live
    <2>3. SoundKeys(req[r], clock) /\ SoundTokens(req[r], clock) /\ SoundCodes(req[r])
      BY <2>2, InProgress DEF Sound
    <2>4. QuietAt(r)
      BY <1>11, <2>2, <2>3 DEF LookupTurn, QuietAt, Publishing, Resolving, Live,
         Idle, Ends, Goes, Continues, Proceeds, Halts, Grows, SoundKeys,
         SoundTokens, SoundCodes, Signing, Registering, Binding, Showing
    <2> QED
      BY <2>1, <2>4
  <1>12. CASE CommitTurn(r)
    <2>1. QuietTables
      BY <1>12 DEF CommitTurn, QuietTables, Fewer, SetsDaemon, SetsToken,
         SetsNonce, SetsCode, NonceEntered, Refreshes, Pruned, MemoryPrune,
         noted, Halts
    <2>2. Live(r)
      BY <1>12 DEF CommitTurn, Live
    <2>3. SoundKeys(req[r], clock) /\ SoundTokens(req[r], clock) /\ SoundCodes(req[r])
      BY <2>2, InProgress DEF Sound
    <2>4. QuietAt(r)
      BY <1>12, <2>2, <2>3 DEF CommitTurn, QuietAt, Publishing, Resolving, Live,
         Idle, Ends, Goes, Continues, Proceeds, Halts, Grows, SoundKeys,
         SoundTokens, SoundCodes, Signing, Registering, Binding, Showing
    <2> QED
      BY <2>1, <2>4
  <1>13. CASE SaveTurn(r)
    <2>1. QuietTables
      BY <1>13 DEF SaveTurn, QuietTables, Fewer, SetsDaemon, SetsToken, SetsNonce,
         SetsCode, NonceEntered, Refreshes, Pruned, MemoryPrune, noted, Halts
    <2>2. Live(r)
      BY <1>13 DEF SaveTurn, Live
    <2>3. SoundKeys(req[r], clock) /\ SoundTokens(req[r], clock) /\ SoundCodes(req[r])
      BY <2>2, InProgress DEF Sound
    <2>4. QuietAt(r)
      BY <1>13, <2>2, <2>3 DEF SaveTurn, QuietAt, Publishing, Resolving, Live,
         Idle, Ends, Goes, Continues, Proceeds, Halts, Grows, SoundKeys,
         SoundTokens, SoundCodes, Signing, Registering, Binding, Showing
    <2> QED
      BY <2>1, <2>4
  <1>14. CASE UndoTurn(r)
    <2>1. QuietTables
      BY <1>14 DEF UndoTurn, QuietTables, Fewer, SetsDaemon, SetsToken, SetsNonce,
         SetsCode, NonceEntered, Refreshes, Pruned, MemoryPrune, noted, Halts
    <2>2. Live(r)
      BY <1>14 DEF UndoTurn, Live
    <2>3. SoundKeys(req[r], clock) /\ SoundTokens(req[r], clock) /\ SoundCodes(req[r])
      BY <2>2, InProgress DEF Sound
    <2>4. QuietAt(r)
      BY <1>14, <2>2, <2>3 DEF UndoTurn, QuietAt, Publishing, Resolving, Live,
         Idle, Ends, Goes, Continues, Proceeds, Halts, Grows, SoundKeys,
         SoundTokens, SoundCodes, Signing, Registering, Binding, Showing
    <2> QED
      BY <2>1, <2>4
  <1>15. CASE EvictTurn(r)
    <2>1. QuietTables
      BY <1>15 DEF EvictTurn, QuietTables, Fewer, SetsDaemon, SetsToken,
         SetsNonce, SetsCode, NonceEntered, Refreshes, Pruned, MemoryPrune,
         noted, Halts
    <2>2. Live(r)
      BY <1>15 DEF EvictTurn, Live
    <2>3. SoundKeys(req[r], clock) /\ SoundTokens(req[r], clock) /\ SoundCodes(req[r])
      BY <2>2, InProgress DEF Sound
    <2>4. QuietAt(r)
      BY <1>15, <2>2, <2>3 DEF EvictTurn, QuietAt, Publishing, Resolving, Live,
         Idle, Ends, Goes, Continues, Proceeds, Halts, Grows, SoundKeys,
         SoundTokens, SoundCodes, Signing, Registering, Binding, Showing
    <2> QED
      BY <2>1, <2>4
  <1>16. CASE RemoveTurn(r)
    <2>1. QuietTables
      BY <1>16 DEF RemoveTurn, QuietTables, Fewer, SetsDaemon, SetsToken,
         SetsNonce, SetsCode, NonceEntered, Refreshes, Pruned, MemoryPrune,
         noted, Halts
    <2>2. Live(r)
      BY <1>16 DEF RemoveTurn, Live
    <2>3. SoundKeys(req[r], clock) /\ SoundTokens(req[r], clock) /\ SoundCodes(req[r])
      BY <2>2, InProgress DEF Sound
    <2>4. QuietAt(r)
      BY <1>16, <2>2, <2>3 DEF RemoveTurn, QuietAt, Publishing, Resolving, Live,
         Idle, Ends, Goes, Continues, Proceeds, Halts, Grows, SoundKeys,
         SoundTokens, SoundCodes, Signing, Registering, Binding, Showing
    <2> QED
      BY <2>1, <2>4
  <1>17. CASE ForgetTurn(r)
    <2>1. QuietTables
      BY <1>17 DEF ForgetTurn, QuietTables, Fewer, SetsDaemon, SetsToken,
         SetsNonce, SetsCode, NonceEntered, Refreshes, Pruned, MemoryPrune,
         noted, Halts
    <2>2. Live(r)
      BY <1>17 DEF ForgetTurn, Live
    <2>3. SoundKeys(req[r], clock) /\ SoundTokens(req[r], clock) /\ SoundCodes(req[r])
      BY <2>2, InProgress DEF Sound
    <2>4. QuietAt(r)
      BY <1>17, <2>2, <2>3 DEF ForgetTurn, QuietAt, Publishing, Resolving, Live,
         Idle, Ends, Goes, Continues, Proceeds, Halts, Grows, SoundKeys,
         SoundTokens, SoundCodes, Signing, Registering, Binding, Showing
    <2> QED
      BY <2>1, <2>4
  <1>18. CASE BindTurn(r)
    <2>1. QuietTables
      BY <1>18 DEF BindTurn, QuietTables, Fewer, SetsDaemon, SetsToken, SetsNonce,
         SetsCode, NonceEntered, Refreshes, Pruned, MemoryPrune, noted, Halts
    <2>2. Live(r)
      BY <1>18 DEF BindTurn, Live
    <2>3. SoundKeys(req[r], clock) /\ SoundTokens(req[r], clock) /\ SoundCodes(req[r])
      BY <2>2, InProgress DEF Sound
    <2>4. QuietAt(r)
      BY <1>18, <2>2, <2>3 DEF BindTurn, QuietAt, Publishing, Resolving, Live,
         Idle, Ends, Goes, Continues, Proceeds, Halts, Grows, SoundKeys,
         SoundTokens, SoundCodes, Signing, Registering, Binding, Showing
    <2> QED
      BY <2>1, <2>4
  <1>19. CASE BoundTurn(r)
    <2>1. QuietTables
      BY <1>19 DEF BoundTurn, QuietTables, Fewer, SetsDaemon, SetsToken,
         SetsNonce, SetsCode, NonceEntered, Refreshes, Pruned, MemoryPrune,
         noted, Halts
    <2>2. Live(r)
      BY <1>19 DEF BoundTurn, Live
    <2>3. SoundKeys(req[r], clock) /\ SoundTokens(req[r], clock) /\ SoundCodes(req[r])
      BY <2>2, InProgress DEF Sound
    <2>4. QuietAt(r)
      BY <1>19, <2>2, <2>3 DEF BoundTurn, QuietAt, Publishing, Resolving, Live,
         Idle, Ends, Goes, Continues, Proceeds, Halts, Grows, SoundKeys,
         SoundTokens, SoundCodes, Signing, Registering, Binding, Showing
    <2> QED
      BY <2>1, <2>4
  <1>20. CASE LookupTokenTurn(r)
    <2>1. QuietTables
      BY <1>20 DEF LookupTokenTurn, QuietTables, Fewer, SetsDaemon, SetsToken,
         SetsNonce, SetsCode, NonceEntered, Refreshes, Pruned, MemoryPrune,
         noted, Halts
    <2>2. Live(r)
      BY <1>20 DEF LookupTokenTurn, Live
    <2>3. SoundKeys(req[r], clock) /\ SoundTokens(req[r], clock) /\ SoundCodes(req[r])
      BY <2>2, InProgress DEF Sound
    <2>4. QuietAt(r)
      BY <1>20, <2>2, <2>3 DEF LookupTokenTurn, QuietAt, Publishing, Resolving,
         Live, Idle, Ends, Goes, Continues, Proceeds, Halts, Grows, SoundKeys,
         SoundTokens, SoundCodes, Signing, Registering, Binding, Showing
    <2> QED
      BY <2>1, <2>4
  <1>21. CASE DeliverTurn(r)
    <2>1. QuietTables
      BY <1>21 DEF DeliverTurn, QuietTables, Fewer, SetsDaemon, SetsToken,
         SetsNonce, SetsCode, NonceEntered, Refreshes, Pruned, MemoryPrune,
         noted, Halts
    <2>2. Live(r)
      BY <1>21 DEF DeliverTurn, Live
    <2>3. SoundKeys(req[r], clock) /\ SoundTokens(req[r], clock) /\ SoundCodes(req[r])
      BY <2>2, InProgress DEF Sound
    <2>4. QuietAt(r)
      BY <1>21, <2>2, <2>3 DEF DeliverTurn, QuietAt, Publishing, Resolving, Live,
         Idle, Ends, Goes, Continues, Proceeds, Halts, Grows, SoundKeys,
         SoundTokens, SoundCodes, Signing, Registering, Binding, Showing
    <2> QED
      BY <2>1, <2>4
  <1>22. CASE TouchTokenTurn(r)
    <2>1. QuietTables
      BY <1>22 DEF TouchTokenTurn, QuietTables, Fewer, SetsDaemon, SetsToken,
         SetsNonce, SetsCode, NonceEntered, Refreshes, Pruned, MemoryPrune,
         noted, Halts
    <2>2. Live(r)
      BY <1>22 DEF TouchTokenTurn, Live
    <2>3. SoundKeys(req[r], clock) /\ SoundTokens(req[r], clock) /\ SoundCodes(req[r])
      BY <2>2, InProgress DEF Sound
    <2>4. QuietAt(r)
      BY <1>22, <2>2, <2>3 DEF TouchTokenTurn, QuietAt, Publishing, Resolving,
         Live, Idle, Ends, Goes, Continues, Proceeds, Halts, Grows, SoundKeys,
         SoundTokens, SoundCodes, Signing, Registering, Binding, Showing
    <2> QED
      BY <2>1, <2>4
  <1>23. CASE TouchBindingTurn(r)
    <2>1. QuietTables
      BY <1>23 DEF TouchBindingTurn, QuietTables, Fewer, SetsDaemon, SetsToken,
         SetsNonce, SetsCode, NonceEntered, Refreshes, Pruned, MemoryPrune,
         noted, Halts
    <2>2. Live(r)
      BY <1>23 DEF TouchBindingTurn, Live
    <2>3. SoundKeys(req[r], clock) /\ SoundTokens(req[r], clock) /\ SoundCodes(req[r])
      BY <2>2, InProgress DEF Sound
    <2>4. QuietAt(r)
      BY <1>23, <2>2, <2>3 DEF TouchBindingTurn, QuietAt, Publishing, Resolving,
         Live, Idle, Ends, Goes, Continues, Proceeds, Halts, Grows, SoundKeys,
         SoundTokens, SoundCodes, Signing, Registering, Binding, Showing
    <2> QED
      BY <2>1, <2>4
  <1>24. CASE EvictCodesTurn(r)
    <2>1. QuietTables
      BY <1>24 DEF EvictCodesTurn, QuietTables, Fewer, SetsDaemon, SetsToken,
         SetsNonce, SetsCode, NonceEntered, Refreshes, Pruned, MemoryPrune,
         noted, Halts
    <2>2. Live(r)
      BY <1>24 DEF EvictCodesTurn, Live
    <2>3. SoundKeys(req[r], clock) /\ SoundTokens(req[r], clock) /\ SoundCodes(req[r])
      BY <2>2, InProgress DEF Sound
    <2>4. QuietAt(r)
      BY <1>24, <2>2, <2>3 DEF EvictCodesTurn, QuietAt, Publishing, Resolving,
         Live, Idle, Ends, Goes, Continues, Proceeds, Halts, Grows, SoundKeys,
         SoundTokens, SoundCodes, Signing, Registering, Binding, Showing
    <2> QED
      BY <2>1, <2>4
  <1>25. CASE SupersedeTurn(r)
    <2>1. QuietTables
      BY <1>25 DEF SupersedeTurn, QuietTables, Fewer, SetsDaemon, SetsToken,
         SetsNonce, SetsCode, NonceEntered, Refreshes, Pruned, MemoryPrune,
         noted, Halts
    <2>2. Live(r)
      BY <1>25 DEF SupersedeTurn, Live
    <2>3. SoundKeys(req[r], clock) /\ SoundTokens(req[r], clock) /\ SoundCodes(req[r])
      BY <2>2, InProgress DEF Sound
    <2>4. QuietAt(r)
      BY <1>25, <2>2, <2>3 DEF SupersedeTurn, QuietAt, Publishing, Resolving,
         Live, Idle, Ends, Goes, Continues, Proceeds, Halts, Grows, SoundKeys,
         SoundTokens, SoundCodes, Signing, Registering, Binding, Showing
    <2> QED
      BY <2>1, <2>4
  <1>26. CASE \/ SaveCodeTurn(r) \/ ShowTurn(r) \/ ForgetCodeTurn(r)
             \/ DeleteCodeTurn(r)
    BY <1>26 DEF SaveCodeTurn, ShowTurn, ForgetCodeTurn, DeleteCodeTurn,
       PublicTurn
  <1>27. CASE DropTurn(r)
    <2>1. QuietTables
      BY <1>27 DEF DropTurn, QuietTables, Fewer, SetsDaemon, SetsToken, SetsNonce,
         SetsCode, NonceEntered, Refreshes, Pruned, MemoryPrune, noted, Halts
    <2>2. Live(r)
      BY <1>27 DEF DropTurn, Live
    <2>3. SoundKeys(req[r], clock) /\ SoundTokens(req[r], clock) /\ SoundCodes(req[r])
      BY <2>2, InProgress DEF Sound
    <2>4. QuietAt(r)
      BY <1>27, <2>2, <2>3 DEF DropTurn, QuietAt, Publishing, Resolving, Live,
         Idle, Ends, Goes, Continues, Proceeds, Halts, Grows, SoundKeys,
         SoundTokens, SoundCodes, Signing, Registering, Binding, Showing, Same
    <2> QED
      BY <2>1, <2>4
  <1> QED
    BY <1>1, <1>2, <1>3, <1>4, <1>5, <1>6, <1>7, <1>8, <1>9, <1>10, <1>11,
       <1>12, <1>13, <1>14, <1>15, <1>16, <1>17, <1>18, <1>19, <1>20, <1>21,
       <1>22, <1>23, <1>24, <1>25, <1>26, <1>27 DEF Turn

\* A new publication is unlike every other.
LEMMA PublishKeeps ==
  ASSUME Typed, PhaseInv, CodeInv, NEW r \in Slots, NEW m \in scenario.msgs,
         ArriveTurn(r, m), m.kind = "publish"
  PROVE  CodeInv'
  <1>1. /\ pubs' = pubs + 1 /\ pubs \in Nat /\ UNCHANGED <<store, spent>>
        /\ Fewer(inner, inner') /\ ~Live(r) /\ \A q \in Slots \ {r} : Same(q)
    BY DEF ArriveTurn, Typed, Enters, Claims, Fewer, MemoryPrune, Pruned
  <1>2. /\ req'[r].reg.pub = pubs + 1 /\ ~Resolving(r)' /\ req'[r].pc # "show"
    <2>1. PICK pc \in {"prune", Verify(m)} : req'[r].pc = pc /\ req'[r].reg = Published(m)
      BY DEF ArriveTurn, Enters
    <2> QED
      BY <2>1 DEF Verify, Published, Resolving
  <1>3. \A q \in Slots \ {r} : QuietAt(q)
    BY <1>1, SameQuiet
  <1>4. \A q \in Slots : /\ Publishing(q) => req[q].reg.pub \in 1 .. pubs
                         /\ Resolving(q) => req[q].seen.pub \in 1 .. pubs
    BY DEF CodeInv
  <1>5. \A c \in Codes : /\ inner.codes[c] # None => inner.codes[c].pub \in 1 .. pubs
                         /\ store.codes[c] # None => store.codes[c].pub \in 1 .. pubs
    BY DEF CodeInv, NotSpent
  <1>6. 1 .. pubs \subseteq 1 .. pubs' /\ pubs + 1 \in (1 .. pubs') \ (1 .. pubs)
    BY <1>1
  <1>7. spent' \subseteq 1 .. pubs /\ spent' = spent
    BY <1>1 DEF CodeInv
  <1>8. NotSpent(inner)' /\ NotSpent(store)'
    BY <1>1, <1>6 DEF CodeInv, NotSpent, Fewer
  <1>9. OnePlace(inner, inner)' /\ OnePlace(inner, store)' /\ OnePlace(store, store)'
    BY <1>1 DEF CodeInv, OnePlace, Fewer
  <1>10. ASSUME NEW p \in Slots, Publishing(p)'
         PROVE  /\ req'[p].reg.pub \in (1 .. pubs') \ spent'
                /\ \A c \in Codes : inner'.codes[c] # None =>
                     inner'.codes[c].pub # req'[p].reg.pub
                /\ \A c \in Codes : store'.codes[c] # None
                       /\ store'.codes[c].pub = req'[p].reg.pub
                     => req'[p].pc = "show" /\ c = req'[p].m.item
    <2>1. CASE p = r
      BY <1>1, <1>2, <1>5, <1>6, <1>7, <2>1 DEF Fewer
    <2>2. CASE p # r
      BY <1>1, <1>3, <1>6, <1>7, <1>10, <2>2 DEF CodeInv, QuietAt, Fewer
    <2> QED
      BY <2>1, <2>2
  <1>11. ASSUME NEW p \in Slots, NEW q \in Slots, Publishing(p)'
         PROVE  /\ Publishing(q)' /\ p # q => req'[p].reg.pub # req'[q].reg.pub
                /\ Resolving(q)' => req'[p].reg.pub # req'[q].seen.pub
    <2>1. CASE p = r \/ q = r
      BY <1>2, <1>3, <1>4, <1>6, <1>11, <2>1 DEF QuietAt
    <2>2. CASE p # r /\ q # r
      BY <1>3, <1>11, <2>2 DEF CodeInv, QuietAt
    <2> QED
      BY <2>1, <2>2
  <1>12. ASSUME NEW q \in Slots, Resolving(q)'
         PROVE  /\ req'[q].seen.pub \in 1 .. pubs'
                /\ \A c \in Codes : inner'.codes[c] # None
                       /\ inner'.codes[c].pub = req'[q].seen.pub
                     => c = req'[q].m.item /\ req'[q].pc = "forget"
                /\ \A c \in Codes : store'.codes[c] # None
                       /\ store'.codes[c].pub = req'[q].seen.pub
                     => c = req'[q].m.item
    <2>1. q # r
      BY <1>2, <1>12
    <2> QED
      BY <1>1, <1>3, <1>6, <1>12, <2>1 DEF CodeInv, QuietAt, Fewer
  <1> QED
    BY <1>6, <1>7, <1>8, <1>9, <1>10, <1>11, <1>12 DEF CodeInv

LEMMA ResolveKeeps ==
  ASSUME Typed, PhaseInv, CodeInv, NEW r \in Slots, NEW m \in scenario.msgs,
         ResolveTurn(r, m)
  PROVE  CodeInv'
  <1>1. /\ UNCHANGED <<pubs, spent>> /\ Fewer(inner, inner') /\ Fewer(store, store')
        /\ \A q \in Slots \ {r} : Same(q)
        /\ m.item \in Codes /\ inner.codes[m.item] # None
    BY DEF ResolveTurn, noted, Fewer, SetsCode, Enters, Claims
  <1>2. req'[r].m = m /\ m.kind = "resolve"
    BY DEF ResolveTurn, Enters
  <1>3. \A q \in Slots \ {r} : QuietAt(q)
    BY <1>1, SameQuiet
  <1>4. ~Publishing(r)'
    BY <1>2 DEF Publishing
  <1>5. Resolving(r)' => /\ req'[r].seen = inner.codes[m.item] /\ req'[r].pc = "forget"
                         /\ UNCHANGED inner
    BY DEF ResolveTurn, Enters, Resolving
  <1>6. NotSpent(inner)' /\ NotSpent(store)'
    BY <1>1 DEF CodeInv, NotSpent, Fewer
  <1>7. OnePlace(inner, inner)' /\ OnePlace(inner, store)' /\ OnePlace(store, store)'
    BY <1>1 DEF CodeInv, OnePlace, Fewer
  <1>8. ASSUME NEW p \in Slots, Publishing(p)'
        PROVE  /\ req'[p].reg.pub \in (1 .. pubs) \ spent
               /\ \A c \in Codes : inner'.codes[c] # None =>
                    inner'.codes[c].pub # req'[p].reg.pub
               /\ \A c \in Codes : store'.codes[c] # None
                      /\ store'.codes[c].pub = req'[p].reg.pub
                    => req'[p].pc = "show" /\ c = req'[p].m.item
    <2>1. p # r
      BY <1>4, <1>8
    <2> QED
      BY <1>1, <1>3, <1>8, <2>1 DEF CodeInv, QuietAt, Fewer
  <1>9. ASSUME NEW q \in Slots, Resolving(q)'
        PROVE  /\ req'[q].seen.pub \in 1 .. pubs
               /\ \A c \in Codes : inner'.codes[c] # None
                      /\ inner'.codes[c].pub = req'[q].seen.pub
                    => c = req'[q].m.item /\ req'[q].pc = "forget"
               /\ \A c \in Codes : store'.codes[c] # None
                      /\ store'.codes[c].pub = req'[q].seen.pub
                    => c = req'[q].m.item
    <2>1. CASE q = r
      BY <1>1, <1>2, <1>5, <1>9, <2>1 DEF CodeInv, NotSpent, OnePlace, Fewer
    <2>2. CASE q # r
      BY <1>1, <1>3, <1>9, <2>2 DEF CodeInv, QuietAt, Fewer
    <2> QED
      BY <2>1, <2>2
  <1>10. ASSUME NEW p \in Slots, NEW q \in Slots, Publishing(p)'
         PROVE  /\ Publishing(q)' /\ p # q => req'[p].reg.pub # req'[q].reg.pub
                /\ Resolving(q)' => req'[p].reg.pub # req'[q].seen.pub
    <2>1. p # r /\ Publishing(p) /\ req'[p].reg = req[p].reg
      BY <1>3, <1>4, <1>10 DEF QuietAt
    <2>2. CASE q = r
      BY <1>1, <1>4, <1>5, <2>1, <2>2 DEF CodeInv
    <2>3. CASE q # r
      BY <1>3, <2>1, <2>3 DEF CodeInv, QuietAt
    <2> QED
      BY <2>2, <2>3
  <1> QED
    BY <1>1, <1>6, <1>7, <1>8, <1>9, <1>10 DEF CodeInv

LEMMA SaveCodeKeeps ==
  ASSUME Typed, PhaseInv, CodeInv, NEW r \in Slots, SaveCodeTurn(r)
  PROVE  CodeInv'
  <1> DEFINE t == req[r].m.item
             k == req[r].reg
  <1>1. /\ UNCHANGED <<pubs, spent, inner>> /\ \A o \in Slots \ {r} : Same(o)
        /\ req[r].pc = "savecode"
    BY DEF SaveCodeTurn, noted, Halts, Proceeds, Ends, Continues, Goes, Rests, Same
  <1>2. Publishing(r) /\ t \in Codes /\ k \in PairingCodeEntry /\ k # None /\ ~Resolving(r)
    <2>1. Live(r)
      BY <1>1 DEF Live
    <2> QED
      BY <1>1, <2>1, InProgress, EnteredCode, RelayAssumption
         DEF Publishing, Resolving, Sound, SoundCodes, Showing
  <1>3. QuietAt(r) /\ ~Resolving(r)'
    BY <1>1, <1>2 DEF SaveCodeTurn, QuietAt, Publishing, Resolving, Halts, Proceeds,
                      Ends, Continues, Goes, Idle, Live
  <1>4. \A o \in Slots : QuietAt(o)
    BY <1>1, <1>3, SameQuiet
  <1>5. CASE UNCHANGED store
    <2>1. QuietTables
      BY <1>1, <1>5 DEF QuietTables, Fewer
    <2> QED
      BY <1>4, <2>1, QuietKeeps
  <1>6. CASE ~UNCHANGED store
    <2>1. /\ store'.codes[t] = k /\ \A c \in Codes \ {t} : store'.codes[c] = store.codes[c]
          /\ Publishing(r)' => req'[r].pc = "show" /\ req'[r].reg = k /\ req'[r].m.item = t
      BY <1>6 DEF SaveCodeTurn, Halts, Proceeds, Ends, Continues, Goes, SetsCode,
                  Publishing, Live, Idle
    <2>2. /\ k.pub \in (1 .. pubs) \ spent
          /\ \A c \in Codes : inner.codes[c] # None => inner.codes[c].pub # k.pub
          /\ \A c \in Codes : store.codes[c] # None => store.codes[c].pub # k.pub
          /\ \A p \in Slots \ {r} : Publishing(p) => req[p].reg.pub # k.pub
          /\ \A p \in Slots : Resolving(p) => req[p].seen.pub # k.pub
      BY <1>1, <1>2 DEF CodeInv
    <2>3. NotSpent(inner)' /\ NotSpent(store)'
      BY <1>1, <2>1, <2>2 DEF CodeInv, NotSpent
    <2>4. OnePlace(inner, inner)' /\ OnePlace(inner, store)' /\ OnePlace(store, store)'
      BY <1>1, <2>1, <2>2 DEF CodeInv, OnePlace
    <2>5. ASSUME NEW p \in Slots, Publishing(p)'
          PROVE  /\ req'[p].reg.pub \in (1 .. pubs) \ spent
                 /\ \A c \in Codes : inner'.codes[c] # None =>
                      inner'.codes[c].pub # req'[p].reg.pub
                 /\ \A c \in Codes : store'.codes[c] # None
                        /\ store'.codes[c].pub = req'[p].reg.pub
                      => req'[p].pc = "show" /\ c = req'[p].m.item
      <3>1. CASE p = r
        BY <1>1, <2>1, <2>2, <2>5, <3>1
      <3>2. CASE p # r
        BY <1>1, <1>4, <2>1, <2>2, <2>5, <3>2 DEF CodeInv, QuietAt
      <3> QED
        BY <3>1, <3>2
    <2>6. ASSUME NEW q \in Slots, Resolving(q)'
          PROVE  /\ req'[q].seen.pub \in 1 .. pubs
                 /\ \A c \in Codes : inner'.codes[c] # None
                        /\ inner'.codes[c].pub = req'[q].seen.pub
                      => c = req'[q].m.item /\ req'[q].pc = "forget"
                 /\ \A c \in Codes : store'.codes[c] # None
                        /\ store'.codes[c].pub = req'[q].seen.pub
                      => c = req'[q].m.item
      BY <1>1, <1>4, <2>1, <2>2, <2>6 DEF CodeInv, QuietAt
    <2>7. ASSUME NEW p \in Slots, NEW q \in Slots, Publishing(p)'
          PROVE  /\ Publishing(q)' /\ p # q => req'[p].reg.pub # req'[q].reg.pub
                 /\ Resolving(q)' => req'[p].reg.pub # req'[q].seen.pub
      BY <1>4, <2>7 DEF CodeInv, QuietAt
    <2> QED
      BY <1>1, <2>3, <2>4, <2>5, <2>6, <2>7 DEF CodeInv
  <1> QED
    BY <1>5, <1>6

LEMMA ShowKeeps ==
  ASSUME Typed, PhaseInv, CodeInv, NEW r \in Slots, ShowTurn(r)
  PROVE  CodeInv'
  <1> DEFINE t == req[r].m.item
             k == req[r].reg
  <1>1. /\ UNCHANGED <<pubs, spent, store>> /\ \A o \in Slots \ {r} : QuietAt(o)
        /\ req[r].pc = "show"
    BY SameQuiet, RestsSame DEF ShowTurn, noted, Ends
  <1>2. Publishing(r) /\ t \in Codes /\ k \in PairingCodeEntry /\ k # None
    <2>1. Live(r)
      BY <1>1 DEF Live
    <2> QED
      BY <1>1, <2>1, InProgress, EnteredCode, RelayAssumption
         DEF Publishing, Sound, SoundCodes, Showing
  <1>3. ~Publishing(r)' /\ ~Resolving(r)'
    BY DEF ShowTurn, Publishing, Resolving, Ends, Idle, Live
  <1>4. inner'.codes[t] = k /\ \A c \in Codes \ {t} : inner'.codes[c] = inner.codes[c]
    BY DEF ShowTurn, SetsCode
  <1>5. /\ k.pub \in (1 .. pubs) \ spent
        /\ \A c \in Codes : inner.codes[c] # None => inner.codes[c].pub # k.pub
        /\ \A c \in Codes : store.codes[c] # None /\ store.codes[c].pub = k.pub => c = t
        /\ \A p \in Slots \ {r} : Publishing(p) => req[p].reg.pub # k.pub
        /\ \A p \in Slots : Resolving(p) => req[p].seen.pub # k.pub
    BY <1>2 DEF CodeInv
  <1>6. NotSpent(inner)' /\ NotSpent(store)'
    BY <1>1, <1>4, <1>5 DEF CodeInv, NotSpent
  <1>7. OnePlace(inner, inner)' /\ OnePlace(inner, store)' /\ OnePlace(store, store)'
    BY <1>1, <1>4, <1>5 DEF CodeInv, OnePlace
  <1>8. ASSUME NEW p \in Slots, Publishing(p)'
        PROVE  /\ req'[p].reg.pub \in (1 .. pubs) \ spent
               /\ \A c \in Codes : inner'.codes[c] # None =>
                    inner'.codes[c].pub # req'[p].reg.pub
               /\ \A c \in Codes : store'.codes[c] # None
                      /\ store'.codes[c].pub = req'[p].reg.pub
                    => req'[p].pc = "show" /\ c = req'[p].m.item
    <2>1. p # r
      BY <1>3, <1>8
    <2> QED
      BY <1>1, <1>4, <1>5, <1>8, <2>1 DEF CodeInv, QuietAt
  <1>9. ASSUME NEW q \in Slots, Resolving(q)'
        PROVE  /\ req'[q].seen.pub \in 1 .. pubs
               /\ \A c \in Codes : inner'.codes[c] # None
                      /\ inner'.codes[c].pub = req'[q].seen.pub
                    => c = req'[q].m.item /\ req'[q].pc = "forget"
               /\ \A c \in Codes : store'.codes[c] # None
                      /\ store'.codes[c].pub = req'[q].seen.pub
                    => c = req'[q].m.item
    <2>1. q # r
      BY <1>3, <1>9
    <2> QED
      BY <1>1, <1>4, <1>5, <1>9, <2>1 DEF CodeInv, QuietAt
  <1>10. ASSUME NEW p \in Slots, NEW q \in Slots, Publishing(p)'
         PROVE  /\ Publishing(q)' /\ p # q => req'[p].reg.pub # req'[q].reg.pub
                /\ Resolving(q)' => req'[p].reg.pub # req'[q].seen.pub
    BY <1>1, <1>3, <1>10 DEF CodeInv, QuietAt
  <1> QED
    BY <1>1, <1>6, <1>7, <1>8, <1>9, <1>10 DEF CodeInv

\* A code that is forgotten: no table in memory has its publication.
LEMMA ForgetKeeps ==
  ASSUME Typed, PhaseInv, CodeInv, NEW r \in Slots, ForgetCodeTurn(r)
  PROVE  CodeInv'
  <1> DEFINE t == req[r].m.item
  <1>1. /\ UNCHANGED <<pubs, spent, store>> /\ \A o \in Slots \ {r} : QuietAt(o)
        /\ Fewer(inner, inner') /\ inner'.codes[t] = None
    <2>1. \A o \in Slots \ {r} : Same(o)
      BY RestsSame DEF ForgetCodeTurn, Continues, Goes
    <2> QED
      BY <2>1, SameQuiet DEF ForgetCodeTurn, noted, SetsCode, Fewer
  <1>2. /\ req'[r].seen = req[r].seen /\ req'[r].m = req[r].m /\ req'[r].pc = "delete"
        /\ req[r].pc = "forget" /\ Live(r)
    BY DEF ForgetCodeTurn, Continues, Goes, Live
  <1>3. ~Publishing(r)' /\ (Resolving(r)' => Resolving(r))
    BY <1>2, InProgress DEF Sound, SoundCodes, Publishing, Resolving
  <1>4. NotSpent(inner)' /\ NotSpent(store)'
    BY <1>1 DEF CodeInv, NotSpent, Fewer
  <1>5. OnePlace(inner, inner)' /\ OnePlace(inner, store)' /\ OnePlace(store, store)'
    BY <1>1 DEF CodeInv, OnePlace, Fewer
  <1>6. ASSUME NEW p \in Slots, Publishing(p)'
        PROVE  /\ req'[p].reg.pub \in (1 .. pubs) \ spent
               /\ \A c \in Codes : inner'.codes[c] # None =>
                    inner'.codes[c].pub # req'[p].reg.pub
               /\ \A c \in Codes : store'.codes[c] # None
                      /\ store'.codes[c].pub = req'[p].reg.pub
                    => req'[p].pc = "show" /\ c = req'[p].m.item
    <2>1. p # r
      BY <1>3, <1>6
    <2> QED
      BY <1>1, <1>6, <2>1 DEF CodeInv, QuietAt, Fewer
  <1>7. ASSUME NEW q \in Slots, Resolving(q)'
        PROVE  /\ req'[q].seen.pub \in 1 .. pubs
               /\ \A c \in Codes : inner'.codes[c] # None
                      /\ inner'.codes[c].pub = req'[q].seen.pub
                    => c = req'[q].m.item /\ req'[q].pc = "forget"
               /\ \A c \in Codes : store'.codes[c] # None
                      /\ store'.codes[c].pub = req'[q].seen.pub
                    => c = req'[q].m.item
    <2>1. CASE q = r
      BY <1>1, <1>2, <1>3, <1>7, <2>1 DEF CodeInv, Fewer
    <2>2. CASE q # r
      BY <1>1, <1>7, <2>2 DEF CodeInv, QuietAt, Fewer
    <2> QED
      BY <2>1, <2>2
  <1>8. ASSUME NEW p \in Slots, NEW q \in Slots, Publishing(p)'
        PROVE  /\ Publishing(q)' /\ p # q => req'[p].reg.pub # req'[q].reg.pub
               /\ Resolving(q)' => req'[p].reg.pub # req'[q].seen.pub
    <2>1. p # r /\ Publishing(p) /\ req'[p].reg = req[p].reg
      BY <1>1, <1>3, <1>8 DEF QuietAt
    <2>2. CASE q = r
      BY <1>2, <1>3, <2>1, <2>2 DEF CodeInv
    <2>3. CASE q # r
      BY <1>1, <2>1, <2>3 DEF CodeInv, QuietAt
    <2> QED
      BY <2>2, <2>3
  <1> QED
    BY <1>1, <1>4, <1>5, <1>6, <1>7, <1>8 DEF CodeInv

\* A code that is answered: its row goes, and nothing else has its publication.
LEMMA DeleteKeeps ==
  ASSUME Typed, PhaseInv, CodeInv, NEW r \in Slots, DeleteCodeTurn(r)
  PROVE  CodeInv'
  <1> DEFINE t == req[r].m.item
             k == req[r].seen
  <1>1. /\ UNCHANGED <<pubs, inner>> /\ \A o \in Slots \ {r} : Same(o)
        /\ ~Publishing(r)' /\ ~Resolving(r)' /\ req[r].pc = "delete"
    BY RestsSame DEF DeleteCodeTurn, Ends, Publishing, Resolving, Idle, Live
  <1>2. Fewer(store, store')
    BY DEF DeleteCodeTurn, SetsCode, Fewer
  <1>3. \A o \in Slots : QuietAt(o)
    BY <1>1, SameQuiet DEF QuietAt
  <1>4. CASE UNCHANGED spent
    <2>1. QuietTables
      BY <1>1, <1>2, <1>4 DEF QuietTables, Fewer
    <2> QED
      BY <1>3, <2>1, QuietKeeps
  <1>5. CASE ~UNCHANGED spent
    <2>1. /\ k # None /\ spent' = spent \cup {k.pub} /\ store'.codes[t] = None
      BY <1>5 DEF DeleteCodeTurn, SetsCode
    <2>2. Resolving(r)
      BY <1>1, <2>1 DEF Resolving
    <2>3. /\ k.pub \in 1 .. pubs
          /\ \A c \in Codes : inner.codes[c] # None => inner.codes[c].pub # k.pub
          /\ \A c \in Codes : store.codes[c] # None /\ store.codes[c].pub = k.pub => c = t
          /\ \A p \in Slots : Publishing(p) => req[p].reg.pub # k.pub
      BY <1>1, <2>2 DEF CodeInv
    <2>4. NotSpent(inner)' /\ NotSpent(store)'
      BY <1>1, <1>2, <2>1, <2>3 DEF CodeInv, NotSpent, Fewer
    <2>5. OnePlace(inner, inner)' /\ OnePlace(inner, store)' /\ OnePlace(store, store)'
      BY <1>1, <1>2 DEF CodeInv, OnePlace, Fewer
    <2>6. ASSUME NEW p \in Slots, Publishing(p)'
          PROVE  /\ req'[p].reg.pub \in (1 .. pubs) \ spent'
                 /\ \A c \in Codes : inner'.codes[c] # None =>
                      inner'.codes[c].pub # req'[p].reg.pub
                 /\ \A c \in Codes : store'.codes[c] # None
                        /\ store'.codes[c].pub = req'[p].reg.pub
                      => req'[p].pc = "show" /\ c = req'[p].m.item
      BY <1>1, <1>2, <1>3, <2>1, <2>3, <2>6 DEF CodeInv, QuietAt, Fewer
    <2>7. ASSUME NEW q \in Slots, Resolving(q)'
          PROVE  /\ req'[q].seen.pub \in 1 .. pubs
                 /\ \A c \in Codes : inner'.codes[c] # None
                        /\ inner'.codes[c].pub = req'[q].seen.pub
                      => c = req'[q].m.item /\ req'[q].pc = "forget"
                 /\ \A c \in Codes : store'.codes[c] # None
                        /\ store'.codes[c].pub = req'[q].seen.pub
                      => c = req'[q].m.item
      BY <1>1, <1>2, <1>3, <2>7 DEF CodeInv, QuietAt, Fewer
    <2>8. ASSUME NEW p \in Slots, NEW q \in Slots, Publishing(p)'
          PROVE  /\ Publishing(q)' /\ p # q => req'[p].reg.pub # req'[q].reg.pub
                 /\ Resolving(q)' => req'[p].reg.pub # req'[q].seen.pub
      BY <1>3, <2>8 DEF CodeInv, QuietAt
    <2>9. spent' \subseteq 1 .. pubs
      BY <2>1, <2>3 DEF CodeInv
    <2> QED
      BY <1>1, <2>4, <2>5, <2>6, <2>7, <2>8, <2>9 DEF CodeInv
  <1> QED
    BY <1>4, <1>5

LEMMA CodeStep ==
  ASSUME Typed, PhaseInv, CodeInv, Turns
  PROVE  CodeInv'
  <1>1. ASSUME NEW r \in Slots, Turn(r) PROVE CodeInv'
    <2>1. CASE PublicTurn(r)
      BY <2>1, PublishKeeps, ResolveKeeps, SaveCodeKeeps, ShowKeeps, ForgetKeeps,
         DeleteKeeps DEF PublicTurn
    <2>2. CASE QuietTables /\ QuietAt(r)
      <3>1. \A q \in Slots : QuietAt(q)
        BY <1>1, <2>2, TurnRests, SameQuiet
      <3> QED
        BY <2>2, <3>1, QuietKeeps
    <2> QED
      BY <1>1, <2>1, <2>2, QuietTurns
  <1>2. CASE Tick
    <2>1. QuietTables /\ \A q \in Slots : QuietAt(q)
      BY <1>2 DEF Tick, noted, QuietTables, Fewer, QuietAt, Publishing, Resolving, Live
    <2> QED
      BY <2>1, QuietKeeps
  <1>3. CASE CrashTurn
    <2>1. QuietTables
      BY <1>3 DEF CrashTurn, QuietTables, Fewer
    <2>2. \A q \in Slots : QuietAt(q)
      BY <1>3 DEF CrashTurn, QuietAt, Publishing, Resolving, Live, Idle
    <2> QED
      BY <2>1, <2>2, QuietKeeps
  <1>4. CASE RestartTurn
    <2>1. /\ Fewer(store, store') /\ inner' = store' /\ UNCHANGED <<pubs, spent>>
      BY <1>4 DEF RestartTurn, Pruned, Fewer
    <2>2. \A q \in Slots : ~Publishing(q)' /\ ~Resolving(q)'
      BY <1>4 DEF RestartTurn, PhaseInv, Publishing, Resolving, Live
    <2>3. NotSpent(inner)' /\ NotSpent(store)'
      BY <2>1 DEF CodeInv, NotSpent, Fewer
    <2>4. OnePlace(inner, inner)' /\ OnePlace(inner, store)' /\ OnePlace(store, store)'
      BY <2>1 DEF CodeInv, OnePlace, Fewer
    <2> QED
      BY <2>1, <2>2, <2>3, <2>4 DEF CodeInv
  <1>5. CASE UNCHANGED vars
    <2>1. QuietTables /\ \A q \in Slots : QuietAt(q)
      BY <1>5 DEF vars, QuietTables, Fewer, QuietAt, Publishing, Resolving, Live
    <2> QED
      BY <2>1, QuietKeeps
  <1> QED
    BY <1>1, <1>2, <1>3, <1>4, <1>5 DEF Turns

LEMMA CodeInit ==
  ASSUME Init
  PROVE  CodeInv
  <1>1. scenario \in Scenario
    BY RelayAssumption DEF Init
  <1>2. /\ \A c \in Codes : inner.codes[c] = None /\ store.codes[c] = None
        /\ \A q \in Slots : ~Publishing(q) /\ ~Resolving(q) /\ spent = {}
    BY <1>1, FreshIs DEF Init, Scenario, Publishing, Resolving, Live, Idle
  <1> QED
    BY <1>2 DEF CodeInv, NotSpent, OnePlace, Init

-----------------------------------------------------------------------------
(***************************************************************************)
(* Registered keys (KeyHandoverIfNotReturned).                             *)
(***************************************************************************)

\* A registered key stays, or has given way.
KeysFlow ==
  \A d \in Daemons :
    /\ former[d] \subseteq former'[d]
    /\ inner.daemons[d] # None /\ KeyOf(inner'.daemons[d]) # inner.daemons[d].key
       => inner.daemons[d].key \in former'[d]

\* What a request holds, or has checked, it had before or got from the registry.
HoldsAt(q) ==
  LET k == req[q]
      l == req'[q]
  IN /\ l.pc = "undo" => k.pc = "undo" \/ scenario.fails
     /\ Holding(l) =>
          \/ Holding(k) /\ l.m = k.m /\ l.seen = k.seen
          \/ l.m.d \in Daemons /\ inner.daemons[l.m.d] # None /\ l.seen = inner.daemons[l.m.d]
     /\ Checked(l) =>
          \/ Checked(k) /\ l.m = k.m /\ l.seen = k.seen
          \/ /\ Holding(k) /\ l.m = k.m /\ l.seen = k.seen
             /\ KeyOf(inner.daemons[k.m.d]) = k.m.sig
          \/ l.seen.key = l.m.new

LEMMA HoldingKeys ==
  ASSUME Typed, PhaseInv, NEW q \in Slots, Holding(req[q])
  PROVE  /\ Live(q) /\ req[q].m.d \in Daemons
         /\ req[q].seen \in DaemonRegistration /\ req[q].seen.key \in Keys
  <1>1. Live(q)
    BY DEF Holding, Live, Signing
  <1>2. req[q].seen \in DaemonRegistration /\ req[q].m.d \in Daemons
    BY <1>1, InProgress, MessageFields DEF Holding, Sound, SoundKeys
  <1> QED
    BY <1>1, <1>2 DEF DaemonRegistration

LEMMA KeysKeep ==
  ASSUME Typed, PhaseInv, KeyInv, KeysFlow, UNCHANGED scenario,
         \A q \in Slots : HoldsAt(q)
  PROVE  KeyInv'
  <1> SUFFICES ASSUME ~scenario.fails, NEW q \in Slots
               PROVE  LET l == req'[q]
                      IN /\ l.pc # "undo"
                         /\ Holding(l) => \/ KeyOf(inner'.daemons[l.m.d]) = l.seen.key
                                          \/ l.seen.key \in former'[l.m.d]
                         /\ Checked(l) => \/ l.seen.key \in {l.m.new, l.m.sig}
                                          \/ l.seen.key \in former'[l.m.d]
    BY DEF KeyInv
  <1> DEFINE k == req[q]
             l == req'[q]
  <1>1. HoldsAt(q)
    OBVIOUS
  <1>2. /\ k.pc # "undo"
        /\ Holding(k) => \/ KeyOf(inner.daemons[k.m.d]) = k.seen.key
                         \/ k.seen.key \in former[k.m.d]
        /\ Checked(k) => \/ k.seen.key \in {k.m.new, k.m.sig}
                         \/ k.seen.key \in former[k.m.d]
    BY DEF KeyInv
  <1>3. Checked(k) => Holding(k)
    BY DEF Checked, Holding, Signing
  <1>4. Holding(k) => k.m.d \in Daemons /\ k.seen.key \in Keys
    BY HoldingKeys
  <1>5. \A d \in Daemons : inner.daemons[d] # None =>
          KeyOf(inner.daemons[d]) = inner.daemons[d].key
    BY DEF KeyOf
  <1>6. \A d \in Daemons : inner.daemons[d] = None => KeyOf(inner.daemons[d]) \notin Keys
    BY RelayAssumption DEF KeyOf
  <1> HIDE DEF k, l
  <1>7. l.pc # "undo"
    BY <1>1, <1>2 DEF HoldsAt, k, l
  <1>8. Holding(l) => \/ KeyOf(inner'.daemons[l.m.d]) = l.seen.key
                      \/ l.seen.key \in former'[l.m.d]
    <2>1. CASE Holding(k) /\ l.m = k.m /\ l.seen = k.seen
      BY <1>2, <1>4, <1>5, <1>6, <2>1 DEF KeysFlow
    <2>2. CASE l.m.d \in Daemons /\ inner.daemons[l.m.d] # None
               /\ l.seen = inner.daemons[l.m.d]
      BY <2>2 DEF KeysFlow
    <2> QED
      BY <1>1, <2>1, <2>2 DEF HoldsAt, k, l
  <1>9. Checked(l) => l.seen.key \in {l.m.new, l.m.sig} \/ l.seen.key \in former'[l.m.d]
    <2>1. CASE Checked(k) /\ l.m = k.m /\ l.seen = k.seen
      BY <1>2, <1>3, <1>4, <2>1 DEF KeysFlow
    <2>2. CASE /\ Holding(k) /\ l.m = k.m /\ l.seen = k.seen
               /\ KeyOf(inner.daemons[k.m.d]) = k.m.sig
      BY <1>2, <1>4, <2>2 DEF KeysFlow
    <2>3. CASE l.seen.key = l.m.new
      BY <2>3
    <2> QED
      BY <1>1, <2>1, <2>2, <2>3 DEF HoldsAt, k, l
  <1> QED
    BY <1>7, <1>8, <1>9 DEF l

LEMMA SameHolds ==
  ASSUME NEW q \in Slots, Same(q)
  PROVE  HoldsAt(q)
  BY DEF Same, HoldsAt, Holding, Checked, Live, Signing

LEMMA KeepsKeysFlow ==
  ASSUME UNCHANGED former, \A d \in Daemons : inner.daemons[d] # None =>
           KeyOf(inner'.daemons[d]) = inner.daemons[d].key
  PROVE  KeysFlow
  BY DEF KeysFlow

LEMMA GivesKeysFlow ==
  ASSUME Typed, KeysGive
  PROVE  KeysFlow
  BY KeysGiveIs DEF KeysFlow

LEMMA FlowTurns ==
  ASSUME Typed, PhaseInv, NEW r \in Slots, Turn(r)
  PROVE  KeysFlow
  <1>1. ASSUME NEW m \in scenario.msgs, ArriveTurn(r, m)
        PROVE  KeysFlow
    BY <1>1, GivesKeysFlow DEF ArriveTurn
  <1>2. ASSUME NEW m \in scenario.msgs, RegisterTurn(r, m)
        PROVE  KeysFlow
    <2>1. UNCHANGED former /\ inner'.daemons = inner.daemons
      BY <1>2 DEF RegisterTurn, noted, SetsToken, SetsNonce, SetsCode,
         NonceEntered, Refreshes
    <2> QED
      BY <2>1, KeepsKeysFlow DEF KeyOf
  <1>3. ASSUME NEW m \in scenario.msgs, ResolveTurn(r, m)
        PROVE  KeysFlow
    <2>1. UNCHANGED former /\ inner'.daemons = inner.daemons
      BY <1>3 DEF ResolveTurn, noted, SetsToken, SetsNonce, SetsCode,
         NonceEntered, Refreshes
    <2> QED
      BY <2>1, KeepsKeysFlow DEF KeyOf
  <1>4. CASE \/ PruneTurn(r) \/ CheckTurn(r) \/ AdmitTurn(r)
            \/ SaveTurn(r) \/ EvictTurn(r) \/ BindTurn(r)
    <2>1. UNCHANGED former /\ inner'.daemons = inner.daemons
      BY <1>4 DEF PruneTurn, CheckTurn, AdmitTurn, SaveTurn, EvictTurn,
         BindTurn, noted, SetsToken, SetsNonce, SetsCode, NonceEntered,
         Refreshes
    <2> QED
      BY <2>1, KeepsKeysFlow DEF KeyOf
  <1>5. CASE \/ RecordTurn(r) \/ EnterProofTurn(r) \/ RecordProofTurn(r)
            \/ RemoveTurn(r) \/ ForgetTurn(r) \/ LookupTokenTurn(r)
    <2>1. UNCHANGED former /\ inner'.daemons = inner.daemons
      BY <1>5 DEF RecordTurn, EnterProofTurn, RecordProofTurn, RemoveTurn,
         ForgetTurn, LookupTokenTurn, noted, SetsToken, SetsNonce, SetsCode,
         NonceEntered, Refreshes
    <2> QED
      BY <2>1, KeepsKeysFlow DEF KeyOf
  <1>6. CASE TouchTurn(r)
    <2>1. UNCHANGED former
      BY <1>6 DEF TouchTurn
    <2>2. req[r].m.d \in Daemons
      BY <1>6, InProgress, MessageFields DEF TouchTurn, Live
    <2>3. \A d \in Daemons : inner.daemons[d] # None =>
            KeyOf(inner'.daemons[d]) = inner.daemons[d].key
      BY <1>6, <2>2, RelayAssumption DEF TouchTurn, SetsDaemon, KeyOf
    <2> QED
      BY <2>1, <2>3, KeepsKeysFlow
  <1>7. CASE LookupTurn(r) \/ CommitTurn(r)
    <2>1. KeysGive \/ UNCHANGED <<inner, former>>
      BY <1>7 DEF LookupTurn, CommitTurn
    <2> QED
      BY <2>1, GivesKeysFlow, KeepsKeysFlow DEF KeyOf
  <1>8. CASE UndoTurn(r)
    BY <1>8, GivesKeysFlow DEF UndoTurn
  <1>9. CASE BoundTurn(r) \/ ShowTurn(r) \/ DropTurn(r)
    <2>1. UNCHANGED former /\ inner'.daemons = inner.daemons
      BY <1>9 DEF BoundTurn, ShowTurn, DropTurn, noted, SetsToken, SetsNonce,
         SetsCode, NonceEntered, Refreshes
    <2> QED
      BY <2>1, KeepsKeysFlow DEF KeyOf
  <1>10. CASE \/ DeliverTurn(r) \/ TouchTokenTurn(r) \/ TouchBindingTurn(r)
             \/ EvictCodesTurn(r) \/ SupersedeTurn(r) \/ SaveCodeTurn(r)
    <2>1. UNCHANGED former /\ inner'.daemons = inner.daemons
      BY <1>10 DEF DeliverTurn, TouchTokenTurn, TouchBindingTurn,
         EvictCodesTurn, SupersedeTurn, SaveCodeTurn, noted, SetsToken,
         SetsNonce, SetsCode, NonceEntered, Refreshes
    <2> QED
      BY <2>1, KeepsKeysFlow DEF KeyOf
  <1>11. CASE ForgetCodeTurn(r) \/ DeleteCodeTurn(r)
    <2>1. UNCHANGED former /\ inner'.daemons = inner.daemons
      BY <1>11 DEF ForgetCodeTurn, DeleteCodeTurn, noted, SetsToken,
         SetsNonce, SetsCode, NonceEntered, Refreshes
    <2> QED
      BY <2>1, KeepsKeysFlow DEF KeyOf
  <1> QED
    BY <1>1, <1>2, <1>3, <1>4, <1>5, <1>6, <1>7, <1>8, <1>9, <1>10, <1>11 DEF
       Turn

LEMMA HoldTurns ==
  ASSUME Typed, PhaseInv, NEW r \in Slots, Turn(r)
  PROVE  HoldsAt(r)
  <1>1. ASSUME NEW m \in scenario.msgs, ArriveTurn(r, m)
        PROVE  HoldsAt(r)
    <2>1. req'[r].seen = None /\ req'[r].pc \in {"prune", Verify(m)}
      BY <1>1 DEF ArriveTurn, Enters
    <2> QED
      BY <2>1 DEF HoldsAt, Holding, Checked, Verify, Signing
  <1>2. ASSUME NEW m \in scenario.msgs, RegisterTurn(r, m)
        PROVE  HoldsAt(r)
    <2>1. req'[r].pc = "lookup"
      BY <1>2 DEF RegisterTurn, Enters
    <2> QED
      BY <2>1 DEF HoldsAt, Holding, Checked, Signing
  <1>3. ASSUME NEW m \in scenario.msgs, ResolveTurn(r, m)
        PROVE  HoldsAt(r)
    <2>1. req'[r].pc \in {"delete", "forget"}
      BY <1>3 DEF ResolveTurn, Enters
    <2> QED
      BY <2>1 DEF HoldsAt, Holding, Checked, Signing
  <1>4. CASE PruneTurn(r)
    <2>1. Live(r)
      BY <1>4 DEF PruneTurn, Live
    <2>2. SoundKeys(req[r], clock) /\ SoundTokens(req[r], clock) /\ SoundCodes(req[r])
          /\ req[r].m \in Message
      BY <2>1, InProgress DEF Sound
    <2> QED
      BY <1>4, <2>1, <2>2, MessageFields DEF PruneTurn, HoldsAt, Holding,
         Checked, Live, Idle, Ends, Goes, Continues, Proceeds, Halts, Grows,
         SoundKeys, SoundTokens, SoundCodes, Signing, Registering, Binding,
         Showing, Verify
  <1>5. CASE CheckTurn(r)
    <2>1. Live(r)
      BY <1>5 DEF CheckTurn, Live
    <2>2. SoundKeys(req[r], clock) /\ SoundTokens(req[r], clock) /\ SoundCodes(req[r])
          /\ req[r].m \in Message
      BY <2>1, InProgress DEF Sound
    <2> QED
      BY <1>5, <2>1, <2>2, MessageFields DEF CheckTurn, HoldsAt, Holding,
         Checked, Live, Idle, Ends, Goes, Continues, Proceeds, Halts, Grows,
         SoundKeys, SoundTokens, SoundCodes, Signing, Registering, Binding,
         Showing, KeyOf
  <1>6. CASE AdmitTurn(r)
    <2>1. Live(r)
      BY <1>6 DEF AdmitTurn, Live
    <2>2. SoundKeys(req[r], clock) /\ SoundTokens(req[r], clock) /\ SoundCodes(req[r])
          /\ req[r].m \in Message
      BY <2>1, InProgress DEF Sound
    <2> QED
      BY <1>6, <2>1, <2>2, MessageFields DEF AdmitTurn, HoldsAt, Holding,
         Checked, Live, Idle, Ends, Goes, Continues, Proceeds, Halts, Grows,
         SoundKeys, SoundTokens, SoundCodes, Signing, Registering, Binding,
         Showing
  <1>7. CASE RecordTurn(r)
    <2>1. Live(r)
      BY <1>7 DEF RecordTurn, Live
    <2>2. SoundKeys(req[r], clock) /\ SoundTokens(req[r], clock) /\ SoundCodes(req[r])
          /\ req[r].m \in Message
      BY <2>1, InProgress DEF Sound
    <2> QED
      BY <1>7, <2>1, <2>2, MessageFields DEF RecordTurn, HoldsAt, Holding,
         Checked, Live, Idle, Ends, Goes, Continues, Proceeds, Halts, Grows,
         SoundKeys, SoundTokens, SoundCodes, Signing, Registering, Binding,
         Showing
  <1>8. CASE TouchTurn(r)
    <2>1. Live(r)
      BY <1>8 DEF TouchTurn, Live
    <2>2. SoundKeys(req[r], clock) /\ SoundTokens(req[r], clock) /\ SoundCodes(req[r])
          /\ req[r].m \in Message
      BY <2>1, InProgress DEF Sound
    <2> QED
      BY <1>8, <2>1, <2>2, MessageFields DEF TouchTurn, HoldsAt, Holding,
         Checked, Live, Idle, Ends, Goes, Continues, Proceeds, Halts, Grows,
         SoundKeys, SoundTokens, SoundCodes, Signing, Registering, Binding,
         Showing, Handler
  <1>9. CASE EnterProofTurn(r)
    <2>1. Live(r)
      BY <1>9 DEF EnterProofTurn, Live
    <2>2. SoundKeys(req[r], clock) /\ SoundTokens(req[r], clock) /\ SoundCodes(req[r])
          /\ req[r].m \in Message
      BY <2>1, InProgress DEF Sound
    <2> QED
      BY <1>9, <2>1, <2>2, MessageFields DEF EnterProofTurn, HoldsAt, Holding,
         Checked, Live, Idle, Ends, Goes, Continues, Proceeds, Halts, Grows,
         SoundKeys, SoundTokens, SoundCodes, Signing, Registering, Binding,
         Showing
  <1>10. CASE RecordProofTurn(r)
    <2>1. Live(r)
      BY <1>10 DEF RecordProofTurn, Live
    <2>2. SoundKeys(req[r], clock) /\ SoundTokens(req[r], clock) /\ SoundCodes(req[r])
          /\ req[r].m \in Message
      BY <2>1, InProgress DEF Sound
    <2> QED
      BY <1>10, <2>1, <2>2, MessageFields DEF RecordProofTurn, HoldsAt, Holding,
         Checked, Live, Idle, Ends, Goes, Continues, Proceeds, Halts, Grows,
         SoundKeys, SoundTokens, SoundCodes, Signing, Registering, Binding,
         Showing
  <1>11. CASE LookupTurn(r)
    <2>1. Live(r)
      BY <1>11 DEF LookupTurn, Live
    <2>2. req[r].m.d \in Daemons
      BY <2>1, InProgress, MessageFields
    <2> DEFINE l == req'[r]
               reg == inner.daemons[req[r].m.d]
    <2>3. \/ l.pc = "idle"
          \/ /\ l.m = req[r].m /\ l.seen = reg
             /\ \/ l.pc = "commit" /\ (reg = None \/ reg.key = l.m.new)
                \/ l.pc \in {"prune", "key"} /\ reg # None
      BY <1>11 DEF LookupTurn, Ends, Goes, Idle
    <2> HIDE DEF l
    <2>4. /\ Holding(l) => l.m = req[r].m /\ l.seen = reg /\ reg # None
          /\ Checked(l) => l.seen.key = l.m.new
          /\ l.pc # "undo"
      BY <2>3 DEF Holding, Checked, Signing
    <2> QED
      BY <2>2, <2>4 DEF HoldsAt, l
  <1>12. CASE CommitTurn(r)
    <2>1. Live(r)
      BY <1>12 DEF CommitTurn, Live
    <2>2. SoundKeys(req[r], clock) /\ SoundTokens(req[r], clock) /\ SoundCodes(req[r])
          /\ req[r].m \in Message
      BY <2>1, InProgress DEF Sound
    <2> QED
      BY <1>12, <2>1, <2>2, MessageFields DEF CommitTurn, HoldsAt, Holding,
         Checked, Live, Idle, Ends, Goes, Continues, Proceeds, Halts, Grows,
         SoundKeys, SoundTokens, SoundCodes, Signing, Registering, Binding,
         Showing
  <1>13. CASE SaveTurn(r)
    <2>1. Live(r)
      BY <1>13 DEF SaveTurn, Live
    <2>2. SoundKeys(req[r], clock) /\ SoundTokens(req[r], clock) /\ SoundCodes(req[r])
          /\ req[r].m \in Message
      BY <2>1, InProgress DEF Sound
    <2> QED
      BY <1>13, <2>1, <2>2, MessageFields DEF SaveTurn, HoldsAt, Holding, Checked,
         Live, Idle, Ends, Goes, Continues, Proceeds, Halts, Grows, SoundKeys,
         SoundTokens, SoundCodes, Signing, Registering, Binding, Showing
  <1>14. CASE UndoTurn(r)
    <2>1. Live(r)
      BY <1>14 DEF UndoTurn, Live
    <2>2. SoundKeys(req[r], clock) /\ SoundTokens(req[r], clock) /\ SoundCodes(req[r])
          /\ req[r].m \in Message
      BY <2>1, InProgress DEF Sound
    <2> QED
      BY <1>14, <2>1, <2>2, MessageFields DEF UndoTurn, HoldsAt, Holding, Checked,
         Live, Idle, Ends, Goes, Continues, Proceeds, Halts, Grows, SoundKeys,
         SoundTokens, SoundCodes, Signing, Registering, Binding, Showing
  <1>15. CASE EvictTurn(r)
    <2>1. Live(r)
      BY <1>15 DEF EvictTurn, Live
    <2>2. SoundKeys(req[r], clock) /\ SoundTokens(req[r], clock) /\ SoundCodes(req[r])
          /\ req[r].m \in Message
      BY <2>1, InProgress DEF Sound
    <2> QED
      BY <1>15, <2>1, <2>2, MessageFields DEF EvictTurn, HoldsAt, Holding,
         Checked, Live, Idle, Ends, Goes, Continues, Proceeds, Halts, Grows,
         SoundKeys, SoundTokens, SoundCodes, Signing, Registering, Binding,
         Showing
  <1>16. CASE RemoveTurn(r)
    <2>1. Live(r)
      BY <1>16 DEF RemoveTurn, Live
    <2>2. SoundKeys(req[r], clock) /\ SoundTokens(req[r], clock) /\ SoundCodes(req[r])
          /\ req[r].m \in Message
      BY <2>1, InProgress DEF Sound
    <2> QED
      BY <1>16, <2>1, <2>2, MessageFields DEF RemoveTurn, HoldsAt, Holding,
         Checked, Live, Idle, Ends, Goes, Continues, Proceeds, Halts, Grows,
         SoundKeys, SoundTokens, SoundCodes, Signing, Registering, Binding,
         Showing
  <1>17. CASE ForgetTurn(r)
    <2>1. Live(r)
      BY <1>17 DEF ForgetTurn, Live
    <2>2. SoundKeys(req[r], clock) /\ SoundTokens(req[r], clock) /\ SoundCodes(req[r])
          /\ req[r].m \in Message
      BY <2>1, InProgress DEF Sound
    <2> QED
      BY <1>17, <2>1, <2>2, MessageFields DEF ForgetTurn, HoldsAt, Holding,
         Checked, Live, Idle, Ends, Goes, Continues, Proceeds, Halts, Grows,
         SoundKeys, SoundTokens, SoundCodes, Signing, Registering, Binding,
         Showing
  <1>18. CASE BindTurn(r)
    <2>1. Live(r)
      BY <1>18 DEF BindTurn, Live
    <2>2. SoundKeys(req[r], clock) /\ SoundTokens(req[r], clock) /\ SoundCodes(req[r])
          /\ req[r].m \in Message
      BY <2>1, InProgress DEF Sound
    <2> QED
      BY <1>18, <2>1, <2>2, MessageFields DEF BindTurn, HoldsAt, Holding, Checked,
         Live, Idle, Ends, Goes, Continues, Proceeds, Halts, Grows, SoundKeys,
         SoundTokens, SoundCodes, Signing, Registering, Binding, Showing
  <1>19. CASE BoundTurn(r)
    <2>1. Live(r)
      BY <1>19 DEF BoundTurn, Live
    <2>2. SoundKeys(req[r], clock) /\ SoundTokens(req[r], clock) /\ SoundCodes(req[r])
          /\ req[r].m \in Message
      BY <2>1, InProgress DEF Sound
    <2> QED
      BY <1>19, <2>1, <2>2, MessageFields DEF BoundTurn, HoldsAt, Holding,
         Checked, Live, Idle, Ends, Goes, Continues, Proceeds, Halts, Grows,
         SoundKeys, SoundTokens, SoundCodes, Signing, Registering, Binding,
         Showing
  <1>20. CASE LookupTokenTurn(r)
    <2>1. Live(r)
      BY <1>20 DEF LookupTokenTurn, Live
    <2>2. SoundKeys(req[r], clock) /\ SoundTokens(req[r], clock) /\ SoundCodes(req[r])
          /\ req[r].m \in Message
      BY <2>1, InProgress DEF Sound
    <2> QED
      BY <1>20, <2>1, <2>2, MessageFields DEF LookupTokenTurn, HoldsAt, Holding,
         Checked, Live, Idle, Ends, Goes, Continues, Proceeds, Halts, Grows,
         SoundKeys, SoundTokens, SoundCodes, Signing, Registering, Binding,
         Showing
  <1>21. CASE DeliverTurn(r)
    <2>1. Live(r)
      BY <1>21 DEF DeliverTurn, Live
    <2>2. SoundKeys(req[r], clock) /\ SoundTokens(req[r], clock) /\ SoundCodes(req[r])
          /\ req[r].m \in Message
      BY <2>1, InProgress DEF Sound
    <2> QED
      BY <1>21, <2>1, <2>2, MessageFields DEF DeliverTurn, HoldsAt, Holding,
         Checked, Live, Idle, Ends, Goes, Continues, Proceeds, Halts, Grows,
         SoundKeys, SoundTokens, SoundCodes, Signing, Registering, Binding,
         Showing
  <1>22. CASE TouchTokenTurn(r)
    <2>1. Live(r)
      BY <1>22 DEF TouchTokenTurn, Live
    <2>2. SoundKeys(req[r], clock) /\ SoundTokens(req[r], clock) /\ SoundCodes(req[r])
          /\ req[r].m \in Message
      BY <2>1, InProgress DEF Sound
    <2> QED
      BY <1>22, <2>1, <2>2, MessageFields DEF TouchTokenTurn, HoldsAt, Holding,
         Checked, Live, Idle, Ends, Goes, Continues, Proceeds, Halts, Grows,
         SoundKeys, SoundTokens, SoundCodes, Signing, Registering, Binding,
         Showing
  <1>23. CASE TouchBindingTurn(r)
    <2>1. Live(r)
      BY <1>23 DEF TouchBindingTurn, Live
    <2>2. SoundKeys(req[r], clock) /\ SoundTokens(req[r], clock) /\ SoundCodes(req[r])
          /\ req[r].m \in Message
      BY <2>1, InProgress DEF Sound
    <2> QED
      BY <1>23, <2>1, <2>2, MessageFields DEF TouchBindingTurn, HoldsAt, Holding,
         Checked, Live, Idle, Ends, Goes, Continues, Proceeds, Halts, Grows,
         SoundKeys, SoundTokens, SoundCodes, Signing, Registering, Binding,
         Showing
  <1>24. CASE EvictCodesTurn(r)
    <2>1. Live(r)
      BY <1>24 DEF EvictCodesTurn, Live
    <2>2. SoundKeys(req[r], clock) /\ SoundTokens(req[r], clock) /\ SoundCodes(req[r])
          /\ req[r].m \in Message
      BY <2>1, InProgress DEF Sound
    <2> QED
      BY <1>24, <2>1, <2>2, MessageFields DEF EvictCodesTurn, HoldsAt, Holding,
         Checked, Live, Idle, Ends, Goes, Continues, Proceeds, Halts, Grows,
         SoundKeys, SoundTokens, SoundCodes, Signing, Registering, Binding,
         Showing
  <1>25. CASE SupersedeTurn(r)
    <2>1. Live(r)
      BY <1>25 DEF SupersedeTurn, Live
    <2>2. SoundKeys(req[r], clock) /\ SoundTokens(req[r], clock) /\ SoundCodes(req[r])
          /\ req[r].m \in Message
      BY <2>1, InProgress DEF Sound
    <2> QED
      BY <1>25, <2>1, <2>2, MessageFields DEF SupersedeTurn, HoldsAt, Holding,
         Checked, Live, Idle, Ends, Goes, Continues, Proceeds, Halts, Grows,
         SoundKeys, SoundTokens, SoundCodes, Signing, Registering, Binding,
         Showing
  <1>26. CASE SaveCodeTurn(r)
    <2>1. Live(r)
      BY <1>26 DEF SaveCodeTurn, Live
    <2>2. SoundKeys(req[r], clock) /\ SoundTokens(req[r], clock) /\ SoundCodes(req[r])
          /\ req[r].m \in Message
      BY <2>1, InProgress DEF Sound
    <2> QED
      BY <1>26, <2>1, <2>2, MessageFields DEF SaveCodeTurn, HoldsAt, Holding,
         Checked, Live, Idle, Ends, Goes, Continues, Proceeds, Halts, Grows,
         SoundKeys, SoundTokens, SoundCodes, Signing, Registering, Binding,
         Showing
  <1>27. CASE ShowTurn(r)
    <2>1. Live(r)
      BY <1>27 DEF ShowTurn, Live
    <2>2. SoundKeys(req[r], clock) /\ SoundTokens(req[r], clock) /\ SoundCodes(req[r])
          /\ req[r].m \in Message
      BY <2>1, InProgress DEF Sound
    <2> QED
      BY <1>27, <2>1, <2>2, MessageFields DEF ShowTurn, HoldsAt, Holding, Checked,
         Live, Idle, Ends, Goes, Continues, Proceeds, Halts, Grows, SoundKeys,
         SoundTokens, SoundCodes, Signing, Registering, Binding, Showing
  <1>28. CASE ForgetCodeTurn(r)
    <2>1. Live(r)
      BY <1>28 DEF ForgetCodeTurn, Live
    <2>2. SoundKeys(req[r], clock) /\ SoundTokens(req[r], clock) /\ SoundCodes(req[r])
          /\ req[r].m \in Message
      BY <2>1, InProgress DEF Sound
    <2> QED
      BY <1>28, <2>1, <2>2, MessageFields DEF ForgetCodeTurn, HoldsAt, Holding,
         Checked, Live, Idle, Ends, Goes, Continues, Proceeds, Halts, Grows,
         SoundKeys, SoundTokens, SoundCodes, Signing, Registering, Binding,
         Showing
  <1>29. CASE DeleteCodeTurn(r)
    <2>1. Live(r)
      BY <1>29 DEF DeleteCodeTurn, Live
    <2>2. SoundKeys(req[r], clock) /\ SoundTokens(req[r], clock) /\ SoundCodes(req[r])
          /\ req[r].m \in Message
      BY <2>1, InProgress DEF Sound
    <2> QED
      BY <1>29, <2>1, <2>2, MessageFields DEF DeleteCodeTurn, HoldsAt, Holding,
         Checked, Live, Idle, Ends, Goes, Continues, Proceeds, Halts, Grows,
         SoundKeys, SoundTokens, SoundCodes, Signing, Registering, Binding,
         Showing
  <1>30. CASE DropTurn(r)
    <2>1. Live(r)
      BY <1>30 DEF DropTurn, Live
    <2>2. SoundKeys(req[r], clock) /\ SoundTokens(req[r], clock) /\ SoundCodes(req[r])
          /\ req[r].m \in Message
      BY <2>1, InProgress DEF Sound
    <2> QED
      BY <1>30, <2>1, <2>2, MessageFields DEF DropTurn, HoldsAt, Holding, Checked,
         Live, Idle, Ends, Goes, Continues, Proceeds, Halts, Grows, SoundKeys,
         SoundTokens, SoundCodes, Signing, Registering, Binding, Showing, Same
  <1> QED
    BY <1>1, <1>2, <1>3, <1>4, <1>5, <1>6, <1>7, <1>8, <1>9, <1>10, <1>11,
       <1>12, <1>13, <1>14, <1>15, <1>16, <1>17, <1>18, <1>19, <1>20, <1>21,
       <1>22, <1>23, <1>24, <1>25, <1>26, <1>27, <1>28, <1>29, <1>30 DEF Turn

LEMMA KeyStep ==
  ASSUME Typed, PhaseInv, KeyInv, Turns
  PROVE  KeyInv'
  <1>1. ASSUME NEW r \in Slots, Turn(r) PROVE KeyInv'
    <2>1. KeysFlow /\ UNCHANGED scenario
      BY <1>1, FlowTurns, TurnRests DEF world
    <2>2. \A q \in Slots : HoldsAt(q)
      BY <1>1, HoldTurns, TurnRests, SameHolds
    <2> QED
      BY <2>1, <2>2, KeysKeep
  <1>2. CASE Tick
    BY <1>2 DEF Tick, noted, KeyInv
  <1>3. CASE CrashTurn
    BY <1>3 DEF CrashTurn, KeyInv, Idle, Holding, Checked, Signing
  <1>4. CASE RestartTurn
    <2>1. \A q \in Slots : ~Live(q)
      BY <1>4 DEF RestartTurn, PhaseInv
    <2> QED
      BY <1>4, <2>1 DEF RestartTurn, KeyInv, Live, Holding, Checked, Signing
  <1>5. CASE UNCHANGED vars
    BY <1>5 DEF vars, KeyInv
  <1> QED
    BY <1>1, <1>2, <1>3, <1>4, <1>5 DEF Turns

LEMMA KeyInit ==
  ASSUME Init
  PROVE  KeyInv
  BY DEF Init, KeyInv, Idle, Holding, Checked, Signing

\* A key is replaced by nobody but a request that was to replace it.
LEMMA ReplaceTurns ==
  ASSUME Typed, PhaseInv, KeyInv, NEW r \in Slots, Turn(r)
  PROVE  ~scenario.fails => \A d \in Daemons : KeyReplaced(d) => CommitTurn(r)
  <1>1. ASSUME NEW m \in scenario.msgs, ArriveTurn(r, m)
        PROVE  ~scenario.fails => \A d \in Daemons : KeyReplaced(d) => CommitTurn(r)
    <2>1. \A d \in Daemons : inner'.daemons[d] \in {None, inner.daemons[d]}
      BY <1>1 DEF ArriveTurn, noted, SetsToken, SetsNonce, SetsCode,
         NonceEntered, Refreshes, Pruned, MemoryPrune
    <2> QED
      BY <2>1 DEF KeyReplaced
  <1>2. ASSUME NEW m \in scenario.msgs, RegisterTurn(r, m)
        PROVE  ~scenario.fails => \A d \in Daemons : KeyReplaced(d) => CommitTurn(r)
    <2>1. \A d \in Daemons : inner'.daemons[d] \in {None, inner.daemons[d]}
      BY <1>2 DEF RegisterTurn, noted, SetsToken, SetsNonce, SetsCode,
         NonceEntered, Refreshes, Pruned, MemoryPrune
    <2> QED
      BY <2>1 DEF KeyReplaced
  <1>3. ASSUME NEW m \in scenario.msgs, ResolveTurn(r, m)
        PROVE  ~scenario.fails => \A d \in Daemons : KeyReplaced(d) => CommitTurn(r)
    <2>1. \A d \in Daemons : inner'.daemons[d] \in {None, inner.daemons[d]}
      BY <1>3 DEF ResolveTurn, noted, SetsToken, SetsNonce, SetsCode,
         NonceEntered, Refreshes, Pruned, MemoryPrune
    <2> QED
      BY <2>1 DEF KeyReplaced
  <1>4. CASE \/ PruneTurn(r) \/ CheckTurn(r) \/ AdmitTurn(r)
            \/ SaveTurn(r) \/ EvictTurn(r) \/ BindTurn(r)
    <2>1. \A d \in Daemons : inner'.daemons[d] \in {None, inner.daemons[d]}
      BY <1>4 DEF PruneTurn, CheckTurn, AdmitTurn, SaveTurn, EvictTurn,
         BindTurn, noted, SetsToken, SetsNonce, SetsCode, NonceEntered,
         Refreshes, Pruned, MemoryPrune
    <2> QED
      BY <2>1 DEF KeyReplaced
  <1>5. CASE \/ RecordTurn(r) \/ EnterProofTurn(r) \/ RecordProofTurn(r)
            \/ LookupTurn(r) \/ RemoveTurn(r) \/ ForgetTurn(r)
    <2>1. \A d \in Daemons : inner'.daemons[d] \in {None, inner.daemons[d]}
      BY <1>5 DEF RecordTurn, EnterProofTurn, RecordProofTurn, LookupTurn,
         RemoveTurn, ForgetTurn, noted, SetsToken, SetsNonce, SetsCode,
         NonceEntered, Refreshes, Pruned, MemoryPrune
    <2> QED
      BY <2>1 DEF KeyReplaced
  <1>6. CASE TouchTurn(r)
    <2>1. req[r].m.d \in Daemons
      BY <1>6, InProgress, MessageFields DEF TouchTurn, Live
    <2> QED
      BY <1>6, <2>1 DEF TouchTurn, SetsDaemon, KeyReplaced
  <1>7. CASE CommitTurn(r)
    BY <1>7
  <1>8. CASE UndoTurn(r)
    BY <1>8 DEF UndoTurn, KeyInv
  <1>9. CASE BoundTurn(r) \/ ShowTurn(r) \/ DropTurn(r)
    <2>1. \A d \in Daemons : inner'.daemons[d] \in {None, inner.daemons[d]}
      BY <1>9 DEF BoundTurn, ShowTurn, DropTurn, noted, SetsToken, SetsNonce,
         SetsCode, NonceEntered, Refreshes, Pruned, MemoryPrune
    <2> QED
      BY <2>1 DEF KeyReplaced
  <1>10. CASE \/ LookupTokenTurn(r) \/ DeliverTurn(r) \/ TouchTokenTurn(r)
             \/ TouchBindingTurn(r) \/ EvictCodesTurn(r) \/ SupersedeTurn(r)
    <2>1. \A d \in Daemons : inner'.daemons[d] \in {None, inner.daemons[d]}
      BY <1>10 DEF LookupTokenTurn, DeliverTurn, TouchTokenTurn,
         TouchBindingTurn, EvictCodesTurn, SupersedeTurn, noted, SetsToken,
         SetsNonce, SetsCode, NonceEntered, Refreshes, Pruned, MemoryPrune
    <2> QED
      BY <2>1 DEF KeyReplaced
  <1>11. CASE SaveCodeTurn(r) \/ ForgetCodeTurn(r) \/ DeleteCodeTurn(r)
    <2>1. \A d \in Daemons : inner'.daemons[d] \in {None, inner.daemons[d]}
      BY <1>11 DEF SaveCodeTurn, ForgetCodeTurn, DeleteCodeTurn, noted,
         SetsToken, SetsNonce, SetsCode, NonceEntered, Refreshes, Pruned,
         MemoryPrune
    <2> QED
      BY <2>1 DEF KeyReplaced
  <1> QED
    BY <1>1, <1>2, <1>3, <1>4, <1>5, <1>6, <1>7, <1>8, <1>9, <1>10, <1>11 DEF
       Turn

LEMMA Replaces ==
  ASSUME Typed, PhaseInv, KeyInv, ~scenario.fails, NEW r \in Slots, CommitTurn(r),
         NEW d \in Daemons, KeyReplaced(d), inner.daemons[d].key \notin former[d]
  PROVE  Signed(d, r)
  <1> DEFINE q == req[r]
             e == q.m.d
  <1>1. /\ q.pc = "commit" /\ Live(r)
        /\ ~registration_key_changed(KeyOf(q.seen), KeyOf(inner.daemons[e]), q.m.new)
        /\ \E reg \in DaemonRegistration : reg.key = q.m.new /\ SetsDaemon(inner, inner', e, reg)
    BY DEF CommitTurn, KeyReplaced, Live
  <1>2. e \in Daemons /\ q # Idle /\ q.seen \in {None} \cup DaemonRegistration
    BY <1>1, InProgress, RequestFields, MessageFields DEF Sound, SoundKeys
  <1>3. e = d /\ inner'.daemons[d].key = q.m.new
    BY <1>1, <1>2 DEF KeyReplaced, SetsDaemon
  <1>4. /\ inner.daemons[d] \in DaemonRegistration /\ inner.daemons[d].key \in Keys
        /\ inner.daemons[d].key # q.m.new
    BY <1>3, TableFields DEF Typed, KeyReplaced, DaemonRegistration
  <1>5. KeyOf(inner.daemons[d]) = inner.daemons[d].key /\ inner.daemons[d].key # None
    BY <1>4, RelayAssumption DEF KeyOf
  <1>6. q.seen # None /\ inner.daemons[d].key = q.seen.key
    <2>1. q.seen = None => KeyOf(q.seen) = None
      BY DEF KeyOf
    <2>2. q.seen # None => KeyOf(q.seen) = q.seen.key /\ q.seen.key \in Keys
      BY <1>2 DEF KeyOf, DaemonRegistration
    <2>3. None \notin Keys
      BY RelayAssumption
    <2> QED
      BY <1>1, <1>3, <1>4, <1>5, <2>1, <2>2, <2>3 DEF registration_key_changed
  <1>7. q.seen.key \in {q.m.new, q.m.sig}
    BY <1>1, <1>3, <1>6 DEF KeyInv, Checked
  <1> QED
    BY <1>2, <1>3, <1>4, <1>6, <1>7 DEF Signed

LEMMA KeyProperty ==
  ASSUME Typed, PhaseInv, KeyInv, Turns
  PROVE  \A d \in Daemons :
           ~scenario.fails /\ up /\ up' /\ KeyReplaced(d)
              /\ inner.daemons[d].key \notin former[d] =>
           \E r \in Slots : Signed(d, r)
  <1> SUFFICES ASSUME NEW d \in Daemons, ~scenario.fails, up, up', KeyReplaced(d),
                      inner.daemons[d].key \notin former[d]
               PROVE  \E r \in Slots : Signed(d, r)
    OBVIOUS
  <1>1. CASE \E r \in Slots : Turn(r)
    <2>1. PICK r \in Slots : Turn(r)
      BY <1>1
    <2>2. CommitTurn(r)
      BY <2>1, ReplaceTurns
    <2> QED
      BY <2>2, Replaces
  <1>2. CASE Tick \/ UNCHANGED vars
    BY <1>2 DEF Tick, vars, KeyReplaced
  <1>3. CASE CrashTurn \/ RestartTurn
    BY <1>3 DEF CrashTurn, RestartTurn
  <1> QED
    BY <1>1, <1>2, <1>3 DEF Turns

-----------------------------------------------------------------------------
(***************************************************************************)
(* Replays (NoReplay), while daemons are kept long enough.                 *)
(***************************************************************************)

\* Every date in the tables and of the requests is a natural number.
LEMMA DatesAreNaturals ==
  ASSUME Typed
  PROVE  /\ clock \in Nat /\ Skew \in Nat /\ Retention \in Nat /\ Timeout \in Nat
         /\ TokenTTL \in Nat
         /\ \A d \in Daemons : store.daemons[d] # None => store.daemons[d].at \in Nat
         /\ \A d \in Daemons : inner.daemons[d] # None => inner.daemons[d].at \in Nat
         /\ \A t \in Tokens : store.tokens[t] # None => store.tokens[t].at \in Nat
         /\ \A t \in Tokens : inner.tokens[t] # None => inner.tokens[t].at \in Nat
         /\ \A r \in Slots : Live(r) => req[r].now \in Nat
         /\ \A m \in scenario.msgs : m.ts \in Nat /\ m.d \in Daemons
  <1>1. \A r \in Slots : Live(r) => req[r].now \in Nat
    BY LiveRequest, RequestFields DEF Times
  <1>2. \A m \in scenario.msgs : m.ts \in Nat /\ m.d \in Daemons
    <2> TAKE m \in scenario.msgs
    <2>1. m.d \in Daemons /\ m.ts \in Times
      BY Environment, MessageFields
    <2> QED
      BY <2>1, RelayAssumption DEF Times
  <1> QED
    BY <1>1, <1>2, TableFields, RelayAssumption
       DEF Typed, DaemonRegistration, TokenOwner, Times

\* A message's row is entered by the request that carries it.
Inserts(r, m) ==
  /\ req[r].pc = "record" /\ req[r].m = m /\ Row(m) = None /\ Row(m)' = m.ts
  /\ store'.daemons[m.d] # None => store'.daemons[m.d].at = req[r].now

\* What a turn does to the row of m, to the date of d, and to the acceptances.
RowMoves(r, m) == Row(m)' = Row(m) \/ (Row(m)' = None /\ ~Open(m)) \/ Inserts(r, m)
DateMoves(r, d) ==
  store'.daemons[d] # None =>
    \/ store.daemons[d] # None /\ store'.daemons[d].at = store.daemons[d].at
    \/ Live(r) /\ store'.daemons[d].at \in Nat /\ store'.daemons[d].at >= req[r].now
NowMoves(q) == Live(q)' => (Live(q) /\ req'[q].now = req[q].now) \/ req'[q].now = clock
VerifiedMoves(r, m) == Verified(r, m)' => Verified(r, m) \/ Inserts(r, m)
Accepts(r) ==
  \/ UNCHANGED accepted
  \/ \E o : /\ Repeatable(o) /\ Verified(r, o) /\ InWindow(clock, o.ts)
            /\ accepted' = [accepted EXCEPT ![o.nonce] = @ + 1]
            /\ req'[r].pc # "verified"

\* A prune takes the row of a message only when its window is over.
LEMMA PrunedRow ==
  ASSUME Typed, NonceInv, NEW m, Repeatable(m), NEW now \in Nat, now <= clock,
         NEW U, Pruned(store, U, now, Gone(store, now))
  PROVE  LET row == U.nonces[<<m.d, m.nonce>>]
         IN row = Row(m) \/ (row = None /\ ~Open(m))
  <1> DEFINE row == U.nonces[<<m.d, m.nonce>>]
             d == m.d
  <1>1. m \in scenario.msgs /\ m.nonce \in Nonces /\ d \in Daemons
    BY Environment, MessageFields DEF Repeatable
  <1>2. row = IF Row(m) # None /\ Row(m) + Skew >= now /\ d \notin Gone(store, now)
              THEN Row(m) ELSE None
    BY <1>1 DEF Pruned, Row
  <1>3. CASE Row(m) = None
    BY <1>2, <1>3
  <1>4. CASE Row(m) # None
    <2>1. /\ Row(m) = m.ts
          /\ store.daemons[d] # None => m.ts + Skew <= store.daemons[d].at + Retention
      BY <1>1, <1>4 DEF NonceInv, RowStays, Repeatable
    <2>2. d \in Gone(store, now) => store.daemons[d] # None
                                    /\ store.daemons[d].at < SaturatingSub(now, Retention)
      BY DEF Gone, Lapsed
    <2>3. d \in Gone(store, now) => store.daemons[d] # None
                                    /\ store.daemons[d].at + Retention < now
      BY <1>1, <2>2, DatesAreNaturals DEF SaturatingSub
    <2> QED
      BY <1>1, <1>2, <2>1, <2>3, DatesAreNaturals DEF Open
  <1> QED
    BY <1>3, <1>4

LEMMA RowTurns ==
  ASSUME Typed, PhaseInv, NonceInv, NEW m, Repeatable(m), NEW r \in Slots,
         Turn(r)
  PROVE  RowMoves(r, m)
  <1>1. ASSUME NEW o \in scenario.msgs, ArriveTurn(r, o)
        PROVE  RowMoves(r, m)
    <2>1. store'.nonces = store.nonces
      BY <1>1 DEF ArriveTurn, Halts, SetsDaemon, SetsToken, SetsCode, Refreshes
    <2> QED
      BY <2>1 DEF RowMoves, Row
  <1>2. ASSUME NEW o \in scenario.msgs, RegisterTurn(r, o)
        PROVE  RowMoves(r, m)
    <2>1. store'.nonces = store.nonces
      BY <1>2 DEF RegisterTurn, Halts, SetsDaemon, SetsToken, SetsCode, Refreshes
    <2> QED
      BY <2>1 DEF RowMoves, Row
  <1>3. ASSUME NEW o \in scenario.msgs, ResolveTurn(r, o)
        PROVE  RowMoves(r, m)
    <2>1. store'.nonces = store.nonces
      BY <1>3 DEF ResolveTurn, Halts, SetsDaemon, SetsToken, SetsCode, Refreshes
    <2> QED
      BY <2>1 DEF RowMoves, Row
  <1>4. CASE PruneTurn(r)
    <2>1. CASE UNCHANGED store
      BY <2>1 DEF RowMoves, Row
    <2>2. CASE Pruned(store, store', req[r].now, Gone(store, req[r].now))
      <3>1. req[r].now \in Nat /\ req[r].now <= clock
        BY <1>4, InProgress, DatesAreNaturals DEF PruneTurn, Live, Sound, Aged
      <3> QED
        BY <2>2, <3>1, PrunedRow DEF RowMoves, Row
    <2> QED
      BY <1>4, <2>1, <2>2 DEF PruneTurn
  <1>5. CASE \/ CheckTurn(r) \/ AdmitTurn(r) \/ TouchTurn(r)
            \/ LookupTurn(r) \/ CommitTurn(r) \/ SaveTurn(r)
    <2>1. store'.nonces = store.nonces
      BY <1>5 DEF CheckTurn, AdmitTurn, TouchTurn, LookupTurn, CommitTurn,
         SaveTurn, Halts, SetsDaemon, SetsToken, SetsCode, Refreshes
    <2> QED
      BY <2>1 DEF RowMoves, Row
  <1>6. CASE RecordTurn(r)
    <2>1. /\ Live(r) /\ req[r].m \in scenario.msgs /\ req[r].m \in Message
          /\ req[r].pc = "record"
      BY <1>6, InProgress DEF RecordTurn, Live, Sound
    <2>2. /\ <<m.d, m.nonce>> \in Daemons \X Nonces
          /\ req[r].m.nonce # None => <<req[r].m.d, req[r].m.nonce>> \in Daemons \X Nonces
          /\ req[r].m # m /\ req[r].m.nonce # None =>
               <<req[r].m.d, req[r].m.nonce>> # <<m.d, m.nonce>>
      BY <2>1, Environment, MessageFields DEF Repeatable
    <2>3. CASE UNCHANGED store
      BY <2>3 DEF RowMoves, Row
    <2>4. CASE ~UNCHANGED store
      <3>1. PICK T \in Tables :
              LET d == req[r].m.d
                  old == store.daemons[d]
              IN /\ ~Known(r) /\ NonceEntered(store, T, req[r])
                 /\ \/ old = None /\ store' = T
                    \/ /\ old # None
                       /\ \E new \in DaemonRegistration :
                            /\ new.key = old.key /\ new.at = req[r].now
                            /\ SetsDaemon(T, store', d, new)
        BY <1>6, <2>4 DEF RecordTurn, Halts
      <3>2. store'.nonces = T.nonces
        BY <3>1 DEF SetsDaemon
      <3>3. CASE req[r].m # m
        BY <2>2, <3>1, <3>2, <3>3 DEF NonceEntered, SetsNonce, RowMoves, Row
      <3>4. CASE req[r].m = m
        <4>1. Row(m) = None /\ Row(m)' = m.ts
          BY <2>2, <3>1, <3>2, <3>4 DEF NonceEntered, SetsNonce, Row, Known, Repeatable
        <4>2. store'.daemons[m.d] # None => store'.daemons[m.d].at = req[r].now
          BY <3>1, <3>4 DEF NonceEntered, SetsNonce, SetsDaemon, Repeatable
        <4> QED
          BY <2>1, <3>4, <4>1, <4>2 DEF RowMoves, Inserts
      <3> QED
        BY <3>3, <3>4
    <2> QED
      BY <2>3, <2>4
  <1>7. CASE \/ EnterProofTurn(r) \/ LookupTokenTurn(r) \/ TouchTokenTurn(r)
            \/ TouchBindingTurn(r) \/ EvictCodesTurn(r) \/ SupersedeTurn(r)
    <2>1. store'.nonces = store.nonces
      BY <1>7 DEF EnterProofTurn, LookupTokenTurn, TouchTokenTurn,
         TouchBindingTurn, EvictCodesTurn, SupersedeTurn, Halts, SetsDaemon,
         SetsToken, SetsCode, Refreshes
    <2> QED
      BY <2>1 DEF RowMoves, Row
  <1>8. CASE RecordProofTurn(r)
    <2>1. req[r].m.kind = "prove" /\ req[r].m \in scenario.msgs /\ req[r].m \in Message
      BY <1>8, InProgress DEF RecordProofTurn, Live, Sound, SoundKeys
    <2>2. /\ req[r].m.nonce # None => <<req[r].m.d, req[r].m.nonce>> # <<m.d, m.nonce>>
          /\ <<m.d, m.nonce>> \in Daemons \X Nonces
      BY <2>1, Environment, MessageFields DEF Repeatable
    <2>3. UNCHANGED store \/ NonceEntered(store, store', req[r])
      BY <1>8 DEF RecordProofTurn, Halts
    <2> QED
      BY <2>2, <2>3 DEF NonceEntered, SetsNonce, RowMoves, Row
  <1>9. CASE \/ UndoTurn(r) \/ EvictTurn(r) \/ RemoveTurn(r)
            \/ ForgetTurn(r) \/ BindTurn(r) \/ BoundTurn(r)
    <2>1. store'.nonces = store.nonces
      BY <1>9 DEF UndoTurn, EvictTurn, RemoveTurn, ForgetTurn, BindTurn,
         BoundTurn, Halts, SetsDaemon, SetsToken, SetsCode, Refreshes
    <2> QED
      BY <2>1 DEF RowMoves, Row
  <1>10. CASE \/ DeliverTurn(r) \/ SaveCodeTurn(r) \/ ShowTurn(r)
             \/ DropTurn(r)
    <2>1. store'.nonces = store.nonces
      BY <1>10 DEF DeliverTurn, SaveCodeTurn, ShowTurn, DropTurn, Halts,
         SetsDaemon, SetsToken, SetsCode, Refreshes
    <2> QED
      BY <2>1 DEF RowMoves, Row
  <1>11. CASE ForgetCodeTurn(r) \/ DeleteCodeTurn(r)
    <2>1. store'.nonces = store.nonces
      BY <1>11 DEF ForgetCodeTurn, DeleteCodeTurn, Halts, SetsDaemon,
         SetsToken, SetsCode, Refreshes
    <2> QED
      BY <2>1 DEF RowMoves, Row
  <1> QED
    BY <1>1, <1>2, <1>3, <1>4, <1>5, <1>6, <1>7, <1>8, <1>9, <1>10, <1>11 DEF
       Turn

LEMMA DateTurns ==
  ASSUME Typed, PhaseInv, NEW d \in Daemons, NEW r \in Slots, Turn(r)
  PROVE  DateMoves(r, d)
  <1>1. ASSUME NEW m \in scenario.msgs, ArriveTurn(r, m)
        PROVE  DateMoves(r, d)
    <2>1. store'.daemons = store.daemons
      BY <1>1 DEF ArriveTurn, Halts, SetsToken, SetsCode, SetsNonce,
         NonceEntered, Refreshes
    <2> QED
      BY <2>1 DEF DateMoves
  <1>2. ASSUME NEW m \in scenario.msgs, RegisterTurn(r, m)
        PROVE  DateMoves(r, d)
    <2>1. store'.daemons = store.daemons
      BY <1>2 DEF RegisterTurn, Halts, SetsToken, SetsCode, SetsNonce,
         NonceEntered, Refreshes
    <2> QED
      BY <2>1 DEF DateMoves
  <1>3. ASSUME NEW m \in scenario.msgs, ResolveTurn(r, m)
        PROVE  DateMoves(r, d)
    <2>1. store'.daemons = store.daemons
      BY <1>3 DEF ResolveTurn, Halts, SetsToken, SetsCode, SetsNonce,
         NonceEntered, Refreshes
    <2> QED
      BY <2>1 DEF DateMoves
  <1>4. CASE PruneTurn(r)
    BY <1>4 DEF PruneTurn, Pruned, DateMoves
  <1>5. CASE \/ CheckTurn(r) \/ AdmitTurn(r) \/ TouchTurn(r)
            \/ UndoTurn(r) \/ EvictTurn(r) \/ BindTurn(r)
    <2>1. store'.daemons = store.daemons
      BY <1>5 DEF CheckTurn, AdmitTurn, TouchTurn, UndoTurn, EvictTurn,
         BindTurn, Halts, SetsToken, SetsCode, SetsNonce, NonceEntered,
         Refreshes
    <2> QED
      BY <2>1 DEF DateMoves
  <1>6. CASE RecordTurn(r)
    <2>1. Live(r) /\ req[r].m.d \in Daemons /\ req[r].now \in Nat
      BY <1>6, InProgress, MessageFields, DatesAreNaturals DEF RecordTurn, Live
    <2>2. CASE UNCHANGED store
      BY <2>2 DEF DateMoves
    <2>3. CASE ~UNCHANGED store
      <3>1. PICK T \in Tables :
              LET e == req[r].m.d
                  old == store.daemons[e]
              IN /\ NonceEntered(store, T, req[r])
                 /\ \/ old = None /\ store' = T
                    \/ /\ old # None
                       /\ \E new \in DaemonRegistration :
                            /\ new.key = old.key /\ new.at = req[r].now
                            /\ SetsDaemon(T, store', e, new)
        BY <1>6, <2>3 DEF RecordTurn, Halts
      <3>2. T.daemons = store.daemons
        BY <3>1 DEF NonceEntered, SetsNonce
      <3> QED
        BY <2>1, <3>1, <3>2 DEF SetsDaemon, DateMoves
    <2> QED
      BY <2>2, <2>3
  <1>7. CASE \/ EnterProofTurn(r) \/ RecordProofTurn(r) \/ LookupTurn(r)
            \/ CommitTurn(r) \/ RemoveTurn(r) \/ ForgetTurn(r)
    <2>1. store'.daemons = store.daemons
      BY <1>7 DEF EnterProofTurn, RecordProofTurn, LookupTurn, CommitTurn,
         RemoveTurn, ForgetTurn, Halts, SetsToken, SetsCode, SetsNonce,
         NonceEntered, Refreshes
    <2> QED
      BY <2>1 DEF DateMoves
  <1>8. CASE SaveTurn(r)
    <2>1. Live(r) /\ req[r].m.d \in Daemons /\ req[r].now \in Nat
      BY <1>8, InProgress, MessageFields, DatesAreNaturals DEF SaveTurn, Live
    <2>2. req[r].reg.at \in Nat /\ req[r].now <= req[r].reg.at
      BY <1>8, <2>1, InProgress DEF SaveTurn, Sound, SoundKeys, DaemonRegistration, Times
    <2> QED
      BY <1>8, <2>1, <2>2 DEF SaveTurn, SetsDaemon, DateMoves
  <1>9. CASE BoundTurn(r) \/ ShowTurn(r) \/ DropTurn(r)
    <2>1. store'.daemons = store.daemons
      BY <1>9 DEF BoundTurn, ShowTurn, DropTurn, Halts, SetsToken, SetsCode,
         SetsNonce, NonceEntered, Refreshes
    <2> QED
      BY <2>1 DEF DateMoves
  <1>10. CASE \/ LookupTokenTurn(r) \/ DeliverTurn(r) \/ TouchTokenTurn(r)
             \/ TouchBindingTurn(r) \/ EvictCodesTurn(r) \/ SupersedeTurn(r)
    <2>1. store'.daemons = store.daemons
      BY <1>10 DEF LookupTokenTurn, DeliverTurn, TouchTokenTurn,
         TouchBindingTurn, EvictCodesTurn, SupersedeTurn, Halts, SetsToken,
         SetsCode, SetsNonce, NonceEntered, Refreshes
    <2> QED
      BY <2>1 DEF DateMoves
  <1>11. CASE SaveCodeTurn(r) \/ ForgetCodeTurn(r) \/ DeleteCodeTurn(r)
    <2>1. store'.daemons = store.daemons
      BY <1>11 DEF SaveCodeTurn, ForgetCodeTurn, DeleteCodeTurn, Halts,
         SetsToken, SetsCode, SetsNonce, NonceEntered, Refreshes
    <2> QED
      BY <2>1 DEF DateMoves
  <1> QED
    BY <1>1, <1>2, <1>3, <1>4, <1>5, <1>6, <1>7, <1>8, <1>9, <1>10, <1>11 DEF
       Turn

LEMMA NowTurns ==
  ASSUME Typed, PhaseInv, NEW r \in Slots, Turn(r)
  PROVE  NowMoves(r)
  <1>1. ASSUME NEW m \in scenario.msgs, ArriveTurn(r, m)
        PROVE  NowMoves(r)
    BY <1>1 DEF ArriveTurn, Ends, Goes, Continues, Rests, Halts, Proceeds,
       Enters, Claims, Grows, NowMoves, Live, Idle
  <1>2. ASSUME NEW m \in scenario.msgs, RegisterTurn(r, m)
        PROVE  NowMoves(r)
    BY <1>2 DEF RegisterTurn, Ends, Goes, Continues, Rests, Halts, Proceeds,
       Enters, Claims, Grows, NowMoves, Live, Idle
  <1>3. ASSUME NEW m \in scenario.msgs, ResolveTurn(r, m)
        PROVE  NowMoves(r)
    BY <1>3 DEF ResolveTurn, Ends, Goes, Continues, Rests, Halts, Proceeds,
       Enters, Claims, Grows, NowMoves, Live, Idle
  <1>4. CASE PruneTurn(r)
    BY <1>4 DEF PruneTurn, Ends, Goes, Continues, Rests, Halts, Proceeds,
       Enters, Claims, Grows, NowMoves, Live, Idle
  <1>5. CASE CheckTurn(r)
    BY <1>5 DEF CheckTurn, Ends, Goes, Continues, Rests, Halts, Proceeds,
       Enters, Claims, Grows, NowMoves, Live, Idle
  <1>6. CASE AdmitTurn(r)
    BY <1>6 DEF AdmitTurn, Ends, Goes, Continues, Rests, Halts, Proceeds,
       Enters, Claims, Grows, NowMoves, Live, Idle
  <1>7. CASE RecordTurn(r)
    BY <1>7 DEF RecordTurn, Ends, Goes, Continues, Rests, Halts, Proceeds,
       Enters, Claims, Grows, NowMoves, Live, Idle
  <1>8. CASE TouchTurn(r)
    BY <1>8 DEF TouchTurn, Ends, Goes, Continues, Rests, Halts, Proceeds,
       Enters, Claims, Grows, NowMoves, Live, Idle
  <1>9. CASE EnterProofTurn(r)
    BY <1>9 DEF EnterProofTurn, Ends, Goes, Continues, Rests, Halts, Proceeds,
       Enters, Claims, Grows, NowMoves, Live, Idle
  <1>10. CASE RecordProofTurn(r)
    BY <1>10 DEF RecordProofTurn, Ends, Goes, Continues, Rests, Halts,
       Proceeds, Enters, Claims, Grows, NowMoves, Live, Idle
  <1>11. CASE LookupTurn(r)
    <2>1. Ends(r) \/ req'[r].now = clock
      BY <1>11 DEF LookupTurn, Goes
    <2> QED
      BY <2>1 DEF Ends, NowMoves, Live, Idle
  <1>12. CASE CommitTurn(r)
    BY <1>12 DEF CommitTurn, Ends, Goes, Continues, Rests, Halts, Proceeds,
       Enters, Claims, Grows, NowMoves, Live, Idle
  <1>13. CASE SaveTurn(r)
    BY <1>13 DEF SaveTurn, Ends, Goes, Continues, Rests, Halts, Proceeds,
       Enters, Claims, Grows, NowMoves, Live, Idle
  <1>14. CASE UndoTurn(r)
    BY <1>14 DEF UndoTurn, Ends, Goes, Continues, Rests, Halts, Proceeds,
       Enters, Claims, Grows, NowMoves, Live, Idle
  <1>15. CASE EvictTurn(r)
    BY <1>15 DEF EvictTurn, Ends, Goes, Continues, Rests, Halts, Proceeds,
       Enters, Claims, Grows, NowMoves, Live, Idle
  <1>16. CASE RemoveTurn(r)
    BY <1>16 DEF RemoveTurn, Ends, Goes, Continues, Rests, Halts, Proceeds,
       Enters, Claims, Grows, NowMoves, Live, Idle
  <1>17. CASE ForgetTurn(r)
    BY <1>17 DEF ForgetTurn, Ends, Goes, Continues, Rests, Halts, Proceeds,
       Enters, Claims, Grows, NowMoves, Live, Idle
  <1>18. CASE BindTurn(r)
    BY <1>18 DEF BindTurn, Ends, Goes, Continues, Rests, Halts, Proceeds,
       Enters, Claims, Grows, NowMoves, Live, Idle
  <1>19. CASE BoundTurn(r)
    BY <1>19 DEF BoundTurn, Ends, Goes, Continues, Rests, Halts, Proceeds,
       Enters, Claims, Grows, NowMoves, Live, Idle
  <1>20. CASE LookupTokenTurn(r)
    BY <1>20 DEF LookupTokenTurn, Ends, Goes, Continues, Rests, Halts,
       Proceeds, Enters, Claims, Grows, NowMoves, Live, Idle
  <1>21. CASE DeliverTurn(r)
    BY <1>21 DEF DeliverTurn, Ends, Goes, Continues, Rests, Halts, Proceeds,
       Enters, Claims, Grows, NowMoves, Live, Idle
  <1>22. CASE TouchTokenTurn(r)
    BY <1>22 DEF TouchTokenTurn, Ends, Goes, Continues, Rests, Halts,
       Proceeds, Enters, Claims, Grows, NowMoves, Live, Idle
  <1>23. CASE TouchBindingTurn(r)
    BY <1>23 DEF TouchBindingTurn, Ends, Goes, Continues, Rests, Halts,
       Proceeds, Enters, Claims, Grows, NowMoves, Live, Idle
  <1>24. CASE EvictCodesTurn(r)
    BY <1>24 DEF EvictCodesTurn, Ends, Goes, Continues, Rests, Halts,
       Proceeds, Enters, Claims, Grows, NowMoves, Live, Idle
  <1>25. CASE SupersedeTurn(r)
    BY <1>25 DEF SupersedeTurn, Ends, Goes, Continues, Rests, Halts, Proceeds,
       Enters, Claims, Grows, NowMoves, Live, Idle
  <1>26. CASE SaveCodeTurn(r)
    BY <1>26 DEF SaveCodeTurn, Ends, Goes, Continues, Rests, Halts, Proceeds,
       Enters, Claims, Grows, NowMoves, Live, Idle
  <1>27. CASE ShowTurn(r)
    BY <1>27 DEF ShowTurn, Ends, Goes, Continues, Rests, Halts, Proceeds,
       Enters, Claims, Grows, NowMoves, Live, Idle
  <1>28. CASE ForgetCodeTurn(r)
    BY <1>28 DEF ForgetCodeTurn, Ends, Goes, Continues, Rests, Halts,
       Proceeds, Enters, Claims, Grows, NowMoves, Live, Idle
  <1>29. CASE DeleteCodeTurn(r)
    BY <1>29 DEF DeleteCodeTurn, Ends, Goes, Continues, Rests, Halts,
       Proceeds, Enters, Claims, Grows, NowMoves, Live, Idle
  <1>30. CASE DropTurn(r)
    BY <1>30 DEF DropTurn, Same, NowMoves
  <1> QED
    BY <1>1, <1>2, <1>3, <1>4, <1>5, <1>6, <1>7, <1>8, <1>9, <1>10, <1>11,
       <1>12, <1>13, <1>14, <1>15, <1>16, <1>17, <1>18, <1>19, <1>20, <1>21,
       <1>22, <1>23, <1>24, <1>25, <1>26, <1>27, <1>28, <1>29, <1>30 DEF Turn

\* A request that is recorded leaves its row.
LEMMA RecordInserts ==
  ASSUME Typed, PhaseInv, NEW r \in Slots, RecordTurn(r), ~Halts(r),
         NEW w, Repeatable(w), req[r].m = w
  PROVE  Inserts(r, w)
  <1>1. Live(r) /\ req[r].pc = "record" /\ w \in Message
    BY InProgress DEF RecordTurn, Live
  <1>2. <<w.d, w.nonce>> \in Daemons \X Nonces
    BY <1>1, MessageFields DEF Repeatable
  <1>3. PICK T \in Tables :
          LET d == req[r].m.d
              old == store.daemons[d]
          IN /\ ~Known(r) /\ NonceEntered(store, T, req[r])
             /\ \/ old = None /\ store' = T
                \/ /\ old # None
                   /\ \E new \in DaemonRegistration :
                        /\ new.key = old.key /\ new.at = req[r].now
                        /\ SetsDaemon(T, store', d, new)
    BY DEF RecordTurn, Halts
  <1>4. store'.nonces = T.nonces
    BY <1>3 DEF SetsDaemon
  <1>5. Row(w) = None /\ Row(w)' = w.ts
    BY <1>2, <1>3, <1>4 DEF NonceEntered, SetsNonce, Row, Known, Repeatable
  <1>6. store'.daemons[w.d] # None => store'.daemons[w.d].at = req[r].now
    BY <1>3 DEF NonceEntered, SetsNonce, SetsDaemon, Repeatable
  <1> QED
    BY <1>1, <1>5, <1>6 DEF Inserts

LEMMA VerifiedTurns ==
  ASSUME Typed, PhaseInv, NEW w, Repeatable(w), NEW r \in Slots, Turn(r)
  PROVE  VerifiedMoves(r, w)
  <1>1. ASSUME NEW o \in scenario.msgs, ArriveTurn(r, o)
        PROVE  VerifiedMoves(r, w)
    <2>1. req'[r].pc \in {"prune", Verify(o)}
      BY <1>1 DEF ArriveTurn, Enters
    <2> QED
      BY <2>1 DEF VerifiedMoves, Verified, Verify
  <1>2. ASSUME NEW o \in scenario.msgs, RegisterTurn(r, o)
        PROVE  VerifiedMoves(r, w)
    BY <1>2 DEF RegisterTurn, VerifiedMoves, Verified, Enters, Ends, Goes,
       Continues, Halts, Proceeds, Grows, Idle, Same, Live
  <1>3. ASSUME NEW o \in scenario.msgs, ResolveTurn(r, o)
        PROVE  VerifiedMoves(r, w)
    BY <1>3 DEF ResolveTurn, VerifiedMoves, Verified, Enters, Ends, Goes,
       Continues, Halts, Proceeds, Grows, Idle, Same, Live
  <1>4. CASE PruneTurn(r)
    <2>1. req'[r] = Idle \/ req'[r].pc = Verify(req[r].m)
      BY <1>4 DEF PruneTurn, Proceeds, Ends, Continues, Goes
    <2> QED
      BY <2>1 DEF VerifiedMoves, Verified, Verify, Idle
  <1>5. CASE CheckTurn(r)
    BY <1>5 DEF CheckTurn, VerifiedMoves, Verified, Enters, Ends, Goes,
       Continues, Halts, Proceeds, Grows, Idle, Same, Live
  <1>6. CASE AdmitTurn(r)
    BY <1>6 DEF AdmitTurn, VerifiedMoves, Verified, Enters, Ends, Goes,
       Continues, Halts, Proceeds, Grows, Idle, Same, Live
  <1>7. CASE RecordTurn(r)
    <2>1. Ends(r) \/ Continues(r, "verified")
      BY <1>7 DEF RecordTurn, Halts, Proceeds
    <2>2. CASE Ends(r)
      BY <2>2 DEF Ends, Idle, VerifiedMoves, Verified
    <2>3. CASE ~Ends(r)
      <3>1. Continues(r, "verified") /\ ~Halts(r)
        BY <2>1, <2>3 DEF Halts
      <3>2. CASE req[r].m # w
        BY <3>1, <3>2 DEF Continues, Goes, VerifiedMoves, Verified
      <3>3. CASE req[r].m = w
        BY <1>7, <3>1, <3>3, RecordInserts DEF VerifiedMoves
      <3> QED
        BY <3>2, <3>3
    <2> QED
      BY <2>2, <2>3
  <1>8. CASE TouchTurn(r)
    <2>1. req[r].pc = "verified" /\ req'[r].m = req[r].m
      BY <1>8 DEF TouchTurn, Continues, Goes
    <2> QED
      BY <2>1 DEF VerifiedMoves, Verified
  <1>9. CASE EnterProofTurn(r)
    BY <1>9 DEF EnterProofTurn, VerifiedMoves, Verified, Enters, Ends, Goes,
       Continues, Halts, Proceeds, Grows, Idle, Same, Live
  <1>10. CASE RecordProofTurn(r)
    BY <1>10 DEF RecordProofTurn, VerifiedMoves, Verified, Enters, Ends, Goes,
       Continues, Halts, Proceeds, Grows, Idle, Same, Live
  <1>11. CASE LookupTurn(r)
    BY <1>11 DEF LookupTurn, VerifiedMoves, Verified, Enters, Ends, Goes,
       Continues, Halts, Proceeds, Grows, Idle, Same, Live
  <1>12. CASE CommitTurn(r)
    BY <1>12 DEF CommitTurn, VerifiedMoves, Verified, Enters, Ends, Goes,
       Continues, Halts, Proceeds, Grows, Idle, Same, Live
  <1>13. CASE SaveTurn(r)
    BY <1>13 DEF SaveTurn, VerifiedMoves, Verified, Enters, Ends, Goes,
       Continues, Halts, Proceeds, Grows, Idle, Same, Live
  <1>14. CASE UndoTurn(r)
    BY <1>14 DEF UndoTurn, VerifiedMoves, Verified, Enters, Ends, Goes,
       Continues, Halts, Proceeds, Grows, Idle, Same, Live
  <1>15. CASE EvictTurn(r)
    BY <1>15 DEF EvictTurn, VerifiedMoves, Verified, Enters, Ends, Goes,
       Continues, Halts, Proceeds, Grows, Idle, Same, Live
  <1>16. CASE RemoveTurn(r)
    BY <1>16 DEF RemoveTurn, VerifiedMoves, Verified, Enters, Ends, Goes,
       Continues, Halts, Proceeds, Grows, Idle, Same, Live
  <1>17. CASE ForgetTurn(r)
    BY <1>17 DEF ForgetTurn, VerifiedMoves, Verified, Enters, Ends, Goes,
       Continues, Halts, Proceeds, Grows, Idle, Same, Live
  <1>18. CASE BindTurn(r)
    BY <1>18 DEF BindTurn, VerifiedMoves, Verified, Enters, Ends, Goes,
       Continues, Halts, Proceeds, Grows, Idle, Same, Live
  <1>19. CASE BoundTurn(r)
    BY <1>19 DEF BoundTurn, VerifiedMoves, Verified, Enters, Ends, Goes,
       Continues, Halts, Proceeds, Grows, Idle, Same, Live
  <1>20. CASE LookupTokenTurn(r)
    BY <1>20 DEF LookupTokenTurn, VerifiedMoves, Verified, Enters, Ends, Goes,
       Continues, Halts, Proceeds, Grows, Idle, Same, Live
  <1>21. CASE DeliverTurn(r)
    BY <1>21 DEF DeliverTurn, VerifiedMoves, Verified, Enters, Ends, Goes,
       Continues, Halts, Proceeds, Grows, Idle, Same, Live
  <1>22. CASE TouchTokenTurn(r)
    BY <1>22 DEF TouchTokenTurn, VerifiedMoves, Verified, Enters, Ends, Goes,
       Continues, Halts, Proceeds, Grows, Idle, Same, Live
  <1>23. CASE TouchBindingTurn(r)
    BY <1>23 DEF TouchBindingTurn, VerifiedMoves, Verified, Enters, Ends,
       Goes, Continues, Halts, Proceeds, Grows, Idle, Same, Live
  <1>24. CASE EvictCodesTurn(r)
    BY <1>24 DEF EvictCodesTurn, VerifiedMoves, Verified, Enters, Ends, Goes,
       Continues, Halts, Proceeds, Grows, Idle, Same, Live
  <1>25. CASE SupersedeTurn(r)
    BY <1>25 DEF SupersedeTurn, VerifiedMoves, Verified, Enters, Ends, Goes,
       Continues, Halts, Proceeds, Grows, Idle, Same, Live
  <1>26. CASE SaveCodeTurn(r)
    BY <1>26 DEF SaveCodeTurn, VerifiedMoves, Verified, Enters, Ends, Goes,
       Continues, Halts, Proceeds, Grows, Idle, Same, Live
  <1>27. CASE ShowTurn(r)
    BY <1>27 DEF ShowTurn, VerifiedMoves, Verified, Enters, Ends, Goes,
       Continues, Halts, Proceeds, Grows, Idle, Same, Live
  <1>28. CASE ForgetCodeTurn(r)
    BY <1>28 DEF ForgetCodeTurn, VerifiedMoves, Verified, Enters, Ends, Goes,
       Continues, Halts, Proceeds, Grows, Idle, Same, Live
  <1>29. CASE DeleteCodeTurn(r)
    BY <1>29 DEF DeleteCodeTurn, VerifiedMoves, Verified, Enters, Ends, Goes,
       Continues, Halts, Proceeds, Grows, Idle, Same, Live
  <1>30. CASE DropTurn(r)
    BY <1>30 DEF DropTurn, VerifiedMoves, Verified, Enters, Ends, Goes,
       Continues, Halts, Proceeds, Grows, Idle, Same, Live
  <1> QED
    BY <1>1, <1>2, <1>3, <1>4, <1>5, <1>6, <1>7, <1>8, <1>9, <1>10, <1>11,
       <1>12, <1>13, <1>14, <1>15, <1>16, <1>17, <1>18, <1>19, <1>20, <1>21,
       <1>22, <1>23, <1>24, <1>25, <1>26, <1>27, <1>28, <1>29, <1>30 DEF Turn

LEMMA AcceptTurns ==
  ASSUME Typed, PhaseInv, NEW r \in Slots, Turn(r)
  PROVE  Accepts(r)
  <1>1. ASSUME NEW m \in scenario.msgs, ArriveTurn(r, m)
        PROVE  Accepts(r)
    BY <1>1 DEF ArriveTurn, Accepts, noted, Halts
  <1>2. ASSUME NEW m \in scenario.msgs, RegisterTurn(r, m)
        PROVE  Accepts(r)
    BY <1>2 DEF RegisterTurn, Accepts, noted, Halts
  <1>3. ASSUME NEW m \in scenario.msgs, ResolveTurn(r, m)
        PROVE  Accepts(r)
    BY <1>3 DEF ResolveTurn, Accepts, noted, Halts
  <1>4. CASE \/ PruneTurn(r) \/ CheckTurn(r) \/ AdmitTurn(r)
            \/ RecordTurn(r) \/ EnterProofTurn(r) \/ RecordProofTurn(r)
    BY <1>4 DEF PruneTurn, CheckTurn, AdmitTurn, RecordTurn, EnterProofTurn,
       RecordProofTurn, Accepts, noted, Halts
  <1>5. CASE TouchTurn(r)
    <2>1. req[r].pc = "verified" /\ Continues(r, Handler(req[r].m.kind))
      BY <1>5 DEF TouchTurn
    <2>2. /\ req[r].m \in scenario.msgs /\ req[r].m.kind # "prove"
          /\ req[r].m \in Message
      BY <2>1, InProgress DEF Live, Sound, SoundKeys, Signing
    <2>3. Handler(req[r].m.kind) # "verified"
      BY <2>2, MessageFields DEF Handler
    <2>4. req'[r].pc # "verified"
      BY <2>1, <2>3 DEF Continues, Goes
    <2>5. CASE req[r].m.nonce = None \/ ~InWindow(clock, req[r].m.ts)
      BY <1>5, <2>5 DEF TouchTurn, Accepts
    <2>6. CASE req[r].m.nonce # None /\ InWindow(clock, req[r].m.ts)
      <3>1. accepted' = [accepted EXCEPT ![req[r].m.nonce] = accepted[req[r].m.nonce] + 1]
        BY <1>5, <2>6 DEF TouchTurn
      <3> QED
        BY <2>1, <2>2, <2>4, <2>6, <3>1 DEF Accepts, Repeatable, Verified
    <2> QED
      BY <2>5, <2>6
  <1>6. CASE \/ LookupTurn(r) \/ CommitTurn(r) \/ SaveTurn(r)
            \/ UndoTurn(r) \/ EvictTurn(r) \/ RemoveTurn(r)
    BY <1>6 DEF LookupTurn, CommitTurn, SaveTurn, UndoTurn, EvictTurn,
       RemoveTurn, Accepts, noted, Halts
  <1>7. CASE \/ ForgetTurn(r) \/ BindTurn(r) \/ BoundTurn(r)
            \/ LookupTokenTurn(r) \/ DeliverTurn(r) \/ TouchTokenTurn(r)
    BY <1>7 DEF ForgetTurn, BindTurn, BoundTurn, LookupTokenTurn, DeliverTurn,
       TouchTokenTurn, Accepts, noted, Halts
  <1>8. CASE \/ TouchBindingTurn(r) \/ EvictCodesTurn(r) \/ SupersedeTurn(r)
            \/ SaveCodeTurn(r) \/ ShowTurn(r) \/ ForgetCodeTurn(r)
    BY <1>8 DEF TouchBindingTurn, EvictCodesTurn, SupersedeTurn, SaveCodeTurn,
       ShowTurn, ForgetCodeTurn, Accepts, noted, Halts
  <1>9. CASE DeleteCodeTurn(r) \/ DropTurn(r)
    BY <1>9 DEF DeleteCodeTurn, DropTurn, Accepts, noted, Halts
  <1> QED
    BY <1>1, <1>2, <1>3, <1>4, <1>5, <1>6, <1>7, <1>8, <1>9 DEF Turn


\* The row of a message, from one state to the next.
LEMMA RowStep ==
  ASSUME Typed, Typed', PhaseInv, NonceInv, LongRetention, NEW r \in Slots, Turn(r),
         NEW w, Repeatable(w)
  PROVE  RowStays(w)'
  <1>1. /\ w \in scenario.msgs /\ w \in Message /\ w.d \in Daemons /\ w.ts \in Nat
        /\ clock' = clock /\ \A q \in Slots \ {r} : Same(q)
    BY Environment, MessageFields, DatesAreNaturals, TurnRests DEF Repeatable, world
  <1>2. RowMoves(r, w) /\ DateMoves(r, w.d) /\ NowMoves(r)
    BY <1>1, RowTurns, DateTurns, NowTurns
  <1>3. /\ clock \in Nat /\ Skew \in Nat /\ Timeout \in Nat /\ Retention \in Nat
        /\ Retention >= 2 * Skew + Timeout
    BY DatesAreNaturals DEF LongRetention
  <1>4. /\ \A q \in Slots : Live(q) => /\ req[q].now \in Nat /\ req[q].now <= clock
                                       /\ clock <= req[q].now + Timeout
        /\ \A q \in Slots : Live(q)' => \/ Live(q) /\ req'[q].now = req[q].now
                                        \/ req'[q].now = clock
    <2>1. \A q \in Slots : Live(q)' => \/ Live(q) /\ req'[q].now = req[q].now
                                       \/ req'[q].now = clock
      BY <1>1, <1>2 DEF NowMoves, Same, Live
    <2> QED
      BY <2>1, DatesAreNaturals, InProgress DEF Sound, Aged
  <1>5. /\ store.daemons[w.d] # None => store.daemons[w.d].at \in Nat
        /\ store'.daemons[w.d] # None => store'.daemons[w.d].at \in Nat
    <2>1. Typed' => (store'.daemons[w.d] # None => store'.daemons[w.d].at \in Nat)
      BY <1>1, RelayAssumption, TableFields DEF Typed, DaemonRegistration, Times
    <2> QED
      BY <1>1, <2>1, DatesAreNaturals
  <1>6. CASE Row(w)' = None
    BY <1>6 DEF RowStays
  <1>7. CASE Row(w)' # None /\ Row(w)' = Row(w)
    <2>1. /\ Row(w) = w.ts /\ w.ts <= clock + Skew
          /\ store.daemons[w.d] # None => w.ts + Skew <= store.daemons[w.d].at + Retention
          /\ \A q \in Slots : Live(q) => w.ts + Skew <= req[q].now + Retention
      BY <1>7 DEF NonceInv, RowStays, Repeatable
    <2>2. store'.daemons[w.d] # None =>
            w.ts + Skew <= store'.daemons[w.d].at + Retention
      BY <1>1, <1>2, <1>3, <1>4, <1>5, <2>1 DEF DateMoves
    <2>3. \A q \in Slots : Live(q)' => w.ts + Skew <= req'[q].now + Retention
      BY <1>1, <1>3, <1>4, <2>1
    <2> QED
      BY <1>1, <1>7, <2>1, <2>2, <2>3 DEF RowStays
  <1>8. CASE Inserts(r, w)
    <2>1. Live(r) /\ InWindow(req[r].now, w.ts)
      BY <1>8, InProgress DEF Inserts, Live, Sound, SoundKeys, Signing, Repeatable
    <2>2. w.ts <= req[r].now + Skew /\ w.ts <= clock + Skew
      BY <1>1, <1>3, <1>4, <2>1 DEF InWindow
    <2>3. store'.daemons[w.d] # None =>
            w.ts + Skew <= store'.daemons[w.d].at + Retention
      BY <1>1, <1>3, <1>4, <1>8, <2>1, <2>2 DEF Inserts
    <2>4. \A q \in Slots : Live(q)' => w.ts + Skew <= req'[q].now + Retention
      BY <1>1, <1>3, <1>4, <2>2
    <2> QED
      BY <1>1, <1>8, <2>2, <2>3, <2>4 DEF RowStays, Inserts
  <1> QED
    BY <1>2, <1>6, <1>7, <1>8 DEF RowMoves

LEMMA AcceptanceStep ==
  ASSUME Typed, PhaseInv, NonceInv, NEW r \in Slots, Turn(r), NEW w, Repeatable(w)
  PROVE  OneAcceptance(w)'
  <1>1. /\ w \in scenario.msgs /\ w.d \in Daemons /\ w.ts \in Nat /\ w.ts # None
        /\ w.nonce \in Nonces /\ accepted \in [Nonces -> Nat]
        /\ clock' = clock /\ \A q \in Slots \ {r} : Same(q)
    <2>1. w \in scenario.msgs /\ w \in Message /\ w.nonce # None
      BY Environment DEF Repeatable
    <2>2. w.nonce \in Nonces
      BY <2>1, MessageFields
    <2>3. w.d \in Daemons /\ w.ts \in Nat /\ w.ts # None
      BY <2>1, DatesAreNaturals, RelayAssumption
    <2> QED
      BY <2>1, <2>2, <2>3, TurnRests DEF world, Typed
  <1>2. RowMoves(r, w) /\ VerifiedMoves(r, w) /\ Accepts(r)
    BY <1>1, RowTurns, VerifiedTurns, AcceptTurns
  <1>3. \A q \in Slots : Verified(q, w)' => Verified(q, w) \/ (q = r /\ Inserts(r, w))
    BY <1>1, <1>2 DEF VerifiedMoves, Verified, Same, Live
  <1>4. Inserts(r, w) => Row(w) = None /\ Row(w)' # None
    BY <1>1 DEF Inserts
  <1>5. accepted'[w.nonce] = accepted[w.nonce] \/ (Verified(r, w) /\ ~Verified(r, w)')
    <2>1. ASSUME NEW o, Repeatable(o), Verified(r, o), req'[r].pc # "verified",
                 accepted' = [accepted EXCEPT ![o.nonce] = @ + 1]
          PROVE  accepted'[w.nonce] = accepted[w.nonce]
                   \/ (Verified(r, w) /\ ~Verified(r, w)')
      <3>1. o.nonce = w.nonce => o = w
        BY <2>1, Environment DEF Repeatable
      <3> QED
        BY <1>1, <2>1, <3>1 DEF Verified
    <2> QED
      BY <1>2, <2>1 DEF Accepts
  <1> SUFFICES ASSUME Open(w)
               PROVE  /\ Row(w)' = None => /\ accepted'[w.nonce] = 0
                                           /\ \A q \in Slots : ~Verified(q, w)'
                      /\ \A q \in Slots : Verified(q, w)' => accepted'[w.nonce] = 0
                      /\ \A p, q \in Slots : Verified(p, w)' /\ Verified(q, w)' => p = q
    BY <1>1 DEF OneAcceptance, Open
  <1>6. /\ Row(w) = None => accepted[w.nonce] = 0 /\ \A q \in Slots : ~Verified(q, w)
        /\ \A q \in Slots : Verified(q, w) => accepted[w.nonce] = 0
        /\ \A p, q \in Slots : Verified(p, w) /\ Verified(q, w) => p = q
    BY DEF NonceInv, OneAcceptance, Repeatable
  <1>7. Row(w)' = None => Row(w) = None
    BY <1>1, <1>2, <1>4 DEF RowMoves
  <1>8. Row(w)' = None => accepted'[w.nonce] = 0 /\ \A q \in Slots : ~Verified(q, w)'
    BY <1>3, <1>4, <1>5, <1>6, <1>7
  <1>9. ASSUME NEW q \in Slots, Verified(q, w)'
        PROVE  accepted'[w.nonce] = 0
    <2>1. CASE Verified(q, w)
      <3>1. ~(Verified(r, w) /\ ~Verified(r, w)')
        BY <1>6, <1>9, <2>1
      <3> QED
        BY <1>5, <1>6, <2>1, <3>1
    <2>2. CASE Inserts(r, w)
      BY <1>4, <1>5, <1>6, <2>2
    <2> QED
      BY <1>3, <1>9, <2>1, <2>2
  <1>10. ASSUME NEW p \in Slots, NEW q \in Slots, Verified(p, w)', Verified(q, w)'
         PROVE  p = q
    BY <1>3, <1>4, <1>6, <1>10
  <1> QED
    BY <1>8, <1>9, <1>10

LEMMA CountStep ==
  ASSUME Typed, PhaseInv, NonceInv, NEW r \in Slots, Turn(r)
  PROVE  NoReplay'
  <1> SUFFICES ASSUME NEW n \in Nonces
               PROVE  accepted'[n] <= 1
    BY DEF NoReplay
  <1>1. accepted \in [Nonces -> Nat] /\ accepted[n] <= 1
    BY DEF Typed, NonceInv, NoReplay
  <1>2. ASSUME NEW o, Repeatable(o), Verified(r, o), InWindow(clock, o.ts),
               accepted' = [accepted EXCEPT ![o.nonce] = @ + 1]
        PROVE  accepted'[n] <= 1
    <2>1. accepted[o.nonce] = 0
      BY <1>2 DEF NonceInv, OneAcceptance, Open, InWindow, Repeatable
    <2> QED
      BY <1>1, <1>2, <2>1
  <1> QED
    BY <1>1, <1>2, AcceptTurns DEF Accepts

LEMMA NonceStep ==
  ASSUME Typed, Typed', PhaseInv, NonceInv, LongRetention, Turns
  PROVE  NonceInv'
  <1>1. ASSUME NEW r \in Slots, Turn(r)
        PROVE  NonceInv'
    <2>1. scenario' = scenario
      BY <1>1, TurnRests DEF world
    <2> QED
      BY <1>1, <2>1, RowStep, AcceptanceStep, CountStep DEF NonceInv, Repeatable
  <1>2. CASE Tick
    <2>1. /\ clock \in Nat /\ clock' = clock + 1 /\ Skew \in Nat
          /\ UNCHANGED <<scenario, store, req, accepted>>
      BY <1>2, DatesAreNaturals DEF Tick, noted
    <2>2. ASSUME NEW w, Repeatable(w)
          PROVE  RowStays(w)' /\ OneAcceptance(w)'
      <3>1. w \in scenario.msgs /\ w.ts \in Nat /\ RowStays(w) /\ OneAcceptance(w)
        BY <2>2, DatesAreNaturals DEF NonceInv, Repeatable
      <3>2. Open(w)' => Open(w)
        BY <2>1, <3>1 DEF Open
      <3>3. RowStays(w)'
        BY <2>1, <3>1 DEF RowStays, Row, Live
      <3>4. OneAcceptance(w)'
        BY <2>1, <3>1, <3>2 DEF OneAcceptance, Row, Verified
      <3> QED
        BY <3>3, <3>4
    <2> QED
      BY <2>1, <2>2 DEF NonceInv, NoReplay, Repeatable
  <1>3. CASE CrashTurn
    BY <1>3 DEF CrashTurn, NonceInv, NoReplay, Repeatable, RowStays, OneAcceptance,
       Row, Open, Verified, Live, Idle
  <1>4. CASE RestartTurn
    <2>1. /\ \A q \in Slots : ~Live(q)
          /\ Pruned(store, store', clock, Gone(store, clock)) /\ clock \in Nat
          /\ UNCHANGED <<clock, scenario, req, accepted>>
      BY <1>4, DatesAreNaturals DEF RestartTurn, PhaseInv
    <2>2. ASSUME NEW w, Repeatable(w)
          PROVE  RowStays(w)' /\ OneAcceptance(w)'
      <3>1. /\ w \in scenario.msgs /\ w.d \in Daemons
            /\ RowStays(w) /\ OneAcceptance(w)
        BY <2>2, DatesAreNaturals DEF NonceInv, Repeatable
      <3>2. Row(w)' = Row(w) \/ (Row(w)' = None /\ ~Open(w))
        BY <2>1, <2>2, PrunedRow DEF Row
      <3>3. store'.daemons[w.d] \in {None, store.daemons[w.d]}
        BY <2>1, <3>1 DEF Pruned
      <3>4. RowStays(w)'
        BY <2>1, <3>1, <3>2, <3>3 DEF RowStays, Live
      <3>5. OneAcceptance(w)'
        BY <2>1, <3>1, <3>2 DEF OneAcceptance, Open, Verified, Live
      <3> QED
        BY <3>4, <3>5
    <2> QED
      BY <2>1, <2>2 DEF NonceInv, NoReplay, Repeatable
  <1>5. CASE UNCHANGED vars
    BY <1>5 DEF vars, NonceInv, NoReplay, Repeatable, RowStays, OneAcceptance, Row,
       Open, Verified, Live
  <1> QED
    BY <1>1, <1>2, <1>3, <1>4, <1>5 DEF Turns

LEMMA NonceInit ==
  ASSUME Typed, Init
  PROVE  NonceInv
  <1>1. /\ \A n \in Nonces : accepted[n] = 0
        /\ \A r \in Slots : ~Live(r)
    BY DEF Init, Live, Idle
  <1>2. ASSUME NEW w, Repeatable(w)
        PROVE  Row(w) = None /\ accepted[w.nonce] = 0
    <2>1. w \in Message
      BY <1>2, Environment DEF Repeatable
    <2>2. <<w.d, w.nonce>> \in Daemons \X Nonces /\ w.nonce \in Nonces
      BY <1>2, <2>1, MessageFields DEF Repeatable
    <2> QED
      BY <1>1, <2>2 DEF Init, Fresh, Row
  <1>3. ASSUME NEW w, Repeatable(w)
        PROVE  RowStays(w) /\ OneAcceptance(w)
    BY <1>1, <1>2, <1>3 DEF RowStays, OneAcceptance, Verified, Live
  <1> QED
    BY <1>1, <1>3 DEF NonceInv, NoReplay

-----------------------------------------------------------------------------
(***************************************************************************)
(* The cap on daemons.                                                     *)
(***************************************************************************)

CapMoves ==
  \/ \A e \in Daemons : inner'.daemons[e] # None => inner.daemons[e] # None
  \/ \E d \in Daemons : /\ ~daemon_capacity_exceeded(d)
                        /\ \A e \in Daemons \ {d} : inner'.daemons[e] = inner.daemons[e]

LEMMA CapTurns ==
  ASSUME Typed, PhaseInv, NEW r \in Slots, Turn(r)
  PROVE  CapMoves
  <1>1. ASSUME NEW m \in scenario.msgs, ArriveTurn(r, m)
        PROVE  CapMoves
    BY <1>1 DEF ArriveTurn, MemoryPrune, Pruned, CapMoves
  <1>2. ASSUME NEW m \in scenario.msgs, RegisterTurn(r, m)
        PROVE  CapMoves
    <2>1. inner'.daemons = inner.daemons
      BY <1>2 DEF RegisterTurn, Halts, SetsToken, SetsCode, SetsNonce,
         NonceEntered, Refreshes
    <2> QED
      BY <2>1 DEF CapMoves
  <1>3. ASSUME NEW m \in scenario.msgs, ResolveTurn(r, m)
        PROVE  CapMoves
    <2>1. inner'.daemons = inner.daemons
      BY <1>3 DEF ResolveTurn, Halts, SetsToken, SetsCode, SetsNonce,
         NonceEntered, Refreshes
    <2> QED
      BY <2>1 DEF CapMoves
  <1>4. CASE \/ PruneTurn(r) \/ CheckTurn(r) \/ AdmitTurn(r)
            \/ SaveTurn(r) \/ EvictTurn(r) \/ BindTurn(r)
    <2>1. inner'.daemons = inner.daemons
      BY <1>4 DEF PruneTurn, CheckTurn, AdmitTurn, SaveTurn, EvictTurn,
         BindTurn, Halts, SetsToken, SetsCode, SetsNonce, NonceEntered,
         Refreshes
    <2> QED
      BY <2>1 DEF CapMoves
  <1>5. CASE \/ RecordTurn(r) \/ EnterProofTurn(r) \/ RecordProofTurn(r)
            \/ RemoveTurn(r) \/ ForgetTurn(r) \/ LookupTokenTurn(r)
    <2>1. inner'.daemons = inner.daemons
      BY <1>5 DEF RecordTurn, EnterProofTurn, RecordProofTurn, RemoveTurn,
         ForgetTurn, LookupTokenTurn, Halts, SetsToken, SetsCode, SetsNonce,
         NonceEntered, Refreshes
    <2> QED
      BY <2>1 DEF CapMoves
  <1>6. CASE TouchTurn(r) \/ CommitTurn(r) \/ UndoTurn(r)
    <2>1. req[r].m.d \in Daemons
      BY <1>6, InProgress, MessageFields DEF TouchTurn, CommitTurn, UndoTurn,
         Live
    <2> QED
      BY <1>6, <2>1 DEF TouchTurn, CommitTurn, UndoTurn, SetsDaemon, CapMoves
  <1>7. CASE LookupTurn(r)
    BY <1>7 DEF LookupTurn, MemoryPrune, Pruned, CapMoves
  <1>8. CASE BoundTurn(r) \/ ShowTurn(r) \/ DropTurn(r)
    <2>1. inner'.daemons = inner.daemons
      BY <1>8 DEF BoundTurn, ShowTurn, DropTurn, Halts, SetsToken, SetsCode,
         SetsNonce, NonceEntered, Refreshes
    <2> QED
      BY <2>1 DEF CapMoves
  <1>9. CASE \/ DeliverTurn(r) \/ TouchTokenTurn(r) \/ TouchBindingTurn(r)
            \/ EvictCodesTurn(r) \/ SupersedeTurn(r) \/ SaveCodeTurn(r)
    <2>1. inner'.daemons = inner.daemons
      BY <1>9 DEF DeliverTurn, TouchTokenTurn, TouchBindingTurn,
         EvictCodesTurn, SupersedeTurn, SaveCodeTurn, Halts, SetsToken,
         SetsCode, SetsNonce, NonceEntered, Refreshes
    <2> QED
      BY <2>1 DEF CapMoves
  <1>10. CASE ForgetCodeTurn(r) \/ DeleteCodeTurn(r)
    <2>1. inner'.daemons = inner.daemons
      BY <1>10 DEF ForgetCodeTurn, DeleteCodeTurn, Halts, SetsToken, SetsCode,
         SetsNonce, NonceEntered, Refreshes
    <2> QED
      BY <2>1 DEF CapMoves
  <1> QED
    BY <1>1, <1>2, <1>3, <1>4, <1>5, <1>6, <1>7, <1>8, <1>9, <1>10 DEF Turn

LEMMA CapStep ==
  ASSUME Typed, PhaseInv, CapInv, Turns
  PROVE  CapInv'
  <1> DEFINE S == {d \in Daemons : inner.daemons[d] # None}
             U == {d \in Daemons : inner'.daemons[d] # None}
  <1>1. /\ IsFiniteSet(S) /\ IsFiniteSet(U)
        /\ Cardinality(S) \in Nat /\ Cardinality(U) \in Nat /\ MaxDaemons \in Nat
    <2>1. IsFiniteSet(Daemons) /\ S \subseteq Daemons /\ U \subseteq Daemons
      BY RelayAssumption
    <2>2. IsFiniteSet(S) /\ IsFiniteSet(U)
      BY <2>1, FS_Subset
    <2> QED
      BY <2>2, FS_CardinalityType, RelayAssumption
  <1>2. ASSUME U \subseteq S, UNCHANGED <<up, crashes>>
        PROVE  CapInv'
    <2>1. Cardinality(U) <= Cardinality(S)
      BY <1>1, <1>2, FS_Subset
    <2> HIDE DEF S, U
    <2>2. crashes = 0 => Cardinality(U) <= MaxDaemons
      BY <1>1, <2>1 DEF CapInv, DaemonsCapped, S
    <2> QED
      BY <1>2, <2>2 DEF CapInv, DaemonsCapped, U
  <1>3. ASSUME NEW r \in Slots, Turn(r)
        PROVE  CapInv'
    <2>1. UNCHANGED <<up, crashes>>
      BY <1>3, TurnRests DEF world
    <2>2. ASSUME NEW d \in Daemons, ~daemon_capacity_exceeded(d),
                 \A e \in Daemons \ {d} : inner'.daemons[e] = inner.daemons[e]
          PROVE  CapInv'
      <3>1. CASE d \in S
        <4>1. U \subseteq S
          BY <2>2, <3>1
        <4> QED
          BY <1>2, <2>1, <4>1
      <3>2. CASE d \notin S
        <4>1. ~(Cardinality(S) >= MaxDaemons)
          BY <2>2, <3>2 DEF daemon_capacity_exceeded
        <4>2. U \subseteq S \cup {d}
          BY <2>2
        <4>3. IsFiniteSet(S \cup {d}) /\ Cardinality(S \cup {d}) = Cardinality(S) + 1
          BY <1>1, <3>2, FS_AddElement
        <4>4. Cardinality(U) <= Cardinality(S \cup {d})
          BY <4>2, <4>3, FS_Subset
        <4> HIDE DEF S, U
        <4>5. Cardinality(U) <= MaxDaemons
          BY <1>1, <4>1, <4>3, <4>4
        <4> QED
          BY <2>1, <4>5 DEF CapInv, DaemonsCapped, U
      <3> QED
        BY <3>1, <3>2
    <2>3. CASE \A e \in Daemons : inner'.daemons[e] # None => inner.daemons[e] # None
      <3>1. U \subseteq S
        BY <2>3
      <3> QED
        BY <1>2, <2>1, <3>1
    <2>4. CapMoves
      BY <1>3, CapTurns
    <2> QED
      BY <2>2, <2>3, <2>4 DEF CapMoves
  <1>4. CASE Tick \/ UNCHANGED vars
    <2>1. UNCHANGED <<inner, up, crashes>>
      BY <1>4 DEF Tick, vars
    <2> QED
      BY <1>2, <2>1
  <1>5. CASE CrashTurn
    BY <1>5 DEF CrashTurn, Typed, CapInv, DaemonsCapped
  <1>6. CASE RestartTurn
    BY <1>6 DEF RestartTurn, Typed, CapInv, DaemonsCapped
  <1> QED
    BY <1>3, <1>4, <1>5, <1>6 DEF Turns

LEMMA CapInit ==
  ASSUME Typed, Init
  PROVE  CapInv
  <1>1. {d \in Daemons : inner.daemons[d] # None} = DOMAIN scenario.registered
    <2>1. PICK S \in SUBSET Daemons : scenario.registered \in [S -> Keys]
      BY Environment
    <2>2. \A d \in S : [key |-> scenario.registered[d], at |-> 0] \in DaemonRegistration
      BY <2>1, RelayAssumption DEF DaemonRegistration, Times
    <2> QED
      BY <2>1, <2>2, RelayAssumption DEF Init, Fresh
  <1> QED
    BY <1>1, Environment DEF Init, CapInv, DaemonsCapped

-----------------------------------------------------------------------------
(***************************************************************************)
(* Claims.  Who may change a daemon or a token, and what is acknowledged of it.*)
(***************************************************************************)

\* Request r is acknowledged: for its daemon, or for its token.
AcksKey(r, x) ==
  /\ req[r].pc = "save" /\ req[r].alone /\ x = req[r].m.d /\ Ends(r)
  /\ acked'[x] # None
  /\ acked'[x].val = req[r].reg.key /\ acked'[x].at = req[r].reg.at
  /\ store'.daemons[x] = req[r].reg /\ UNCHANGED inner
AcksToken(r, x) ==
  /\ req[r].pc = "bound" /\ req[r].alone /\ x = req[r].m.item /\ Ends(r)
  /\ acked'[x] # None
  /\ acked'[x].val = req[r].m.d /\ acked'[x].at = req[r].reg.at
  /\ inner'.tokens[x] = req[r].reg /\ UNCHANGED store

AckMoves(r, x) ==
  acked'[x] = None \/ acked'[x] = acked[x] \/ AcksKey(r, x) \/ AcksToken(r, x)

ClaimMoves(r) ==
  \/ Live(r)' => /\ Live(r) /\ req'[r].subject = req[r].subject
                 /\ req'[r].alone => req[r].alone
  \/ \E xs \in SUBSET (Daemons \cup Tokens) :
       /\ Claims(r, xs) /\ \A x \in xs : acked'[x] = None
       /\ req'[r].subject = (IF Live(r) THEN req[r].subject ELSE {}) \cup xs
       /\ req'[r].alone => /\ Live(r) => req[r].alone
                           /\ \A q \in Slots \ {r} : Live(q) => req[q].subject \cap xs = {}

LEMMA AckTurns ==
  ASSUME Typed, PhaseInv, NEW x \in Daemons \cup Tokens, NEW r \in Slots,
         Turn(r)
  PROVE  AckMoves(r, x)
  <1>1. ASSUME NEW m \in scenario.msgs, ArriveTurn(r, m)
        PROVE  AckMoves(r, x)
    <2>1. UNCHANGED acked \/ \E xs : Disturb(xs)
      BY <1>1 DEF ArriveTurn, MemoryPrune
    <2> QED
      BY <2>1, DisturbIs DEF AckMoves, Typed, Acks
  <1>2. ASSUME NEW m \in scenario.msgs, RegisterTurn(r, m)
        PROVE  AckMoves(r, x)
    <2>1. UNCHANGED acked \/ \E xs : Disturb(xs)
      BY <1>2 DEF RegisterTurn, MemoryPrune
    <2> QED
      BY <2>1, DisturbIs DEF AckMoves, Typed, Acks
  <1>3. ASSUME NEW m \in scenario.msgs, ResolveTurn(r, m)
        PROVE  AckMoves(r, x)
    <2>1. UNCHANGED acked
      BY <1>3 DEF ResolveTurn, noted
    <2> QED
      BY <2>1 DEF AckMoves
  <1>4. CASE \/ PruneTurn(r) \/ LookupTurn(r) \/ EvictTurn(r)
            \/ LookupTokenTurn(r) \/ DeliverTurn(r)
    <2>1. UNCHANGED acked \/ \E xs : Disturb(xs)
      BY <1>4 DEF PruneTurn, LookupTurn, EvictTurn, LookupTokenTurn,
         DeliverTurn, MemoryPrune
    <2> QED
      BY <2>1, DisturbIs DEF AckMoves, Typed, Acks
  <1>5. CASE \/ CheckTurn(r) \/ AdmitTurn(r) \/ RecordTurn(r)
            \/ TouchTurn(r) \/ EnterProofTurn(r) \/ RecordProofTurn(r)
    <2>1. UNCHANGED acked
      BY <1>5 DEF CheckTurn, AdmitTurn, RecordTurn, TouchTurn, EnterProofTurn,
         RecordProofTurn, noted
    <2> QED
      BY <2>1 DEF AckMoves
  <1>6. CASE \/ CommitTurn(r) \/ UndoTurn(r) \/ RemoveTurn(r)
            \/ ForgetTurn(r) \/ BindTurn(r) \/ TouchTokenTurn(r)
    <2>1. UNCHANGED acked
      BY <1>6 DEF CommitTurn, UndoTurn, RemoveTurn, ForgetTurn, BindTurn,
         TouchTokenTurn, noted
    <2> QED
      BY <2>1 DEF AckMoves
  <1>7. CASE SaveTurn(r)
    <2>1. CASE UNCHANGED acked
      BY <2>1 DEF AckMoves
    <2>2. CASE ~UNCHANGED acked
      <3>1. /\ Live(r) /\ req[r].pc = "save" /\ Ends(r) /\ UNCHANGED inner
            /\ SetsDaemon(store, store', req[r].m.d, req[r].reg)
            /\ Ack(r, req[r].m.d, req[r].reg.key, req[r].reg.at)
        BY <1>7, <2>2 DEF SaveTurn, Live
      <3>2. /\ req[r].m.d \in Daemons /\ req[r].reg.key \in Keys
            /\ req[r].reg.at \in Times /\ acked \in Acks
        BY <3>1, InProgress, MessageFields
           DEF Sound, SoundKeys, DaemonRegistration, Typed, Acks
      <3>3. /\ \A y \in (Daemons \cup Tokens) \ {req[r].m.d} : acked'[y] = acked[y]
            /\ \/ acked'[req[r].m.d] = acked[req[r].m.d]
               \/ /\ req[r].alone /\ acked'[req[r].m.d] # None
                  /\ acked'[req[r].m.d].val = req[r].reg.key
                  /\ acked'[req[r].m.d].at = req[r].reg.at
        <4> DEFINE d == req[r].m.d
                   k == req[r].reg.key
                   at == req[r].reg.at
        <4>1. d \in Daemons \cup Tokens /\ k \in Daemons \cup Keys /\ at \in Times
              /\ Ack(r, d, k, at)
          BY <3>1, <3>2
        <4> HIDE DEF d, k, at
        <4>2. /\ \A y \in (Daemons \cup Tokens) \ {d} : acked'[y] = acked[y]
              /\ \/ acked'[d] = acked[d]
                 \/ req[r].alone /\ acked'[d] # None /\ acked'[d].val = k /\ acked'[d].at = at
          BY <3>2, <4>1, AckIs
        <4> QED
          BY <4>2 DEF d, k, at
      <3> QED
        BY <3>1, <3>2, <3>3 DEF AckMoves, AcksKey, SetsDaemon
    <2> QED
      BY <2>1, <2>2
  <1>8. CASE BoundTurn(r)
    <2>1. /\ Live(r) /\ req[r].pc = "bound" /\ Ends(r) /\ UNCHANGED store
          /\ SetsToken(inner, inner', req[r].m.item, req[r].reg)
          /\ Ack(r, req[r].m.item, req[r].m.d, req[r].reg.at)
      BY <1>8 DEF BoundTurn, Live
    <2>2. /\ req[r].m.d \in Daemons /\ req[r].m.item \in Tokens
          /\ req[r].reg.at \in Times /\ acked \in Acks
      BY <2>1, InProgress, MessageFields
         DEF Sound, SoundTokens, Binding, Sensible, TokenOwner, Typed, Acks
    <2>3. /\ \A y \in (Daemons \cup Tokens) \ {req[r].m.item} : acked'[y] = acked[y]
          /\ \/ acked'[req[r].m.item] = acked[req[r].m.item]
             \/ /\ req[r].alone /\ acked'[req[r].m.item] # None
                /\ acked'[req[r].m.item].val = req[r].m.d
                /\ acked'[req[r].m.item].at = req[r].reg.at
      <3> DEFINE t == req[r].m.item
                 d == req[r].m.d
                 at == req[r].reg.at
      <3>1. t \in Daemons \cup Tokens /\ d \in Daemons \cup Keys /\ at \in Times
            /\ Ack(r, t, d, at)
        BY <2>1, <2>2
      <3> HIDE DEF t, d, at
      <3>2. /\ \A y \in (Daemons \cup Tokens) \ {t} : acked'[y] = acked[y]
            /\ \/ acked'[t] = acked[t]
               \/ req[r].alone /\ acked'[t] # None /\ acked'[t].val = d /\ acked'[t].at = at
        BY <2>2, <3>1, AckIs
      <3> QED
        BY <3>2 DEF t, d, at
    <2> QED
      BY <2>1, <2>2, <2>3 DEF AckMoves, AcksToken, SetsToken
  <1>9. CASE \/ TouchBindingTurn(r) \/ EvictCodesTurn(r) \/ SupersedeTurn(r)
            \/ SaveCodeTurn(r) \/ ShowTurn(r) \/ ForgetCodeTurn(r)
    <2>1. UNCHANGED acked
      BY <1>9 DEF TouchBindingTurn, EvictCodesTurn, SupersedeTurn,
         SaveCodeTurn, ShowTurn, ForgetCodeTurn, noted
    <2> QED
      BY <2>1 DEF AckMoves
  <1>10. CASE DeleteCodeTurn(r) \/ DropTurn(r)
    <2>1. UNCHANGED acked
      BY <1>10 DEF DeleteCodeTurn, DropTurn, noted
    <2> QED
      BY <2>1 DEF AckMoves
  <1> QED
    BY <1>1, <1>2, <1>3, <1>4, <1>5, <1>6, <1>7, <1>8, <1>9, <1>10 DEF Turn

LEMMA ClaimTurns ==
  ASSUME Typed, PhaseInv, NEW r \in Slots, Turn(r)
  PROVE  ClaimMoves(r)
  <1>1. ASSUME NEW m \in scenario.msgs, ArriveTurn(r, m)
        PROVE  ClaimMoves(r)
    <2> DEFINE xs == ClaimedBy(m)
    <2>1. xs \in SUBSET (Daemons \cup Tokens)
      BY <1>1, Environment, MessageFields DEF ArriveTurn, Sensible, ClaimedBy
    <2>2. /\ ~Live(r) /\ Claims(r, xs) /\ req'[r].subject = xs
          /\ req'[r].alone => \A q \in Slots \ {r} : Live(q) => req[q].subject \cap xs = {}
      BY <1>1 DEF ArriveTurn, Enters
    <2>3. \A x \in xs : acked'[x] = None
      <3>1. acked \in Acks
        BY DEF Typed, Acks
      <3> QED
        BY <1>1, <2>1, <3>1, DisturbIs DEF ArriveTurn, MemoryPrune
    <2> HIDE DEF xs
    <2> QED
      BY <2>1, <2>2, <2>3 DEF ClaimMoves
  <1>2. ASSUME NEW m \in scenario.msgs, RegisterTurn(r, m)
        PROVE  ClaimMoves(r)
    <2> DEFINE xs == {m.d}
    <2>1. xs \in SUBSET (Daemons \cup Tokens)
      BY <1>2, Environment, MessageFields DEF RegisterTurn, Sensible, ClaimedBy
    <2>2. /\ ~Live(r) /\ Claims(r, xs) /\ req'[r].subject = xs
          /\ req'[r].alone => \A q \in Slots \ {r} : Live(q) => req[q].subject \cap xs = {}
      BY <1>2 DEF RegisterTurn, Enters
    <2>3. \A x \in xs : acked'[x] = None
      <3>1. acked \in Acks
        BY DEF Typed, Acks
      <3> QED
        BY <1>2, <2>1, <3>1, DisturbIs DEF RegisterTurn, MemoryPrune
    <2> HIDE DEF xs
    <2> QED
      BY <2>1, <2>2, <2>3 DEF ClaimMoves
  <1>3. ASSUME NEW m \in scenario.msgs, ResolveTurn(r, m)
        PROVE  ClaimMoves(r)
    <2>1. Claims(r, {}) /\ ~Live(r) /\ req'[r].subject = {}
      BY <1>3 DEF ResolveTurn, Enters
    <2> QED
      BY <2>1 DEF ClaimMoves
  <1>4. CASE PruneTurn(r)
    BY <1>4 DEF PruneTurn, ClaimMoves, Ends, Goes, Continues, Halts, Proceeds,
       Idle, Live
  <1>5. CASE CheckTurn(r)
    BY <1>5 DEF CheckTurn, ClaimMoves, Ends, Goes, Continues, Halts, Proceeds,
       Idle, Live
  <1>6. CASE AdmitTurn(r)
    BY <1>6 DEF AdmitTurn, ClaimMoves, Ends, Goes, Continues, Halts, Proceeds,
       Idle, Live
  <1>7. CASE RecordTurn(r)
    BY <1>7 DEF RecordTurn, ClaimMoves, Ends, Goes, Continues, Halts,
       Proceeds, Idle, Live
  <1>8. CASE TouchTurn(r)
    BY <1>8 DEF TouchTurn, ClaimMoves, Ends, Goes, Continues, Halts, Proceeds,
       Idle, Live
  <1>9. CASE EnterProofTurn(r)
    BY <1>9 DEF EnterProofTurn, ClaimMoves, Ends, Goes, Continues, Halts,
       Proceeds, Idle, Live
  <1>10. CASE RecordProofTurn(r)
    BY <1>10 DEF RecordProofTurn, ClaimMoves, Ends, Goes, Continues, Halts,
       Proceeds, Idle, Live
  <1>11. CASE LookupTurn(r)
    BY <1>11 DEF LookupTurn, ClaimMoves, Ends, Goes, Continues, Halts,
       Proceeds, Idle, Live
  <1>12. CASE CommitTurn(r)
    BY <1>12 DEF CommitTurn, ClaimMoves, Ends, Goes, Continues, Halts,
       Proceeds, Idle, Live
  <1>13. CASE SaveTurn(r)
    BY <1>13 DEF SaveTurn, ClaimMoves, Ends, Goes, Continues, Halts, Proceeds,
       Idle, Live
  <1>14. CASE UndoTurn(r)
    BY <1>14 DEF UndoTurn, ClaimMoves, Ends, Goes, Continues, Halts, Proceeds,
       Idle, Live
  <1>15. CASE EvictTurn(r)
    <2>1. CASE \E t \in Tokens : Grows(r, "evict", t) /\ Disturb({t})
      <3>1. PICK t \in Tokens : Grows(r, "evict", t) /\ Disturb({t})
        BY <2>1
      <3>2. acked'[t] = None
        BY <3>1, DisturbIs DEF Typed, Acks
      <3>3. /\ Live(r) /\ Claims(r, {t}) /\ req'[r].subject = req[r].subject \cup {t}
            /\ req'[r].alone =>
                 /\ req[r].alone
                 /\ \A q \in Slots \ {r} : Live(q) => req[q].subject \cap {t} = {}
        BY <1>15, <3>1 DEF EvictTurn, Grows, Live
      <3> QED
        BY <3>2, <3>3 DEF ClaimMoves
    <2>2. CASE ~\E t \in Tokens : Grows(r, "evict", t) /\ Disturb({t})
      <3> QED
        BY <1>15, <2>2 DEF EvictTurn, ClaimMoves, Ends, Goes, Continues, Idle,
           Live
    <2> QED
      BY <2>1, <2>2
  <1>16. CASE RemoveTurn(r)
    BY <1>16 DEF RemoveTurn, ClaimMoves, Ends, Goes, Continues, Halts,
       Proceeds, Idle, Live
  <1>17. CASE ForgetTurn(r)
    BY <1>17 DEF ForgetTurn, ClaimMoves, Ends, Goes, Continues, Halts,
       Proceeds, Idle, Live
  <1>18. CASE BindTurn(r)
    BY <1>18 DEF BindTurn, ClaimMoves, Ends, Goes, Continues, Halts, Proceeds,
       Idle, Live
  <1>19. CASE BoundTurn(r)
    BY <1>19 DEF BoundTurn, ClaimMoves, Ends, Goes, Continues, Halts,
       Proceeds, Idle, Live
  <1>20. CASE LookupTokenTurn(r)
    <2>1. CASE \E t \in Tokens : Grows(r, "remove", t) /\ Disturb({t})
      <3>1. PICK t \in Tokens : Grows(r, "remove", t) /\ Disturb({t})
        BY <2>1
      <3>2. acked'[t] = None
        BY <3>1, DisturbIs DEF Typed, Acks
      <3>3. /\ Live(r) /\ Claims(r, {t}) /\ req'[r].subject = req[r].subject \cup {t}
            /\ req'[r].alone =>
                 /\ req[r].alone
                 /\ \A q \in Slots \ {r} : Live(q) => req[q].subject \cap {t} = {}
        BY <1>20, <3>1 DEF LookupTokenTurn, Grows, Live
      <3> QED
        BY <3>2, <3>3 DEF ClaimMoves
    <2>2. CASE ~\E t \in Tokens : Grows(r, "remove", t) /\ Disturb({t})
      <3>1. req[r].m.item \in Tokens
        BY <1>20, InProgress DEF LookupTokenTurn, Live, Sound, SoundTokens, Sensible
      <3>2. ~(Grows(r, "remove", req[r].m.item) /\ Disturb({req[r].m.item}))
        BY <2>2, <3>1
      <3> QED
        BY <1>20, <3>2 DEF LookupTokenTurn, ClaimMoves, Ends, Goes, Continues,
           Idle, Live
    <2> QED
      BY <2>1, <2>2
  <1>21. CASE DeliverTurn(r)
    <2>1. CASE \E t \in Tokens : Grows(r, "remove", t) /\ Disturb({t})
      <3>1. PICK t \in Tokens : Grows(r, "remove", t) /\ Disturb({t})
        BY <2>1
      <3>2. acked'[t] = None
        BY <3>1, DisturbIs DEF Typed, Acks
      <3>3. /\ Live(r) /\ Claims(r, {t}) /\ req'[r].subject = req[r].subject \cup {t}
            /\ req'[r].alone =>
                 /\ req[r].alone
                 /\ \A q \in Slots \ {r} : Live(q) => req[q].subject \cap {t} = {}
        BY <1>21, <3>1 DEF DeliverTurn, Grows, Live
      <3> QED
        BY <3>2, <3>3 DEF ClaimMoves
    <2>2. CASE ~\E t \in Tokens : Grows(r, "remove", t) /\ Disturb({t})
      <3>1. req[r].m.item \in Tokens
        BY <1>21, InProgress DEF DeliverTurn, Live, Sound, SoundTokens, Sensible
      <3>2. ~(Grows(r, "remove", req[r].m.item) /\ Disturb({req[r].m.item}))
        BY <2>2, <3>1
      <3> QED
        BY <1>21, <3>2 DEF DeliverTurn, ClaimMoves, Ends, Goes, Continues, Idle,
           Live
    <2> QED
      BY <2>1, <2>2
  <1>22. CASE TouchTokenTurn(r)
    BY <1>22 DEF TouchTokenTurn, ClaimMoves, Ends, Goes, Continues, Halts,
       Proceeds, Idle, Live
  <1>23. CASE TouchBindingTurn(r)
    BY <1>23 DEF TouchBindingTurn, ClaimMoves, Ends, Goes, Continues, Halts,
       Proceeds, Idle, Live
  <1>24. CASE EvictCodesTurn(r)
    BY <1>24 DEF EvictCodesTurn, ClaimMoves, Ends, Goes, Continues, Halts,
       Proceeds, Idle, Live
  <1>25. CASE SupersedeTurn(r)
    BY <1>25 DEF SupersedeTurn, ClaimMoves, Ends, Goes, Continues, Halts,
       Proceeds, Idle, Live
  <1>26. CASE SaveCodeTurn(r)
    BY <1>26 DEF SaveCodeTurn, ClaimMoves, Ends, Goes, Continues, Halts,
       Proceeds, Idle, Live
  <1>27. CASE ShowTurn(r)
    BY <1>27 DEF ShowTurn, ClaimMoves, Ends, Goes, Continues, Halts, Proceeds,
       Idle, Live
  <1>28. CASE ForgetCodeTurn(r)
    BY <1>28 DEF ForgetCodeTurn, ClaimMoves, Ends, Goes, Continues, Halts,
       Proceeds, Idle, Live
  <1>29. CASE DeleteCodeTurn(r)
    BY <1>29 DEF DeleteCodeTurn, ClaimMoves, Ends, Goes, Continues, Halts,
       Proceeds, Idle, Live
  <1>30. CASE DropTurn(r)
    BY <1>30 DEF DropTurn, Same, ClaimMoves
  <1> QED
    BY <1>1, <1>2, <1>3, <1>4, <1>5, <1>6, <1>7, <1>8, <1>9, <1>10, <1>11,
       <1>12, <1>13, <1>14, <1>15, <1>16, <1>17, <1>18, <1>19, <1>20, <1>21,
       <1>22, <1>23, <1>24, <1>25, <1>26, <1>27, <1>28, <1>29, <1>30 DEF Turn

\* Who is alone shares nothing, and nothing that is acknowledged is being changed.
LEMMA AloneStep ==
  ASSUME Typed, PhaseInv, ClaimInv, NEW r \in Slots, Turn(r),
         NEW p \in Slots, NEW q \in Slots, p # q, Live(p)', Live(q)', req'[p].alone
  PROVE  req'[p].subject \cap req'[q].subject = {}
  <1>1. /\ \A o \in Slots \ {r} : Same(o)
        /\ \A o, s \in Slots : o # s /\ Live(o) /\ Live(s) /\ req[o].alone =>
             req[o].subject \cap req[s].subject = {}
    BY TurnRests DEF ClaimInv
  <1>2. CASE /\ Live(r)' => /\ Live(r) /\ req'[r].subject = req[r].subject
                            /\ req'[r].alone => req[r].alone
    <2>1. \A o \in {p, q} : /\ Live(o) /\ req'[o].subject = req[o].subject
                            /\ req'[o].alone => req[o].alone
      BY <1>1, <1>2 DEF Same, Live
    <2> QED
      BY <1>1, <2>1
  <1>3. ASSUME NEW xs \in SUBSET (Daemons \cup Tokens), Claims(r, xs),
               req'[r].subject = (IF Live(r) THEN req[r].subject ELSE {}) \cup xs,
               req'[r].alone =>
                 /\ Live(r) => req[r].alone
                 /\ \A o \in Slots \ {r} : Live(o) => req[o].subject \cap xs = {}
        PROVE  req'[p].subject \cap req'[q].subject = {}
    <2>1. \A o \in {p, q} \ {r} : /\ Live(o) /\ req'[o].subject = req[o].subject
                                  /\ req'[o].alone => req[o].alone
      BY <1>1 DEF Same, Live
    <2>2. CASE p = r
      BY <1>1, <1>3, <2>1, <2>2
    <2>3. CASE q = r
      <3>1. req[p].subject \cap xs = {}
        BY <1>3, <2>1, <2>3 DEF Claims
      <3> QED
        BY <1>1, <1>3, <2>1, <2>3, <3>1
    <2>4. CASE p # r /\ q # r
      BY <1>1, <2>1, <2>4
    <2> QED
      BY <2>2, <2>3, <2>4
  <1> QED
    BY <1>2, <1>3, ClaimTurns DEF ClaimMoves

\* The dates that matter for what is acknowledged.
LEMMA Dates ==
  ASSUME Typed, PhaseInv
  PROVE  /\ clock \in Nat /\ Timeout \in Nat /\ Retention \in Nat /\ TokenTTL \in Nat
         /\ \A q \in Slots : Live(q) => /\ req[q].now \in Nat /\ req[q].now <= clock
                                        /\ clock <= req[q].now + Timeout
         /\ \A q \in Slots : req[q].pc \in {"save", "bound", "bind", "touch", "touched"} =>
              /\ req[q].reg.at \in Nat /\ req[q].reg.at <= clock
              /\ req[q].now <= req[q].reg.at
         /\ \A x \in Daemons \cup Tokens : acked[x] # None => acked[x].at \in Nat
  <1>1. ASSUME NEW q \in Slots, req[q].pc \in {"save", "bound", "bind", "touch", "touched"}
        PROVE  /\ req[q].reg.at \in Nat /\ req[q].reg.at <= clock
               /\ req[q].now <= req[q].reg.at
    <2>1. Live(q)
      BY <1>1 DEF Live
    <2>2. CASE req[q].pc = "save"
      BY <2>1, <2>2, InProgress, RelayAssumption
         DEF Sound, SoundKeys, DaemonRegistration, Times
    <2>3. CASE req[q].pc # "save"
      <3>1. /\ req[q].reg \in TokenOwner /\ req[q].reg.at <= clock
            /\ req[q].now <= req[q].reg.at
        BY <1>1, <2>1, <2>3, InProgress DEF Sound, SoundTokens
      <3> QED
        BY <3>1, RelayAssumption DEF TokenOwner, Times
    <2> QED
      BY <2>2, <2>3
  <1>2. \A q \in Slots : Live(q) => /\ req[q].now \in Nat /\ req[q].now <= clock
                                    /\ clock <= req[q].now + Timeout
    BY DatesAreNaturals, InProgress DEF Sound, Aged
  <1>3. \A x \in Daemons \cup Tokens : acked[x] # None => acked[x].at \in Nat
    BY RelayAssumption DEF Typed, Acknowledgement, Times
  <1> QED
    BY <1>1, <1>2, <1>3, DatesAreNaturals

LEMMA AcknowledgedStep ==
  ASSUME Typed, PhaseInv, ClaimInv, NEW r \in Slots, Turn(r),
         NEW x \in Daemons \cup Tokens, acked'[x] # None
  PROVE  /\ acked'[x].at <= clock
         /\ \A q \in Slots : Live(q)' => x \notin req'[q].subject
                                         /\ acked'[x].at <= req'[q].now + Timeout
  <1>1. /\ \A q \in Slots \ {r} : Same(q)
        /\ AckMoves(r, x) /\ ClaimMoves(r) /\ NowMoves(r)
    BY TurnRests, AckTurns, ClaimTurns, NowTurns
  <1>2. \A q \in Slots : Live(q)' => \/ Live(q) /\ req'[q].now = req[q].now
                                     \/ req'[q].now = clock
    BY <1>1 DEF NowMoves, Same, Live
  <1>3. CASE acked'[x] = acked[x]
    <2>1. /\ acked[x].at <= clock /\ acked[x].at \in Nat
          /\ \A q \in Slots : Live(q) => x \notin req[q].subject
                                         /\ acked[x].at <= req[q].now + Timeout
      BY <1>3, Dates DEF ClaimInv
    <2>2. \A q \in Slots : Live(q)' => x \notin req'[q].subject
      <3>1. \A q \in Slots \ {r} : Live(q)' => x \notin req'[q].subject
        BY <1>1, <2>1 DEF Same, Live
      <3>2. Live(r)' => x \notin req'[r].subject
        BY <1>1, <2>1 DEF ClaimMoves
      <3> QED
        BY <3>1, <3>2
    <2> QED
      BY <1>2, <1>3, <2>1, <2>2, Dates
  <1>4. CASE AcksKey(r, x) \/ AcksToken(r, x)
    <2>1. /\ Live(r) /\ req[r].pc \in {"save", "bound"} /\ req[r].alone /\ Ends(r)
          /\ acked'[x].at = req[r].reg.at
      BY <1>4 DEF AcksKey, AcksToken, Live
    <2>2. x \in req[r].subject
      <3>1. CASE AcksKey(r, x)
        <4>1. req[r].pc = "save" /\ x = req[r].m.d
          BY <3>1 DEF AcksKey
        <4> QED
          BY <2>1, <4>1, InProgress DEF Sound, SoundKeys, Registering
      <3>2. CASE AcksToken(r, x)
        <4>1. req[r].pc = "bound" /\ x = req[r].m.item
          BY <3>2 DEF AcksToken
        <4> QED
          BY <2>1, <4>1, InProgress DEF Sound, SoundTokens, Binding
      <3> QED
        BY <1>4, <3>1, <3>2
    <2>3. req[r].reg.at \in Nat /\ req[r].reg.at <= clock
      BY <2>1, Dates
    <2>4. ASSUME NEW q \in Slots, Live(q)'
          PROVE  x \notin req'[q].subject
      <3>1. q # r
        BY <2>1, <2>4 DEF Ends, Live, Idle
      <3>2. Live(q) /\ req'[q].subject = req[q].subject
        BY <1>1, <2>4, <3>1 DEF Same, Live
      <3> QED
        BY <2>1, <2>2, <3>1, <3>2 DEF ClaimInv
    <2>5. \A q \in Slots : Live(q)' => req[r].reg.at <= req'[q].now + Timeout
      BY <1>2, <2>3, Dates
    <2> QED
      BY <2>1, <2>3, <2>4, <2>5
  <1> QED
    BY <1>1, <1>3, <1>4 DEF AckMoves

LEMMA ClaimStep ==
  ASSUME Typed, PhaseInv, ClaimInv, Turns
  PROVE  ClaimInv'
  <1>1. ASSUME NEW r \in Slots, Turn(r)
        PROVE  ClaimInv'
    <2>1. clock' = clock
      BY <1>1, TurnRests DEF world
    <2> QED
      BY <1>1, <2>1, AloneStep, AcknowledgedStep DEF ClaimInv
  <1>2. CASE Tick
    <2>1. clock' = clock + 1 /\ UNCHANGED <<req, acked>> /\ clock \in Nat
      BY <1>2, Dates DEF Tick, noted
    <2> QED
      BY <2>1, Dates DEF ClaimInv, Live
  <1>3. CASE CrashTurn
    BY <1>3 DEF CrashTurn, ClaimInv, Live, Idle
  <1>4. CASE RestartTurn
    <2>1. /\ clock' = clock /\ \A q \in Slots : ~Live(q)'
          /\ \A x \in Daemons \cup Tokens : acked'[x] \in {None, acked[x]}
      BY <1>4, DisturbIs DEF RestartTurn, PhaseInv, Live, Typed, Acks
    <2>2. ASSUME NEW x \in Daemons \cup Tokens, acked'[x] # None
          PROVE  acked'[x].at <= clock'
      BY <2>1, <2>2 DEF ClaimInv
    <2> QED
      BY <2>1, <2>2 DEF ClaimInv
  <1>5. CASE UNCHANGED vars
    BY <1>5 DEF vars, ClaimInv, Live
  <1> QED
    BY <1>1, <1>2, <1>3, <1>4, <1>5 DEF Turns

LEMMA ClaimInit ==
  ASSUME Init
  PROVE  ClaimInv
  BY DEF Init, ClaimInv, Live, Idle

-----------------------------------------------------------------------------
(***************************************************************************)
(* Acknowledged registrations (AckedKeyIsKept).                            *)
(***************************************************************************)

\* What a turn does to the registration of d in a table: nothing, or it prunes it,
\* dates it, or has claimed it.
KeyMoves(r, T, U, d, now) ==
  \/ U.daemons[d] = T.daemons[d]
  \/ /\ now \in Nat /\ now <= clock /\ U.daemons[d] = None
     /\ T.daemons[d] # None => T.daemons[d].at + Retention < now
  \/ /\ Live(r) /\ T.daemons[d] # None /\ U.daemons[d] # None
     /\ U.daemons[d].key = T.daemons[d].key /\ U.daemons[d].at = req[r].now
  \/ Live(r) /\ d \in req[r].subject

SaveMoves(r) ==
  req'[r].pc = "save" =>
    /\ Live(r) /\ req'[r].m = req[r].m
    /\ \/ /\ req[r].pc = "save" /\ req'[r].reg = req[r].reg /\ UNCHANGED inner
          /\ req'[r].alone => req[r].alone
       \/ inner'.daemons[req[r].m.d] = req'[r].reg

\* Only a daemon that has been idle for its retention is pruned.
LEMMA LapsedIs ==
  ASSUME Typed, NEW T \in Tables, NEW d \in Daemons, NEW now \in Nat,
         d \in Gone(T, now) \cup GoneFromMemory(T, now), T.daemons[d] # None
  PROVE  T.daemons[d].at + Retention < now
  <1>1. T.daemons[d].at \in Nat /\ Retention \in Nat
    BY TableFields, RelayAssumption DEF DaemonRegistration, Times
  <1>2. T.daemons[d].at < SaturatingSub(now, Retention)
    BY DEF Gone, GoneFromMemory, Lapsed
  <1> QED
    BY <1>1, <1>2 DEF SaturatingSub

LEMMA MemoryPrunes ==
  ASSUME Typed, NEW xs, MemoryPrune(xs), NEW r, NEW d \in Daemons
  PROVE  KeyMoves(r, inner, inner', d, clock)
  <1>1. clock \in Nat /\ inner \in Tables
    BY DatesAreNaturals DEF Typed
  <1>2. d \in GoneFromMemory(inner, clock) /\ inner.daemons[d] # None =>
          inner.daemons[d].at + Retention < clock
    BY <1>1, LapsedIs
  <1> QED
    BY <1>1, <1>2 DEF MemoryPrune, Pruned, KeyMoves

LEMMA InnerKeyTurns ==
  ASSUME Typed, PhaseInv, NEW d \in Daemons, NEW r \in Slots, Turn(r)
  PROVE  KeyMoves(r, inner, inner', d, clock)
  <1>1. ASSUME NEW m \in scenario.msgs, ArriveTurn(r, m)
        PROVE  KeyMoves(r, inner, inner', d, clock)
    BY <1>1, MemoryPrunes DEF ArriveTurn
  <1>2. ASSUME NEW m \in scenario.msgs, RegisterTurn(r, m)
        PROVE  KeyMoves(r, inner, inner', d, clock)
    <2>1. inner'.daemons = inner.daemons
      BY <1>2 DEF RegisterTurn, Halts, SetsToken, SetsCode, SetsNonce,
         NonceEntered, Refreshes
    <2> QED
      BY <2>1 DEF KeyMoves
  <1>3. ASSUME NEW m \in scenario.msgs, ResolveTurn(r, m)
        PROVE  KeyMoves(r, inner, inner', d, clock)
    <2>1. inner'.daemons = inner.daemons
      BY <1>3 DEF ResolveTurn, Halts, SetsToken, SetsCode, SetsNonce,
         NonceEntered, Refreshes
    <2> QED
      BY <2>1 DEF KeyMoves
  <1>4. CASE \/ PruneTurn(r) \/ CheckTurn(r) \/ AdmitTurn(r)
            \/ SaveTurn(r) \/ EvictTurn(r) \/ BindTurn(r)
    <2>1. inner'.daemons = inner.daemons
      BY <1>4 DEF PruneTurn, CheckTurn, AdmitTurn, SaveTurn, EvictTurn,
         BindTurn, Halts, SetsToken, SetsCode, SetsNonce, NonceEntered,
         Refreshes
    <2> QED
      BY <2>1 DEF KeyMoves
  <1>5. CASE \/ RecordTurn(r) \/ EnterProofTurn(r) \/ RecordProofTurn(r)
            \/ RemoveTurn(r) \/ ForgetTurn(r) \/ LookupTokenTurn(r)
    <2>1. inner'.daemons = inner.daemons
      BY <1>5 DEF RecordTurn, EnterProofTurn, RecordProofTurn, RemoveTurn,
         ForgetTurn, LookupTokenTurn, Halts, SetsToken, SetsCode, SetsNonce,
         NonceEntered, Refreshes
    <2> QED
      BY <2>1 DEF KeyMoves
  <1>6. CASE TouchTurn(r)
    <2>1. CASE UNCHANGED inner
      BY <2>1 DEF KeyMoves
    <2>2. CASE ~UNCHANGED inner
      <3>1. PICK new \in DaemonRegistration :
              LET old == inner.daemons[req[r].m.d]
              IN /\ old # None /\ new.key = old.key /\ new.at = req[r].now
                 /\ SetsDaemon(inner, inner', req[r].m.d, new)
        BY <1>6, <2>2 DEF TouchTurn
      <3>2. new # None /\ Live(r)
        BY <1>6, RelayAssumption DEF TouchTurn, Live
      <3> QED
        BY <3>1, <3>2 DEF SetsDaemon, KeyMoves
    <2> QED
      BY <2>1, <2>2
  <1>7. CASE LookupTurn(r)
    <2>1. CASE UNCHANGED inner
      BY <2>1 DEF KeyMoves
    <2>2. CASE MemoryPrune({})
      BY <2>2, MemoryPrunes
    <2> QED
      BY <1>7, <2>1, <2>2 DEF LookupTurn
  <1>8. CASE CommitTurn(r)
    <2>1. Live(r) /\ req[r].m.d \in req[r].subject
      BY <1>8, InProgress DEF CommitTurn, Live, Sound, SoundKeys, Registering
    <2>2. \A e \in Daemons \ {req[r].m.d} : inner'.daemons[e] = inner.daemons[e]
      BY <1>8 DEF CommitTurn, SetsDaemon
    <2> QED
      BY <2>1, <2>2 DEF KeyMoves
  <1>9. CASE UndoTurn(r)
    <2>1. Live(r) /\ req[r].m.d \in req[r].subject
      BY <1>9, InProgress DEF UndoTurn, Live, Sound, SoundKeys, Registering
    <2>2. \A e \in Daemons \ {req[r].m.d} : inner'.daemons[e] = inner.daemons[e]
      BY <1>9 DEF UndoTurn, SetsDaemon
    <2> QED
      BY <2>1, <2>2 DEF KeyMoves
  <1>10. CASE BoundTurn(r) \/ ShowTurn(r) \/ DropTurn(r)
    <2>1. inner'.daemons = inner.daemons
      BY <1>10 DEF BoundTurn, ShowTurn, DropTurn, Halts, SetsToken, SetsCode,
         SetsNonce, NonceEntered, Refreshes
    <2> QED
      BY <2>1 DEF KeyMoves
  <1>11. CASE \/ DeliverTurn(r) \/ TouchTokenTurn(r) \/ TouchBindingTurn(r)
             \/ EvictCodesTurn(r) \/ SupersedeTurn(r) \/ SaveCodeTurn(r)
    <2>1. inner'.daemons = inner.daemons
      BY <1>11 DEF DeliverTurn, TouchTokenTurn, TouchBindingTurn,
         EvictCodesTurn, SupersedeTurn, SaveCodeTurn, Halts, SetsToken,
         SetsCode, SetsNonce, NonceEntered, Refreshes
    <2> QED
      BY <2>1 DEF KeyMoves
  <1>12. CASE ForgetCodeTurn(r) \/ DeleteCodeTurn(r)
    <2>1. inner'.daemons = inner.daemons
      BY <1>12 DEF ForgetCodeTurn, DeleteCodeTurn, Halts, SetsToken, SetsCode,
         SetsNonce, NonceEntered, Refreshes
    <2> QED
      BY <2>1 DEF KeyMoves
  <1> QED
    BY <1>1, <1>2, <1>3, <1>4, <1>5, <1>6, <1>7, <1>8, <1>9, <1>10, <1>11,
       <1>12 DEF Turn

LEMMA StoreKeyTurns ==
  ASSUME Typed, PhaseInv, NEW d \in Daemons, NEW r \in Slots, Turn(r)
  PROVE  KeyMoves(r, store, store', d, req[r].now)
  <1>1. ASSUME NEW m \in scenario.msgs, ArriveTurn(r, m)
        PROVE  KeyMoves(r, store, store', d, req[r].now)
    <2>1. store'.daemons = store.daemons
      BY <1>1 DEF ArriveTurn, Halts, SetsToken, SetsCode, SetsNonce,
         NonceEntered, Refreshes
    <2> QED
      BY <2>1 DEF KeyMoves
  <1>2. ASSUME NEW m \in scenario.msgs, RegisterTurn(r, m)
        PROVE  KeyMoves(r, store, store', d, req[r].now)
    <2>1. store'.daemons = store.daemons
      BY <1>2 DEF RegisterTurn, Halts, SetsToken, SetsCode, SetsNonce,
         NonceEntered, Refreshes
    <2> QED
      BY <2>1 DEF KeyMoves
  <1>3. ASSUME NEW m \in scenario.msgs, ResolveTurn(r, m)
        PROVE  KeyMoves(r, store, store', d, req[r].now)
    <2>1. store'.daemons = store.daemons
      BY <1>3 DEF ResolveTurn, Halts, SetsToken, SetsCode, SetsNonce,
         NonceEntered, Refreshes
    <2> QED
      BY <2>1 DEF KeyMoves
  <1>4. CASE PruneTurn(r)
    <2>1. Live(r) /\ req[r].now \in Nat /\ req[r].now <= clock /\ store \in Tables
      BY <1>4, Dates DEF PruneTurn, Live, Typed
    <2>2. d \in Gone(store, req[r].now) /\ store.daemons[d] # None =>
            store.daemons[d].at + Retention < req[r].now
      BY <2>1, LapsedIs
    <2> QED
      BY <1>4, <2>1, <2>2 DEF PruneTurn, Pruned, KeyMoves
  <1>5. CASE \/ CheckTurn(r) \/ AdmitTurn(r) \/ TouchTurn(r)
            \/ UndoTurn(r) \/ EvictTurn(r) \/ BindTurn(r)
    <2>1. store'.daemons = store.daemons
      BY <1>5 DEF CheckTurn, AdmitTurn, TouchTurn, UndoTurn, EvictTurn,
         BindTurn, Halts, SetsToken, SetsCode, SetsNonce, NonceEntered,
         Refreshes
    <2> QED
      BY <2>1 DEF KeyMoves
  <1>6. CASE RecordTurn(r)
    <2>1. CASE UNCHANGED store
      BY <2>1 DEF KeyMoves
    <2>2. CASE ~UNCHANGED store
      <3>1. PICK T \in Tables :
              LET old == store.daemons[req[r].m.d]
              IN /\ NonceEntered(store, T, req[r])
                 /\ \/ old = None /\ store' = T
                    \/ /\ old # None
                       /\ \E new \in DaemonRegistration :
                            /\ new.key = old.key /\ new.at = req[r].now
                            /\ SetsDaemon(T, store', req[r].m.d, new)
        BY <1>6, <2>2 DEF RecordTurn, Halts
      <3>2. T.daemons = store.daemons /\ Live(r)
        BY <1>6, <3>1 DEF RecordTurn, NonceEntered, SetsNonce, Live
      <3>3. CASE store' = T
        BY <3>2, <3>3 DEF KeyMoves
      <3>4. CASE \E new \in DaemonRegistration :
                   /\ store.daemons[req[r].m.d] # None
                   /\ new.key = store.daemons[req[r].m.d].key /\ new.at = req[r].now
                   /\ SetsDaemon(T, store', req[r].m.d, new)
        BY <3>2, <3>4, RelayAssumption DEF SetsDaemon, KeyMoves
      <3> QED
        BY <3>1, <3>3, <3>4
    <2> QED
      BY <2>1, <2>2
  <1>7. CASE \/ EnterProofTurn(r) \/ RecordProofTurn(r) \/ LookupTurn(r)
            \/ CommitTurn(r) \/ RemoveTurn(r) \/ ForgetTurn(r)
    <2>1. store'.daemons = store.daemons
      BY <1>7 DEF EnterProofTurn, RecordProofTurn, LookupTurn, CommitTurn,
         RemoveTurn, ForgetTurn, Halts, SetsToken, SetsCode, SetsNonce,
         NonceEntered, Refreshes
    <2> QED
      BY <2>1 DEF KeyMoves
  <1>8. CASE SaveTurn(r)
    <2>1. Live(r) /\ req[r].m.d \in req[r].subject
      BY <1>8, InProgress DEF SaveTurn, Live, Sound, SoundKeys, Registering
    <2>2. \A e \in Daemons \ {req[r].m.d} : store'.daemons[e] = store.daemons[e]
      BY <1>8 DEF SaveTurn, SetsDaemon
    <2> QED
      BY <2>1, <2>2 DEF KeyMoves
  <1>9. CASE BoundTurn(r) \/ ShowTurn(r) \/ DropTurn(r)
    <2>1. store'.daemons = store.daemons
      BY <1>9 DEF BoundTurn, ShowTurn, DropTurn, Halts, SetsToken, SetsCode,
         SetsNonce, NonceEntered, Refreshes
    <2> QED
      BY <2>1 DEF KeyMoves
  <1>10. CASE \/ LookupTokenTurn(r) \/ DeliverTurn(r) \/ TouchTokenTurn(r)
             \/ TouchBindingTurn(r) \/ EvictCodesTurn(r) \/ SupersedeTurn(r)
    <2>1. store'.daemons = store.daemons
      BY <1>10 DEF LookupTokenTurn, DeliverTurn, TouchTokenTurn,
         TouchBindingTurn, EvictCodesTurn, SupersedeTurn, Halts, SetsToken,
         SetsCode, SetsNonce, NonceEntered, Refreshes
    <2> QED
      BY <2>1 DEF KeyMoves
  <1>11. CASE SaveCodeTurn(r) \/ ForgetCodeTurn(r) \/ DeleteCodeTurn(r)
    <2>1. store'.daemons = store.daemons
      BY <1>11 DEF SaveCodeTurn, ForgetCodeTurn, DeleteCodeTurn, Halts,
         SetsToken, SetsCode, SetsNonce, NonceEntered, Refreshes
    <2> QED
      BY <2>1 DEF KeyMoves
  <1> QED
    BY <1>1, <1>2, <1>3, <1>4, <1>5, <1>6, <1>7, <1>8, <1>9, <1>10, <1>11 DEF
       Turn

LEMMA SavingTurns ==
  ASSUME Typed, PhaseInv, NEW r \in Slots, Turn(r)
  PROVE  SaveMoves(r)
  <1>1. ASSUME NEW m \in scenario.msgs, ArriveTurn(r, m)
        PROVE  SaveMoves(r)
    <2>1. req'[r].pc \in {"prune", Verify(m)}
      BY <1>1 DEF ArriveTurn, Enters
    <2> QED
      BY <2>1 DEF SaveMoves, Verify
  <1>2. ASSUME NEW m \in scenario.msgs, RegisterTurn(r, m)
        PROVE  SaveMoves(r)
    BY <1>2 DEF RegisterTurn, SaveMoves, Ends, Goes, Continues, Halts,
       Proceeds, Enters, Grows, Idle
  <1>3. ASSUME NEW m \in scenario.msgs, ResolveTurn(r, m)
        PROVE  SaveMoves(r)
    BY <1>3 DEF ResolveTurn, SaveMoves, Ends, Goes, Continues, Halts,
       Proceeds, Enters, Grows, Idle
  <1>4. CASE PruneTurn(r)
    <2>1. req'[r] = Idle \/ req'[r].pc = Verify(req[r].m)
      BY <1>4 DEF PruneTurn, Proceeds, Ends, Continues, Goes
    <2> QED
      BY <2>1 DEF SaveMoves, Verify, Idle
  <1>5. CASE CheckTurn(r)
    BY <1>5 DEF CheckTurn, SaveMoves, Ends, Goes, Continues, Halts, Proceeds,
       Enters, Grows, Idle
  <1>6. CASE AdmitTurn(r)
    BY <1>6 DEF AdmitTurn, SaveMoves, Ends, Goes, Continues, Halts, Proceeds,
       Enters, Grows, Idle
  <1>7. CASE RecordTurn(r)
    BY <1>7 DEF RecordTurn, SaveMoves, Ends, Goes, Continues, Halts, Proceeds,
       Enters, Grows, Idle
  <1>8. CASE TouchTurn(r)
    <2>1. Live(r) /\ req'[r].pc = Handler(req[r].m.kind)
      BY <1>8 DEF TouchTurn, Continues, Goes, Live
    <2>2. Handler(req[r].m.kind) # "save"
      BY <2>1, InProgress, MessageFields DEF Handler
    <2> QED
      BY <2>1, <2>2 DEF SaveMoves
  <1>9. CASE EnterProofTurn(r)
    BY <1>9 DEF EnterProofTurn, SaveMoves, Ends, Goes, Continues, Halts,
       Proceeds, Enters, Grows, Idle
  <1>10. CASE RecordProofTurn(r)
    BY <1>10 DEF RecordProofTurn, SaveMoves, Ends, Goes, Continues, Halts,
       Proceeds, Enters, Grows, Idle
  <1>11. CASE LookupTurn(r)
    BY <1>11 DEF LookupTurn, SaveMoves, Ends, Goes, Continues, Halts,
       Proceeds, Enters, Grows, Idle
  <1>12. CASE CommitTurn(r)
    BY <1>12 DEF CommitTurn, SaveMoves, Ends, Goes, Idle, Live, SetsDaemon
  <1>13. CASE SaveTurn(r)
    BY <1>13 DEF SaveTurn, SaveMoves, Ends, Goes, Continues, Halts, Proceeds,
       Enters, Grows, Idle
  <1>14. CASE UndoTurn(r)
    BY <1>14 DEF UndoTurn, SaveMoves, Ends, Goes, Continues, Halts, Proceeds,
       Enters, Grows, Idle
  <1>15. CASE EvictTurn(r)
    BY <1>15 DEF EvictTurn, SaveMoves, Ends, Goes, Continues, Halts, Proceeds,
       Enters, Grows, Idle
  <1>16. CASE RemoveTurn(r)
    BY <1>16 DEF RemoveTurn, SaveMoves, Ends, Goes, Continues, Halts,
       Proceeds, Enters, Grows, Idle
  <1>17. CASE ForgetTurn(r)
    BY <1>17 DEF ForgetTurn, SaveMoves, Ends, Goes, Continues, Halts,
       Proceeds, Enters, Grows, Idle
  <1>18. CASE BindTurn(r)
    BY <1>18 DEF BindTurn, SaveMoves, Ends, Goes, Continues, Halts, Proceeds,
       Enters, Grows, Idle
  <1>19. CASE BoundTurn(r)
    BY <1>19 DEF BoundTurn, SaveMoves, Ends, Goes, Continues, Halts, Proceeds,
       Enters, Grows, Idle
  <1>20. CASE LookupTokenTurn(r)
    BY <1>20 DEF LookupTokenTurn, SaveMoves, Ends, Goes, Continues, Halts,
       Proceeds, Enters, Grows, Idle
  <1>21. CASE DeliverTurn(r)
    BY <1>21 DEF DeliverTurn, SaveMoves, Ends, Goes, Continues, Halts,
       Proceeds, Enters, Grows, Idle
  <1>22. CASE TouchTokenTurn(r)
    BY <1>22 DEF TouchTokenTurn, SaveMoves, Ends, Goes, Continues, Halts,
       Proceeds, Enters, Grows, Idle
  <1>23. CASE TouchBindingTurn(r)
    BY <1>23 DEF TouchBindingTurn, SaveMoves, Ends, Goes, Continues, Halts,
       Proceeds, Enters, Grows, Idle
  <1>24. CASE EvictCodesTurn(r)
    BY <1>24 DEF EvictCodesTurn, SaveMoves, Ends, Goes, Continues, Halts,
       Proceeds, Enters, Grows, Idle
  <1>25. CASE SupersedeTurn(r)
    BY <1>25 DEF SupersedeTurn, SaveMoves, Ends, Goes, Continues, Halts,
       Proceeds, Enters, Grows, Idle
  <1>26. CASE SaveCodeTurn(r)
    BY <1>26 DEF SaveCodeTurn, SaveMoves, Ends, Goes, Continues, Halts,
       Proceeds, Enters, Grows, Idle
  <1>27. CASE ShowTurn(r)
    BY <1>27 DEF ShowTurn, SaveMoves, Ends, Goes, Continues, Halts, Proceeds,
       Enters, Grows, Idle
  <1>28. CASE ForgetCodeTurn(r)
    BY <1>28 DEF ForgetCodeTurn, SaveMoves, Ends, Goes, Continues, Halts,
       Proceeds, Enters, Grows, Idle
  <1>29. CASE DeleteCodeTurn(r)
    BY <1>29 DEF DeleteCodeTurn, SaveMoves, Ends, Goes, Continues, Halts,
       Proceeds, Enters, Grows, Idle
  <1>30. CASE DropTurn(r)
    BY <1>30 DEF DropTurn, SaveMoves, Same, Live
  <1> QED
    BY <1>1, <1>2, <1>3, <1>4, <1>5, <1>6, <1>7, <1>8, <1>9, <1>10, <1>11,
       <1>12, <1>13, <1>14, <1>15, <1>16, <1>17, <1>18, <1>19, <1>20, <1>21,
       <1>22, <1>23, <1>24, <1>25, <1>26, <1>27, <1>28, <1>29, <1>30 DEF Turn

LEMMA KeepsHas ==
  ASSUME Typed, PhaseInv, NEW r \in Slots, NEW T \in Tables, NEW U, NEW now,
         NEW d \in Daemons, KeyMoves(r, T, U, d, now), NEW k, NEW at \in Nat,
         Has(T, d, k, at), clock + Timeout <= at + Retention,
         Live(r) => d \notin req[r].subject /\ at <= req[r].now + Timeout
  PROVE  Has(U, d, k, at)
  <1>1. T.daemons[d].at \in Nat /\ T.daemons[d] # None
    BY TableFields, RelayAssumption DEF Has, DaemonRegistration, Times
  <1>2. CASE /\ now \in Nat /\ now <= clock
             /\ T.daemons[d].at + Retention < now
    BY <1>1, <1>2, Dates DEF Has
  <1> QED
    BY <1>1, <1>2 DEF KeyMoves, Has

\* A registration that is acknowledged stays.
LEMMA AckedKeyStep ==
  ASSUME Typed, PhaseInv, ClaimInv, AckKeyInv, NEW r \in Slots, Turn(r),
         NEW d \in Daemons, acked'[d] # None,
         clock + Timeout <= acked'[d].at + Retention
  PROVE  /\ Has(inner', d, acked'[d].val, acked'[d].at)
         /\ Has(store', d, acked'[d].val, acked'[d].at)
  <1>1. /\ KeyMoves(r, inner, inner', d, clock) /\ KeyMoves(r, store, store', d, req[r].now)
        /\ AckMoves(r, d) /\ up /\ inner \in Tables /\ store \in Tables
    BY InnerKeyTurns, StoreKeyTurns, AckTurns, TurnRests DEF Typed
  <1>2. CASE acked'[d] = acked[d]
    <2>1. /\ Has(inner, d, acked[d].val, acked[d].at)
          /\ Has(store, d, acked[d].val, acked[d].at)
          /\ acked[d].at \in Nat /\ clock + Timeout <= acked[d].at + Retention
          /\ Live(r) => d \notin req[r].subject /\ acked[d].at <= req[r].now + Timeout
      BY <1>1, <1>2, Dates DEF AckKeyInv, ClaimInv
    <2> DEFINE k == acked[d].val
               at == acked[d].at
    <2> HIDE DEF k, at
    <2>2. Has(inner, d, k, at) /\ Has(store, d, k, at) /\ at \in Nat
          /\ clock + Timeout <= at + Retention
          /\ (Live(r) => d \notin req[r].subject /\ at <= req[r].now + Timeout)
      BY <2>1 DEF k, at
    <2>3. Has(inner', d, k, at)
      BY <1>1, <2>2, KeepsHas
    <2>4. Has(store', d, k, at)
      BY <1>1, <2>2, KeepsHas
    <2> QED
      BY <1>2, <2>3, <2>4 DEF k, at
  <1>3. CASE AcksKey(r, d)
    <2>1. /\ req[r].pc = "save" /\ req[r].alone /\ d = req[r].m.d
          /\ acked'[d].val = req[r].reg.key /\ acked'[d].at = req[r].reg.at
          /\ store'.daemons[d] = req[r].reg /\ UNCHANGED inner
      BY <1>3 DEF AcksKey
    <2>2. req[r].reg # None /\ req[r].reg.at \in Nat /\ Timeout \in Nat
      BY <2>1, InProgress, Dates, RelayAssumption DEF Live, Sound, SoundKeys
    <2>3. Has(inner, d, req[r].reg.key, req[r].reg.at)
      BY <2>1 DEF AckKeyInv
    <2> QED
      BY <2>1, <2>2, <2>3 DEF Has
  <1>4. CASE AcksToken(r, d)
    <2>1. Live(r) /\ d = req[r].m.item /\ req[r].pc = "bound"
      BY <1>4 DEF AcksToken, Live
    <2>2. d \in Tokens
      BY <2>1, InProgress DEF Sound, SoundTokens, Binding, Sensible
    <2> QED
      BY <2>2, RelayAssumption
  <1> QED
    BY <1>1, <1>2, <1>3, <1>4 DEF AckMoves

\* A registration that will be acknowledged is in memory.
LEMMA SavingKeyStep ==
  ASSUME Typed, PhaseInv, Typed', PhaseInv', ClaimInv, AckKeyInv,
         NEW r \in Slots, Turn(r),
         NEW q \in Slots, req'[q].pc = "save", req'[q].alone,
         clock + Timeout <= req'[q].reg.at + Retention
  PROVE  Has(inner', req'[q].m.d, req'[q].reg.key, req'[q].reg.at)
  <1>1. /\ \A o \in Slots \ {r} : Same(o)
        /\ SaveMoves(r) /\ inner \in Tables
    BY TurnRests, SavingTurns DEF Typed
  <1>2. CASE q = r /\ inner'.daemons[req[r].m.d] = req'[r].reg
    <2>1. req'[q].reg \in DaemonRegistration /\ req'[q].m = req[r].m
      <3>1. PhaseInv' => (Live(q)' => SoundKeys(req[q], clock)')
        BY DEF PhaseInv, Sound
      <3>2. SoundKeys(req[q], clock)' => req'[q].reg \in DaemonRegistration
        BY DEF SoundKeys
      <3> QED
        BY <1>1, <1>2, <3>1, <3>2 DEF SaveMoves, Live
    <2>2. req'[q].reg # None /\ req'[q].reg.at \in Nat /\ Timeout \in Nat
      BY <2>1, RelayAssumption DEF DaemonRegistration, Times
    <2> QED
      BY <1>2, <2>1, <2>2 DEF Has
  <1>3. CASE /\ Live(q) /\ req[q].pc = "save" /\ req'[q].m = req[q].m
             /\ req'[q].reg = req[q].reg /\ req[q].alone
             /\ q # r \/ UNCHANGED inner
    <2>1. /\ req[q].m.d \in Daemons /\ req[q].m.d \in req[q].subject
          /\ req[q].reg.at \in Nat /\ req[q].reg.at <= clock
      BY <1>3, InProgress, MessageFields, Dates DEF Sound, SoundKeys, Registering
    <2>2. Has(inner, req[q].m.d, req[q].reg.key, req[q].reg.at)
      BY <1>3 DEF AckKeyInv
    <2>3. CASE UNCHANGED inner
      BY <1>3, <2>2, <2>3
    <2>4. CASE q # r
      <3>1. Live(r) => req[q].m.d \notin req[r].subject
                       /\ req[q].reg.at <= req[r].now + Timeout
        BY <1>3, <2>1, <2>4, Dates DEF ClaimInv
      <3> DEFINE d == req[q].m.d
                 k == req[q].reg.key
                 at == req[q].reg.at
      <3>2. KeyMoves(r, inner, inner', d, clock)
        BY <2>1, InnerKeyTurns
      <3>3. /\ Has(inner, d, k, at) /\ at \in Nat /\ d \in Daemons
            /\ clock + Timeout <= at + Retention
            /\ Live(r) => d \notin req[r].subject /\ at <= req[r].now + Timeout
        BY <1>3, <2>1, <2>2, <3>1
      <3> HIDE DEF d, k, at
      <3>4. Has(inner', d, k, at)
        BY <1>1, <3>2, <3>3, KeepsHas
      <3> QED
        BY <1>3, <3>4 DEF d, k, at
    <2> QED
      BY <1>3, <2>3, <2>4
  <1>4. CASE q # r
    BY <1>1, <1>3, <1>4 DEF Same, Live
  <1>5. CASE q = r
    BY <1>1, <1>2, <1>3, <1>5 DEF SaveMoves
  <1> QED
    BY <1>4, <1>5

LEMMA AckKeyStep ==
  ASSUME Typed, PhaseInv, Typed', PhaseInv', ClaimInv, AckKeyInv, Turns
  PROVE  AckKeyInv'
  <1>1. ASSUME NEW r \in Slots, Turn(r)
        PROVE  AckKeyInv'
    <2>1. clock' = clock /\ up' = up
      BY <1>1, TurnRests DEF world
    <2> QED
      BY <1>1, <2>1, AckedKeyStep, SavingKeyStep DEF AckKeyInv
  <1>2. CASE Tick
    <2>1. /\ clock' = clock + 1 /\ clock \in Nat
          /\ UNCHANGED <<up, inner, store, req, acked>>
      BY <1>2, Dates DEF Tick, noted
    <2>2. ASSUME NEW at \in Nat, clock' + Timeout <= at + Retention
          PROVE  clock + Timeout <= at + Retention
      BY <2>1, <2>2, Dates
    <2>3. ASSUME NEW d \in Daemons, acked[d] # None,
                 clock' + Timeout <= acked[d].at + Retention
          PROVE  /\ up => Has(inner, d, acked[d].val, acked[d].at)
                 /\ Has(store, d, acked[d].val, acked[d].at)
      BY <2>2, <2>3, Dates DEF AckKeyInv
    <2>4. ASSUME NEW r \in Slots, req[r].pc = "save", req[r].alone,
                 clock' + Timeout <= req[r].reg.at + Retention
          PROVE  Has(inner, req[r].m.d, req[r].reg.key, req[r].reg.at)
      BY <2>2, <2>4, Dates DEF AckKeyInv
    <2> QED
      BY <2>1, <2>3, <2>4 DEF AckKeyInv, Has
  <1>3. CASE CrashTurn
    BY <1>3 DEF CrashTurn, AckKeyInv, Has, Idle
  <1>4. CASE RestartTurn
    <2>1. /\ ~up /\ clock' = clock /\ inner' = store' /\ req' = req /\ store \in Tables
          /\ Pruned(store, store', clock, Gone(store, clock))
          /\ \A x \in Daemons \cup Tokens : acked'[x] \in {None, acked[x]}
      BY <1>4, DisturbIs DEF RestartTurn, Typed, Acks
    <2>2. \A q \in Slots : ~Live(q)
      BY <2>1 DEF PhaseInv
    <2>3. ASSUME NEW d \in Daemons, acked'[d] # None,
                 clock + Timeout <= acked'[d].at + Retention
          PROVE  Has(store', d, acked'[d].val, acked'[d].at)
      <3>1. acked'[d] = acked[d]
        BY <2>1, <2>3
      <3>2. Has(store, d, acked[d].val, acked[d].at) /\ acked[d].at \in Nat
        BY <2>3, <3>1, Dates DEF AckKeyInv
      <3>3. store.daemons[d] # None /\ store.daemons[d].at \in Nat
        BY <3>2, DatesAreNaturals DEF Has
      <3>4. d \notin Gone(store, clock)
        <4>1. clock <= store.daemons[d].at + Retention
          BY <2>3, <3>1, <3>2, <3>3, Dates DEF Has
        <4> QED
          BY <2>1, <3>3, <4>1, LapsedIs, Dates
      <3>5. store'.daemons[d] = store.daemons[d]
        BY <2>1, <3>4 DEF Pruned
      <3> QED
        BY <3>1, <3>2, <3>5 DEF Has
    <2> QED
      BY <2>1, <2>2, <2>3 DEF AckKeyInv, Live
  <1>5. CASE UNCHANGED vars
    BY <1>5 DEF vars, AckKeyInv, Has
  <1> QED
    BY <1>1, <1>2, <1>3, <1>4, <1>5 DEF Turns

LEMMA AckKeyInit ==
  ASSUME Init
  PROVE  AckKeyInv
  BY DEF Init, AckKeyInv, Idle

LEMMA AckedKey ==
  ASSUME AckKeyInv
  PROVE  AckedKeyIsKept
  BY DEF AckKeyInv, AckedKeyIsKept, Has, KeyOf

-----------------------------------------------------------------------------
(***************************************************************************)
(* Acknowledged bindings (AckedTokenIsKept).                               *)
(***************************************************************************)

\* What a turn does to the binding of t in a table: nothing, or it lapses, goes
\* with its daemon, is dated, or has been claimed.
TokenMoves(r, T, U, t, now, gone) ==
  \/ U.tokens[t] = T.tokens[t]
  \/ /\ now \in Nat /\ now <= clock /\ U.tokens[t] = None
     /\ \/ T.tokens[t] = None
        \/ T.tokens[t].at + TokenTTL < now
        \/ T.tokens[t].d \in gone /\ \A x \in TokensOf(gone) : acked'[x] = None
  \/ /\ Live(r) /\ T.tokens[t] # None /\ U.tokens[t] # None
     /\ U.tokens[t].d = T.tokens[t].d
     /\ U.tokens[t].at \in Nat /\ req[r].now <= U.tokens[t].at
  \/ Live(r) /\ t \in req[r].subject

BoundMoves(r) ==
  req'[r].pc = "bound" =>
    /\ Live(r) /\ req'[r].m = req[r].m
    /\ \/ /\ req[r].pc = "bound" /\ req'[r].reg = req[r].reg /\ UNCHANGED store
          /\ req'[r].alone => req[r].alone
       \/ store'.tokens[req[r].m.item] = req'[r].reg

WorkingMoves(r) ==
  req'[r].pc \in Working /\ req'[r].m.kind = "token" =>
    /\ Live(r) /\ req'[r].m = req[r].m /\ req'[r].now = req[r].now
    /\ \/ req[r].pc \in Working /\ store'.daemons = store.daemons
       \/ store'.daemons[req[r].m.d] # None =>
            store'.daemons[req[r].m.d].at = req[r].now

LEMMA PrunesToken ==
  ASSUME Typed, NEW T \in Tables, NEW U, NEW now \in Nat, now <= clock, NEW gone,
         Pruned(T, U, now, gone), \A x \in TokensOf(gone) : acked'[x] = None,
         NEW r, NEW t \in Tokens
  PROVE  TokenMoves(r, T, U, t, now, gone)
  <1>1. U.tokens[t] = IF T.tokens[t] # None /\ now <= T.tokens[t].at + TokenTTL
                           /\ T.tokens[t].d \notin gone
                      THEN T.tokens[t] ELSE None
    BY DEF Pruned
  <1>2. CASE T.tokens[t] = None \/ T.tokens[t].d \in gone
    BY <1>1, <1>2 DEF TokenMoves
  <1>3. CASE T.tokens[t] # None /\ T.tokens[t].d \notin gone
    <2>1. T.tokens[t].at \in Nat /\ TokenTTL \in Nat
      BY <1>3, TableFields, RelayAssumption DEF TokenOwner, Times
    <2> QED
      BY <1>1, <1>3, <2>1 DEF TokenMoves
  <1> QED
    BY <1>2, <1>3

LEMMA MemoryPrunesToken ==
  ASSUME Typed, NEW xs, MemoryPrune(xs), NEW r, NEW t \in Tokens
  PROVE  TokenMoves(r, inner, inner', t, clock, GoneFromMemory(inner, clock))
  <1> DEFINE gone == GoneFromMemory(inner, clock)
  <1> HIDE DEF gone
  <1>1. CASE inner' = inner
    BY <1>1 DEF TokenMoves
  <1>2. CASE Pruned(inner, inner', clock, gone) /\ Disturb(xs \cup TokensOf(gone))
    <2>1. clock \in Nat /\ clock <= clock /\ inner \in Tables
      BY DatesAreNaturals DEF Typed
    <2>2. \A x \in TokensOf(gone) : acked'[x] = None
      BY <1>2, DisturbIs DEF Typed, Acks, TokensOf
    <2>3. TokenMoves(r, inner, inner', t, clock, gone)
      BY <1>2, <2>1, <2>2, PrunesToken
    <2> QED
      BY <2>3 DEF gone
  <1> QED
    BY <1>1, <1>2 DEF MemoryPrune, gone

\* A request that refreshes a binding dates it at its own time or later.
LEMMA RefreshMoves ==
  ASSUME Typed, PhaseInv, NEW r \in Slots, req[r].pc \in {"touch", "touched"},
         NEW T, NEW U, Refreshes(T, U, req[r].m.item, req[r].reg.at),
         NEW t \in Tokens, NEW now, NEW gone
  PROVE  TokenMoves(r, T, U, t, now, gone)
  <1>1. /\ Live(r) /\ req[r].reg.at \in Nat /\ req[r].now <= req[r].reg.at
    BY Dates DEF Live
  <1>2. CASE U = T
    BY <1>2 DEF TokenMoves
  <1>3. CASE U # T
    <2>1. PICK new \in TokenOwner :
            /\ T.tokens[req[r].m.item] # None
            /\ new.d = T.tokens[req[r].m.item].d /\ new.at = req[r].reg.at
            /\ SetsToken(T, U, req[r].m.item, new)
      BY <1>3 DEF Refreshes
    <2>2. new # None
      BY RelayAssumption
    <2> QED
      BY <1>1, <2>1, <2>2 DEF SetsToken, TokenMoves
  <1> QED
    BY <1>2, <1>3

LEMMA InnerTokenTurns ==
  ASSUME Typed, PhaseInv, NEW t \in Tokens, NEW r \in Slots, Turn(r)
  PROVE  TokenMoves(r, inner, inner', t, clock, GoneFromMemory(inner, clock))
  <1>1. ASSUME NEW m \in scenario.msgs, ArriveTurn(r, m)
        PROVE  TokenMoves(r, inner, inner', t, clock, GoneFromMemory(inner, clock))
    BY <1>1, MemoryPrunesToken DEF ArriveTurn
  <1>2. ASSUME NEW m \in scenario.msgs, RegisterTurn(r, m)
        PROVE  TokenMoves(r, inner, inner', t, clock, GoneFromMemory(inner, clock))
    <2>1. inner'.tokens = inner.tokens
      BY <1>2 DEF RegisterTurn, Halts, SetsDaemon, SetsCode, SetsNonce,
         NonceEntered
    <2> QED
      BY <2>1 DEF TokenMoves
  <1>3. ASSUME NEW m \in scenario.msgs, ResolveTurn(r, m)
        PROVE  TokenMoves(r, inner, inner', t, clock, GoneFromMemory(inner, clock))
    <2>1. inner'.tokens = inner.tokens
      BY <1>3 DEF ResolveTurn, Halts, SetsDaemon, SetsCode, SetsNonce,
         NonceEntered
    <2> QED
      BY <2>1 DEF TokenMoves
  <1>4. CASE \/ PruneTurn(r) \/ CheckTurn(r) \/ AdmitTurn(r)
            \/ TouchTurn(r) \/ SaveTurn(r) \/ UndoTurn(r)
    <2>1. inner'.tokens = inner.tokens
      BY <1>4 DEF PruneTurn, CheckTurn, AdmitTurn, TouchTurn, SaveTurn,
         UndoTurn, Halts, SetsDaemon, SetsCode, SetsNonce, NonceEntered
    <2> QED
      BY <2>1 DEF TokenMoves
  <1>5. CASE \/ RecordTurn(r) \/ EnterProofTurn(r) \/ RecordProofTurn(r)
            \/ CommitTurn(r) \/ RemoveTurn(r) \/ LookupTokenTurn(r)
    <2>1. inner'.tokens = inner.tokens
      BY <1>5 DEF RecordTurn, EnterProofTurn, RecordProofTurn, CommitTurn,
         RemoveTurn, LookupTokenTurn, Halts, SetsDaemon, SetsCode, SetsNonce,
         NonceEntered
    <2> QED
      BY <2>1 DEF TokenMoves
  <1>6. CASE LookupTurn(r)
    <2>1. CASE UNCHANGED inner
      BY <2>1 DEF TokenMoves
    <2>2. CASE MemoryPrune({})
      BY <2>2, MemoryPrunesToken
    <2> QED
      BY <1>6, <2>1, <2>2 DEF LookupTurn
  <1>7. CASE \/ EvictTurn(r) \/ BindTurn(r) \/ ShowTurn(r)
            \/ DropTurn(r)
    <2>1. inner'.tokens = inner.tokens
      BY <1>7 DEF EvictTurn, BindTurn, ShowTurn, DropTurn, Halts, SetsDaemon,
         SetsCode, SetsNonce, NonceEntered
    <2> QED
      BY <2>1 DEF TokenMoves
  <1>8. CASE ForgetTurn(r)
    <2>1. PICK u \in Tokens : req[r].drop = {u} /\ SetsToken(inner, inner', u, None)
      BY <1>8 DEF ForgetTurn
    <2>2. Live(r) /\ u \in req[r].subject
      BY <1>8, <2>1, InProgress DEF ForgetTurn, Live, Sound, SoundTokens
    <2> QED
      BY <2>1, <2>2 DEF SetsToken, TokenMoves
  <1>9. CASE BoundTurn(r)
    <2>1. Live(r) /\ req[r].m.item \in req[r].subject
      BY <1>9, InProgress DEF BoundTurn, Live, Sound, SoundTokens, Binding
    <2> QED
      BY <1>9, <2>1 DEF BoundTurn, SetsToken, TokenMoves
  <1>10. CASE \/ DeliverTurn(r) \/ TouchTokenTurn(r) \/ EvictCodesTurn(r)
             \/ SupersedeTurn(r) \/ SaveCodeTurn(r) \/ ForgetCodeTurn(r)
    <2>1. inner'.tokens = inner.tokens
      BY <1>10 DEF DeliverTurn, TouchTokenTurn, EvictCodesTurn, SupersedeTurn,
         SaveCodeTurn, ForgetCodeTurn, Halts, SetsDaemon, SetsCode, SetsNonce,
         NonceEntered
    <2> QED
      BY <2>1 DEF TokenMoves
  <1>11. CASE TouchBindingTurn(r)
    BY <1>11, RefreshMoves DEF TouchBindingTurn
  <1>12. CASE DeleteCodeTurn(r)
    <2>1. inner'.tokens = inner.tokens
      BY <1>12 DEF DeleteCodeTurn, Halts, SetsDaemon, SetsCode, SetsNonce,
         NonceEntered
    <2> QED
      BY <2>1 DEF TokenMoves
  <1> QED
    BY <1>1, <1>2, <1>3, <1>4, <1>5, <1>6, <1>7, <1>8, <1>9, <1>10, <1>11,
       <1>12 DEF Turn

LEMMA StoreTokenTurns ==
  ASSUME Typed, PhaseInv, NEW t \in Tokens, NEW r \in Slots, Turn(r)
  PROVE  TokenMoves(r, store, store', t, req[r].now, Gone(store, req[r].now))
  <1>1. ASSUME NEW m \in scenario.msgs, ArriveTurn(r, m)
        PROVE  TokenMoves(r, store, store', t, req[r].now, Gone(store, req[r].now))
    <2>1. store'.tokens = store.tokens
      BY <1>1 DEF ArriveTurn, Halts, SetsDaemon, SetsCode, SetsNonce,
         NonceEntered
    <2> QED
      BY <2>1 DEF TokenMoves
  <1>2. ASSUME NEW m \in scenario.msgs, RegisterTurn(r, m)
        PROVE  TokenMoves(r, store, store', t, req[r].now, Gone(store, req[r].now))
    <2>1. store'.tokens = store.tokens
      BY <1>2 DEF RegisterTurn, Halts, SetsDaemon, SetsCode, SetsNonce,
         NonceEntered
    <2> QED
      BY <2>1 DEF TokenMoves
  <1>3. ASSUME NEW m \in scenario.msgs, ResolveTurn(r, m)
        PROVE  TokenMoves(r, store, store', t, req[r].now, Gone(store, req[r].now))
    <2>1. store'.tokens = store.tokens
      BY <1>3 DEF ResolveTurn, Halts, SetsDaemon, SetsCode, SetsNonce,
         NonceEntered
    <2> QED
      BY <2>1 DEF TokenMoves
  <1>4. CASE PruneTurn(r)
    <2> DEFINE gone == Gone(store, req[r].now)
    <2> HIDE DEF gone
    <2>1. CASE UNCHANGED store
      BY <2>1 DEF TokenMoves
    <2>2. CASE Pruned(store, store', req[r].now, gone) /\ Disturb(TokensOf(gone))
      <3>1. req[r].now \in Nat /\ req[r].now <= clock /\ store \in Tables
        BY <1>4, Dates DEF PruneTurn, Live, Typed
      <3>2. \A x \in TokensOf(gone) : acked'[x] = None
        BY <2>2, DisturbIs DEF Typed, Acks, TokensOf
      <3>3. TokenMoves(r, store, store', t, req[r].now, gone)
        BY <2>2, <3>1, <3>2, PrunesToken
      <3> QED
        BY <3>3 DEF gone
    <2> QED
      BY <1>4, <2>1, <2>2 DEF PruneTurn, gone
  <1>5. CASE \/ CheckTurn(r) \/ AdmitTurn(r) \/ TouchTurn(r)
            \/ SaveTurn(r) \/ UndoTurn(r) \/ EvictTurn(r)
    <2>1. store'.tokens = store.tokens
      BY <1>5 DEF CheckTurn, AdmitTurn, TouchTurn, SaveTurn, UndoTurn,
         EvictTurn, Halts, SetsDaemon, SetsCode, SetsNonce, NonceEntered
    <2> QED
      BY <2>1 DEF TokenMoves
  <1>6. CASE RecordTurn(r)
    <2>1. store'.tokens = store.tokens
      <3>1. CASE UNCHANGED store
        BY <3>1
      <3>2. CASE ~UNCHANGED store
        <4>1. PICK T \in Tables :
                /\ NonceEntered(store, T, req[r])
                /\ \/ store' = T
                   \/ \E new : SetsDaemon(T, store', req[r].m.d, new)
          BY <1>6, <3>2 DEF RecordTurn, Halts
        <4> QED
          BY <4>1 DEF NonceEntered, SetsNonce, SetsDaemon
      <3> QED
        BY <3>1, <3>2
    <2> QED
      BY <2>1 DEF TokenMoves
  <1>7. CASE \/ EnterProofTurn(r) \/ RecordProofTurn(r) \/ LookupTurn(r)
            \/ CommitTurn(r) \/ ForgetTurn(r) \/ LookupTokenTurn(r)
    <2>1. store'.tokens = store.tokens
      BY <1>7 DEF EnterProofTurn, RecordProofTurn, LookupTurn, CommitTurn,
         ForgetTurn, LookupTokenTurn, Halts, SetsDaemon, SetsCode, SetsNonce,
         NonceEntered
    <2> QED
      BY <2>1 DEF TokenMoves
  <1>8. CASE RemoveTurn(r)
    <2>1. CASE UNCHANGED store
      BY <2>1 DEF TokenMoves
    <2>2. CASE ~UNCHANGED store
      <3>1. PICK u \in Tokens : req[r].drop = {u} /\ SetsToken(store, store', u, None)
        BY <1>8, <2>2 DEF RemoveTurn, Halts
      <3>2. Live(r) /\ u \in req[r].subject
        BY <1>8, <3>1, InProgress DEF RemoveTurn, Live, Sound, SoundTokens
      <3> QED
        BY <3>1, <3>2 DEF SetsToken, TokenMoves
    <2> QED
      BY <2>1, <2>2
  <1>9. CASE BindTurn(r)
    <2>1. Live(r) /\ req[r].m.item \in req[r].subject
      BY <1>9, InProgress DEF BindTurn, Live, Sound, SoundTokens, Binding
    <2> QED
      BY <1>9, <2>1 DEF BindTurn, Halts, SetsToken, TokenMoves
  <1>10. CASE BoundTurn(r) \/ ShowTurn(r) \/ DropTurn(r)
    <2>1. store'.tokens = store.tokens
      BY <1>10 DEF BoundTurn, ShowTurn, DropTurn, Halts, SetsDaemon, SetsCode,
         SetsNonce, NonceEntered
    <2> QED
      BY <2>1 DEF TokenMoves
  <1>11. CASE \/ DeliverTurn(r) \/ TouchBindingTurn(r) \/ EvictCodesTurn(r)
             \/ SupersedeTurn(r) \/ SaveCodeTurn(r) \/ ForgetCodeTurn(r)
    <2>1. store'.tokens = store.tokens
      BY <1>11 DEF DeliverTurn, TouchBindingTurn, EvictCodesTurn,
         SupersedeTurn, SaveCodeTurn, ForgetCodeTurn, Halts, SetsDaemon,
         SetsCode, SetsNonce, NonceEntered
    <2> QED
      BY <2>1 DEF TokenMoves
  <1>12. CASE TouchTokenTurn(r)
    <2>1. CASE UNCHANGED store
      BY <2>1 DEF TokenMoves
    <2>2. CASE ~UNCHANGED store
      BY <1>12, <2>2, RefreshMoves DEF TouchTokenTurn, Halts
    <2> QED
      BY <2>1, <2>2
  <1>13. CASE DeleteCodeTurn(r)
    <2>1. store'.tokens = store.tokens
      BY <1>13 DEF DeleteCodeTurn, Halts, SetsDaemon, SetsCode, SetsNonce,
         NonceEntered
    <2> QED
      BY <2>1 DEF TokenMoves
  <1> QED
    BY <1>1, <1>2, <1>3, <1>4, <1>5, <1>6, <1>7, <1>8, <1>9, <1>10, <1>11,
       <1>12, <1>13 DEF Turn

LEMMA BoundTurnMoves ==
  ASSUME Typed, PhaseInv, NEW r \in Slots, Turn(r)
  PROVE  BoundMoves(r)
  <1>1. ASSUME NEW m \in scenario.msgs, ArriveTurn(r, m)
        PROVE  BoundMoves(r)
    <2>1. req'[r].pc \in {"prune", Verify(m)}
      BY <1>1 DEF ArriveTurn, Enters
    <2> QED
      BY <2>1 DEF BoundMoves, Verify
  <1>2. ASSUME NEW m \in scenario.msgs, RegisterTurn(r, m)
        PROVE  BoundMoves(r)
    BY <1>2 DEF RegisterTurn, BoundMoves, Ends, Goes, Continues, Halts,
       Proceeds, Enters, Grows, Idle
  <1>3. ASSUME NEW m \in scenario.msgs, ResolveTurn(r, m)
        PROVE  BoundMoves(r)
    BY <1>3 DEF ResolveTurn, BoundMoves, Ends, Goes, Continues, Halts,
       Proceeds, Enters, Grows, Idle
  <1>4. CASE PruneTurn(r)
    <2>1. req'[r] = Idle \/ req'[r].pc = Verify(req[r].m)
      BY <1>4 DEF PruneTurn, Proceeds, Ends, Continues, Goes
    <2> QED
      BY <2>1 DEF BoundMoves, Verify, Idle
  <1>5. CASE CheckTurn(r)
    BY <1>5 DEF CheckTurn, BoundMoves, Ends, Goes, Continues, Halts, Proceeds,
       Enters, Grows, Idle
  <1>6. CASE AdmitTurn(r)
    BY <1>6 DEF AdmitTurn, BoundMoves, Ends, Goes, Continues, Halts, Proceeds,
       Enters, Grows, Idle
  <1>7. CASE RecordTurn(r)
    BY <1>7 DEF RecordTurn, BoundMoves, Ends, Goes, Continues, Halts,
       Proceeds, Enters, Grows, Idle
  <1>8. CASE TouchTurn(r)
    <2>1. Live(r) /\ req'[r].pc = Handler(req[r].m.kind)
      BY <1>8 DEF TouchTurn, Continues, Goes, Live
    <2>2. Handler(req[r].m.kind) # "bound"
      BY <2>1, InProgress, MessageFields DEF Handler
    <2> QED
      BY <2>1, <2>2 DEF BoundMoves
  <1>9. CASE EnterProofTurn(r)
    BY <1>9 DEF EnterProofTurn, BoundMoves, Ends, Goes, Continues, Halts,
       Proceeds, Enters, Grows, Idle
  <1>10. CASE RecordProofTurn(r)
    BY <1>10 DEF RecordProofTurn, BoundMoves, Ends, Goes, Continues, Halts,
       Proceeds, Enters, Grows, Idle
  <1>11. CASE LookupTurn(r)
    BY <1>11 DEF LookupTurn, BoundMoves, Ends, Goes, Continues, Halts,
       Proceeds, Enters, Grows, Idle
  <1>12. CASE CommitTurn(r)
    BY <1>12 DEF CommitTurn, BoundMoves, Ends, Goes, Continues, Halts,
       Proceeds, Enters, Grows, Idle
  <1>13. CASE SaveTurn(r)
    BY <1>13 DEF SaveTurn, BoundMoves, Ends, Goes, Continues, Halts, Proceeds,
       Enters, Grows, Idle
  <1>14. CASE UndoTurn(r)
    BY <1>14 DEF UndoTurn, BoundMoves, Ends, Goes, Continues, Halts, Proceeds,
       Enters, Grows, Idle
  <1>15. CASE EvictTurn(r)
    BY <1>15 DEF EvictTurn, BoundMoves, Ends, Goes, Continues, Halts,
       Proceeds, Enters, Grows, Idle
  <1>16. CASE RemoveTurn(r)
    BY <1>16 DEF RemoveTurn, BoundMoves, Ends, Goes, Continues, Halts,
       Proceeds, Enters, Grows, Idle
  <1>17. CASE ForgetTurn(r)
    BY <1>17 DEF ForgetTurn, BoundMoves, Ends, Goes, Continues, Halts,
       Proceeds, Enters, Grows, Idle
  <1>18. CASE BindTurn(r)
    BY <1>18 DEF BindTurn, BoundMoves, Halts, Proceeds, Ends, Continues, Goes,
       Idle, Live, SetsToken
  <1>19. CASE BoundTurn(r)
    BY <1>19 DEF BoundTurn, BoundMoves, Ends, Goes, Continues, Halts,
       Proceeds, Enters, Grows, Idle
  <1>20. CASE LookupTokenTurn(r)
    BY <1>20 DEF LookupTokenTurn, BoundMoves, Ends, Goes, Continues, Halts,
       Proceeds, Enters, Grows, Idle
  <1>21. CASE DeliverTurn(r)
    BY <1>21 DEF DeliverTurn, BoundMoves, Ends, Goes, Continues, Halts,
       Proceeds, Enters, Grows, Idle
  <1>22. CASE TouchTokenTurn(r)
    BY <1>22 DEF TouchTokenTurn, BoundMoves, Ends, Goes, Continues, Halts,
       Proceeds, Enters, Grows, Idle
  <1>23. CASE TouchBindingTurn(r)
    BY <1>23 DEF TouchBindingTurn, BoundMoves, Ends, Goes, Continues, Halts,
       Proceeds, Enters, Grows, Idle
  <1>24. CASE EvictCodesTurn(r)
    BY <1>24 DEF EvictCodesTurn, BoundMoves, Ends, Goes, Continues, Halts,
       Proceeds, Enters, Grows, Idle
  <1>25. CASE SupersedeTurn(r)
    BY <1>25 DEF SupersedeTurn, BoundMoves, Ends, Goes, Continues, Halts,
       Proceeds, Enters, Grows, Idle
  <1>26. CASE SaveCodeTurn(r)
    BY <1>26 DEF SaveCodeTurn, BoundMoves, Ends, Goes, Continues, Halts,
       Proceeds, Enters, Grows, Idle
  <1>27. CASE ShowTurn(r)
    BY <1>27 DEF ShowTurn, BoundMoves, Ends, Goes, Continues, Halts, Proceeds,
       Enters, Grows, Idle
  <1>28. CASE ForgetCodeTurn(r)
    BY <1>28 DEF ForgetCodeTurn, BoundMoves, Ends, Goes, Continues, Halts,
       Proceeds, Enters, Grows, Idle
  <1>29. CASE DeleteCodeTurn(r)
    BY <1>29 DEF DeleteCodeTurn, BoundMoves, Ends, Goes, Continues, Halts,
       Proceeds, Enters, Grows, Idle
  <1>30. CASE DropTurn(r)
    BY <1>30 DEF DropTurn, BoundMoves, Same, Live
  <1> QED
    BY <1>1, <1>2, <1>3, <1>4, <1>5, <1>6, <1>7, <1>8, <1>9, <1>10, <1>11,
       <1>12, <1>13, <1>14, <1>15, <1>16, <1>17, <1>18, <1>19, <1>20, <1>21,
       <1>22, <1>23, <1>24, <1>25, <1>26, <1>27, <1>28, <1>29, <1>30 DEF Turn

LEMMA WorkingTurns ==
  ASSUME Typed, PhaseInv, NEW r \in Slots, Turn(r)
  PROVE  WorkingMoves(r)
  <1>1. ASSUME NEW m \in scenario.msgs, ArriveTurn(r, m)
        PROVE  WorkingMoves(r)
    <2>1. req'[r].pc \in {"prune", Verify(m)}
      BY <1>1 DEF ArriveTurn, Enters
    <2> QED
      BY <2>1 DEF WorkingMoves, Working, Binding, Verify
  <1>2. ASSUME NEW m \in scenario.msgs, RegisterTurn(r, m)
        PROVE  WorkingMoves(r)
    BY <1>2 DEF RegisterTurn, WorkingMoves, Working, Binding, Ends, Goes,
       Continues, Halts, Proceeds, Enters, Grows, Idle, Live
  <1>3. ASSUME NEW m \in scenario.msgs, ResolveTurn(r, m)
        PROVE  WorkingMoves(r)
    BY <1>3 DEF ResolveTurn, WorkingMoves, Working, Binding, Ends, Goes,
       Continues, Halts, Proceeds, Enters, Grows, Idle, Live
  <1>4. CASE PruneTurn(r)
    <2>1. req'[r] = Idle \/ req'[r].pc = Verify(req[r].m)
      BY <1>4 DEF PruneTurn, Proceeds, Ends, Continues, Goes
    <2> QED
      BY <2>1 DEF WorkingMoves, Working, Binding, Verify, Idle
  <1>5. CASE CheckTurn(r)
    BY <1>5 DEF CheckTurn, WorkingMoves, Working, Binding, Ends, Goes,
       Continues, Halts, Proceeds, Enters, Grows, Idle, Live
  <1>6. CASE AdmitTurn(r)
    BY <1>6 DEF AdmitTurn, WorkingMoves, Working, Binding, Ends, Goes,
       Continues, Halts, Proceeds, Enters, Grows, Idle, Live
  <1>7. CASE RecordTurn(r)
    <2>1. CASE Ends(r)
      BY <2>1 DEF Ends, Idle, WorkingMoves, Working, Binding
    <2>2. CASE ~Ends(r)
      <3>1. /\ Live(r) /\ Continues(r, "verified")
            /\ \E T \in Tables :
                 LET d == req[r].m.d
                     old == store.daemons[d]
                 IN /\ NonceEntered(store, T, req[r])
                    /\ \/ old = None /\ store' = T
                       \/ /\ old # None
                          /\ \E new \in DaemonRegistration :
                               /\ new.key = old.key /\ new.at = req[r].now
                               /\ SetsDaemon(T, store', d, new)
        BY <1>7, <2>2 DEF RecordTurn, Halts, Proceeds, Live
      <3>2. \/ store'.daemons[req[r].m.d] = None
            \/ store'.daemons[req[r].m.d].at = req[r].now
        BY <3>1 DEF NonceEntered, SetsNonce, SetsDaemon
      <3> QED
        BY <3>1, <3>2 DEF Continues, Goes, WorkingMoves
    <2> QED
      BY <2>1, <2>2
  <1>8. CASE TouchTurn(r)
    <2>1. /\ Live(r) /\ req[r].pc = "verified" /\ UNCHANGED store
          /\ req'[r].m = req[r].m /\ req'[r].now = req[r].now
      BY <1>8 DEF TouchTurn, Continues, Goes, Live
    <2> QED
      BY <2>1 DEF WorkingMoves, Working
  <1>9. CASE EnterProofTurn(r)
    BY <1>9 DEF EnterProofTurn, WorkingMoves, Working, Binding, Ends, Goes,
       Continues, Halts, Proceeds, Enters, Grows, Idle, Live
  <1>10. CASE RecordProofTurn(r)
    BY <1>10 DEF RecordProofTurn, WorkingMoves, Working, Binding, Ends, Goes,
       Continues, Halts, Proceeds, Enters, Grows, Idle, Live
  <1>11. CASE LookupTurn(r)
    BY <1>11 DEF LookupTurn, WorkingMoves, Working, Binding, Ends, Goes,
       Continues, Halts, Proceeds, Enters, Grows, Idle, Live
  <1>12. CASE CommitTurn(r)
    BY <1>12 DEF CommitTurn, WorkingMoves, Working, Binding, Ends, Goes,
       Continues, Halts, Proceeds, Enters, Grows, Idle, Live
  <1>13. CASE SaveTurn(r)
    BY <1>13 DEF SaveTurn, WorkingMoves, Working, Binding, Ends, Goes,
       Continues, Halts, Proceeds, Enters, Grows, Idle, Live
  <1>14. CASE UndoTurn(r)
    BY <1>14 DEF UndoTurn, WorkingMoves, Working, Binding, Ends, Goes,
       Continues, Halts, Proceeds, Enters, Grows, Idle, Live
  <1>15. CASE EvictTurn(r)
    BY <1>15 DEF EvictTurn, WorkingMoves, Working, Binding, Ends, Goes,
       Continues, Halts, Proceeds, Enters, Grows, Idle, Live
  <1>16. CASE RemoveTurn(r)
    BY <1>16 DEF RemoveTurn, WorkingMoves, Working, Binding, Ends, Goes,
       Continues, Halts, Proceeds, Enters, Grows, Idle, Live, SetsToken
  <1>17. CASE ForgetTurn(r)
    BY <1>17 DEF ForgetTurn, WorkingMoves, Working, Binding, Ends, Goes,
       Continues, Halts, Proceeds, Enters, Grows, Idle, Live
  <1>18. CASE BindTurn(r)
    BY <1>18 DEF BindTurn, WorkingMoves, Working, Binding, Ends, Goes,
       Continues, Halts, Proceeds, Enters, Grows, Idle, Live, SetsToken
  <1>19. CASE BoundTurn(r)
    BY <1>19 DEF BoundTurn, WorkingMoves, Working, Binding, Ends, Goes,
       Continues, Halts, Proceeds, Enters, Grows, Idle, Live
  <1>20. CASE LookupTokenTurn(r)
    BY <1>20 DEF LookupTokenTurn, WorkingMoves, Working, Binding, Ends, Goes,
       Continues, Halts, Proceeds, Enters, Grows, Idle, Live
  <1>21. CASE DeliverTurn(r)
    BY <1>21 DEF DeliverTurn, WorkingMoves, Working, Binding, Ends, Goes,
       Continues, Halts, Proceeds, Enters, Grows, Idle, Live
  <1>22. CASE TouchTokenTurn(r)
    BY <1>22 DEF TouchTokenTurn, WorkingMoves, Working, Binding, Ends, Goes,
       Continues, Halts, Proceeds, Enters, Grows, Idle, Live
  <1>23. CASE TouchBindingTurn(r)
    BY <1>23 DEF TouchBindingTurn, WorkingMoves, Working, Binding, Ends, Goes,
       Continues, Halts, Proceeds, Enters, Grows, Idle, Live
  <1>24. CASE EvictCodesTurn(r)
    BY <1>24 DEF EvictCodesTurn, WorkingMoves, Working, Binding, Ends, Goes,
       Continues, Halts, Proceeds, Enters, Grows, Idle, Live
  <1>25. CASE SupersedeTurn(r)
    BY <1>25 DEF SupersedeTurn, WorkingMoves, Working, Binding, Ends, Goes,
       Continues, Halts, Proceeds, Enters, Grows, Idle, Live
  <1>26. CASE SaveCodeTurn(r)
    BY <1>26 DEF SaveCodeTurn, WorkingMoves, Working, Binding, Ends, Goes,
       Continues, Halts, Proceeds, Enters, Grows, Idle, Live
  <1>27. CASE ShowTurn(r)
    BY <1>27 DEF ShowTurn, WorkingMoves, Working, Binding, Ends, Goes,
       Continues, Halts, Proceeds, Enters, Grows, Idle, Live
  <1>28. CASE ForgetCodeTurn(r)
    BY <1>28 DEF ForgetCodeTurn, WorkingMoves, Working, Binding, Ends, Goes,
       Continues, Halts, Proceeds, Enters, Grows, Idle, Live
  <1>29. CASE DeleteCodeTurn(r)
    BY <1>29 DEF DeleteCodeTurn, WorkingMoves, Working, Binding, Ends, Goes,
       Continues, Halts, Proceeds, Enters, Grows, Idle, Live
  <1>30. CASE DropTurn(r)
    BY <1>30 DEF DropTurn, WorkingMoves, Working, Binding, Same, Live
  <1> QED
    BY <1>1, <1>2, <1>3, <1>4, <1>5, <1>6, <1>7, <1>8, <1>9, <1>10, <1>11,
       <1>12, <1>13, <1>14, <1>15, <1>16, <1>17, <1>18, <1>19, <1>20, <1>21,
       <1>22, <1>23, <1>24, <1>25, <1>26, <1>27, <1>28, <1>29, <1>30 DEF Turn

LEMMA KeepsBinds ==
  ASSUME Typed, PhaseInv, NEW r \in Slots, NEW T \in Tables, NEW U, NEW now,
         NEW t \in Tokens, NEW gone, TokenMoves(r, T, U, t, now, gone),
         NEW d, NEW at \in Nat,
         Binds(T, t, d, at), clock + Timeout <= at + TokenTTL,
         Live(r) => t \notin req[r].subject /\ at <= req[r].now + Timeout,
         d \in gone => ~\A x \in TokensOf(gone) : acked'[x] = None
  PROVE  Binds(U, t, d, at)
  <1>1. T.tokens[t].at \in Nat /\ T.tokens[t] # None /\ T.tokens[t].d = d
    BY TableFields, RelayAssumption DEF Binds, TokenOwner, Times
  <1>2. CASE /\ now \in Nat /\ now <= clock
             /\ T.tokens[t].at + TokenTTL < now
    BY <1>1, <1>2, Dates DEF Binds
  <1>3. CASE /\ Live(r) /\ U.tokens[t] # None /\ U.tokens[t].d = T.tokens[t].d
             /\ U.tokens[t].at \in Nat /\ req[r].now <= U.tokens[t].at
    BY <1>1, <1>3, Dates DEF Binds
  <1>4. CASE U.tokens[t] = T.tokens[t]
    BY <1>4 DEF Binds
  <1> QED
    BY <1>1, <1>2, <1>3, <1>4 DEF TokenMoves

\* A binding that is acknowledged stays.
LEMMA AckedTokenStep ==
  ASSUME Typed, PhaseInv, ClaimInv, AckTokenInv, NEW r \in Slots, Turn(r),
         NEW t \in Tokens, acked'[t] # None,
         clock + Timeout <= acked'[t].at + TokenTTL
  PROVE  /\ Binds(inner', t, acked'[t].val, acked'[t].at)
         /\ Binds(store', t, acked'[t].val, acked'[t].at)
  <1> DEFINE G == GoneFromMemory(inner, clock)
             H == Gone(store, req[r].now)
  <1> HIDE DEF G, H
  <1>1. /\ TokenMoves(r, inner, inner', t, clock, G)
        /\ TokenMoves(r, store, store', t, req[r].now, H)
        /\ AckMoves(r, t) /\ up /\ inner \in Tables /\ store \in Tables
    BY InnerTokenTurns, StoreTokenTurns, AckTurns, TurnRests DEF Typed, G, H
  <1>2. CASE acked'[t] = acked[t]
    <2>1. /\ Binds(inner, t, acked[t].val, acked[t].at)
          /\ Binds(store, t, acked[t].val, acked[t].at)
          /\ acked[t].at \in Nat /\ clock + Timeout <= acked[t].at + TokenTTL
          /\ Live(r) => t \notin req[r].subject /\ acked[t].at <= req[r].now + Timeout
      BY <1>1, <1>2, Dates DEF AckTokenInv, ClaimInv
    <2>2. \A gone : acked[t].val \in gone => ~\A x \in TokensOf(gone) : acked'[x] = None
      BY <1>2 DEF TokensOf
    <2> DEFINE d == acked[t].val
               at == acked[t].at
    <2>3. Binds(inner, t, d, at) /\ Binds(store, t, d, at) /\ at \in Nat
          /\ clock + Timeout <= at + TokenTTL
          /\ (Live(r) => t \notin req[r].subject /\ at <= req[r].now + Timeout)
          /\ (d \in G => ~\A x \in TokensOf(G) : acked'[x] = None)
          /\ (d \in H => ~\A x \in TokensOf(H) : acked'[x] = None)
      BY <2>1, <2>2
    <2> HIDE DEF d, at
    <2>4. Binds(inner', t, d, at)
      BY <1>1, <2>3, KeepsBinds
    <2>5. Binds(store', t, d, at)
      BY <1>1, <2>3, KeepsBinds
    <2> QED
      BY <1>2, <2>4, <2>5 DEF d, at
  <1>3. CASE AcksToken(r, t)
    <2>1. /\ req[r].pc = "bound" /\ req[r].alone /\ t = req[r].m.item
          /\ acked'[t].val = req[r].m.d /\ acked'[t].at = req[r].reg.at
          /\ inner'.tokens[t] = req[r].reg /\ UNCHANGED store
      BY <1>3 DEF AcksToken
    <2>2. /\ req[r].reg \in TokenOwner /\ req[r].reg.d = req[r].m.d
          /\ req[r].reg # None /\ req[r].reg.at \in Nat /\ Timeout \in Nat
      BY <2>1, InProgress, Dates, RelayAssumption DEF Live, Sound, SoundTokens
    <2>3. Binds(store, t, req[r].m.d, req[r].reg.at)
      BY <2>1 DEF AckTokenInv
    <2> QED
      BY <2>1, <2>2, <2>3 DEF Binds
  <1>4. CASE AcksKey(r, t)
    <2>1. Live(r) /\ t = req[r].m.d
      BY <1>4 DEF AcksKey, Live
    <2>2. t \in Daemons
      BY <2>1, InProgress, MessageFields
    <2> QED
      BY <2>2, RelayAssumption
  <1> QED
    BY <1>1, <1>2, <1>3, <1>4 DEF AckMoves

\* The activity of a request that goes on is on record.
LEMMA WorkingStep ==
  ASSUME Typed, PhaseInv, AckTokenInv, NEW r \in Slots, Turn(r),
         NEW q \in Slots, req'[q].pc \in Working, req'[q].m.kind = "token",
         store'.daemons[req'[q].m.d] # None
  PROVE  req'[q].now <= store'.daemons[req'[q].m.d].at + Timeout
  <1>1. /\ \A o \in Slots \ {r} : Same(o)
        /\ WorkingMoves(r)
    BY TurnRests, WorkingTurns
  <1>2. Live(q) /\ req'[q].m = req[q].m /\ req'[q].now = req[q].now
    BY <1>1 DEF WorkingMoves, Same, Live, Working, Binding
  <1> DEFINE d == req[q].m.d
  <1>3. d \in Daemons /\ req[q].now \in Nat /\ req[q].now <= clock
    BY <1>2, InProgress, MessageFields, Dates
  <1>4. DateMoves(r, d)
    BY <1>3, DateTurns
  <1>5. CASE req[q].pc \in Working
    <2>1. store.daemons[d] # None => /\ req[q].now <= store.daemons[d].at + Timeout
                                     /\ store.daemons[d].at \in Nat
      BY <1>2, <1>3, <1>5, DatesAreNaturals DEF AckTokenInv
    <2> HIDE DEF d
    <2>2. CASE store.daemons[d] # None /\ store'.daemons[d].at = store.daemons[d].at
      BY <1>2, <2>1, <2>2 DEF d
    <2>3. CASE Live(r) /\ store'.daemons[d].at \in Nat /\ store'.daemons[d].at >= req[r].now
      <3>1. req[q].now <= store'.daemons[d].at + Timeout
        BY <1>3, <2>3, Dates
      <3> QED
        BY <1>2, <3>1 DEF d
    <2> QED
      BY <1>2, <1>4, <2>2, <2>3 DEF DateMoves, d
  <1>6. CASE q = r /\ store'.daemons[d].at = req[q].now
    BY <1>2, <1>3, <1>6, Dates
  <1>7. CASE q # r
    BY <1>1, <1>2, <1>5, <1>7 DEF Same
  <1>8. CASE q = r
    BY <1>1, <1>2, <1>5, <1>6, <1>8 DEF WorkingMoves
  <1> QED
    BY <1>7, <1>8

\* A request that is not there yet changes nothing in the database.
LEMMA IdleKeepsStore ==
  ASSUME Typed, NEW r \in Slots, Turn(r), ~Live(r)
  PROVE  UNCHANGED store
  <1>1. ASSUME NEW m \in scenario.msgs, ArriveTurn(r, m) \/ RegisterTurn(r, m)
                                          \/ ResolveTurn(r, m)
        PROVE  UNCHANGED store
    BY <1>1 DEF ArriveTurn, RegisterTurn, ResolveTurn
  <1>2. \E m \in scenario.msgs : ArriveTurn(r, m) \/ RegisterTurn(r, m)
                                   \/ ResolveTurn(r, m)
    BY DEF Turn, Live, PruneTurn, CheckTurn, AdmitTurn, RecordTurn, TouchTurn,
       EnterProofTurn, RecordProofTurn, LookupTurn, CommitTurn, SaveTurn,
       UndoTurn, EvictTurn, RemoveTurn, ForgetTurn, BindTurn, BoundTurn,
       LookupTokenTurn, DeliverTurn, TouchTokenTurn, TouchBindingTurn,
       EvictCodesTurn, SupersedeTurn, SaveCodeTurn, ShowTurn, ForgetCodeTurn,
       DeleteCodeTurn, DropTurn
  <1> QED
    BY <1>1, <1>2

\* A binding that will be acknowledged is in the database.
LEMMA BoundTokenStep ==
  ASSUME Typed, PhaseInv, PhaseInv', ClaimInv, AckTokenInv, LongRetention,
         NEW r \in Slots, Turn(r),
         NEW q \in Slots, req'[q].pc = "bound", req'[q].alone,
         clock + Timeout <= req'[q].reg.at + TokenTTL
  PROVE  Binds(store', req'[q].m.item, req'[q].m.d, req'[q].reg.at)
  <1>1. /\ \A o \in Slots \ {r} : Same(o)
        /\ BoundMoves(r) /\ store \in Tables
    BY TurnRests, BoundTurnMoves DEF Typed
  <1>2. CASE q = r /\ store'.tokens[req[r].m.item] = req'[r].reg
    <2>1. /\ req'[q].reg \in TokenOwner /\ req'[q].m = req[r].m
          /\ req'[q].reg.d = req'[q].m.d
      <3>1. PhaseInv' => (Live(q)' => SoundTokens(req[q], clock)')
        BY DEF PhaseInv, Sound
      <3>2. SoundTokens(req[q], clock)' => /\ req'[q].reg \in TokenOwner
                                           /\ req'[q].reg.d = req'[q].m.d
        BY DEF SoundTokens
      <3> QED
        BY <1>1, <1>2, <3>1, <3>2 DEF BoundMoves, Live
    <2>2. req'[q].reg # None /\ req'[q].reg.at \in Nat /\ Timeout \in Nat
      BY <2>1, RelayAssumption DEF TokenOwner, Times
    <2> QED
      BY <1>2, <2>1, <2>2 DEF Binds
  <1>3. CASE /\ Live(q) /\ req[q].pc = "bound" /\ req'[q].m = req[q].m
             /\ req'[q].reg = req[q].reg /\ req[q].alone
             /\ q # r \/ UNCHANGED store
    <2>1. /\ req[q].m.item \in Tokens /\ req[q].m.item \in req[q].subject
          /\ req[q].m.kind = "token" /\ req[q].m.d \in Daemons
          /\ req[q].reg.at \in Nat /\ req[q].reg.at <= clock
      BY <1>3, InProgress, MessageFields, Dates
         DEF Sound, SoundTokens, Binding, Sensible
    <2>2. Binds(store, req[q].m.item, req[q].m.d, req[q].reg.at)
      BY <1>3 DEF AckTokenInv
    <2>3. CASE UNCHANGED store
      BY <1>3, <2>2, <2>3
    <2>4. CASE q # r
      <3> DEFINE d == req[q].m.d
                 t == req[q].m.item
                 at == req[q].reg.at
                 H == Gone(store, req[r].now)
      <3>1. Live(r) => /\ t \notin req[r].subject /\ at <= req[r].now + Timeout
        BY <1>3, <2>1, <2>4, Dates DEF ClaimInv
      <3>2. TokenMoves(r, store, store', t, req[r].now, H)
        BY <2>1, StoreTokenTurns
      <3>3. Live(r) => d \notin H
        <4> SUFFICES ASSUME Live(r), d \in H
                     PROVE  FALSE
          OBVIOUS
        <4>1. /\ req[r].now \in Nat /\ req[r].now <= clock
              /\ clock <= req[q].now + Timeout /\ req[q].now \in Nat
          BY <1>3, Dates
        <4>2. store.daemons[d] # None
          BY DEF Gone, Lapsed
        <4>3. store.daemons[d].at + Retention < req[r].now
          BY <1>1, <2>1, <4>1, <4>2, LapsedIs
        <4>4. req[q].now <= store.daemons[d].at + Timeout /\ store.daemons[d].at \in Nat
          BY <1>3, <2>1, <4>2, DatesAreNaturals DEF AckTokenInv, Working, Binding
        <4> HIDE DEF d, H
        <4> QED
          BY <4>1, <4>3, <4>4, Dates DEF LongRetention
      <3>4. /\ Binds(store, t, d, at) /\ at \in Nat /\ t \in Tokens
            /\ clock + Timeout <= at + TokenTTL
        BY <1>3, <2>1, <2>2
      <3> HIDE DEF d, t, at, H
      <3>5. CASE Live(r)
        <4>1. Binds(store', t, d, at)
          BY <1>1, <3>1, <3>2, <3>3, <3>4, <3>5, KeepsBinds
        <4> QED
          BY <1>3, <4>1 DEF d, t, at
      <3>6. CASE ~Live(r)
        <4>1. UNCHANGED store
          BY <3>6, IdleKeepsStore
        <4> QED
          BY <1>3, <2>2, <4>1
      <3> QED
        BY <3>5, <3>6
    <2> QED
      BY <1>3, <2>3, <2>4
  <1>4. CASE q # r
    BY <1>1, <1>3, <1>4 DEF Same, Live
  <1>5. CASE q = r
    BY <1>1, <1>2, <1>3, <1>5 DEF BoundMoves
  <1> QED
    BY <1>4, <1>5

LEMMA AckTokenStep ==
  ASSUME Typed, PhaseInv, Typed', PhaseInv', ClaimInv, AckTokenInv, LongRetention, Turns
  PROVE  AckTokenInv'
  <1>1. ASSUME NEW r \in Slots, Turn(r)
        PROVE  AckTokenInv'
    <2>1. clock' = clock /\ up' = up
      BY <1>1, TurnRests DEF world
    <2> QED
      BY <1>1, <2>1, AckedTokenStep, BoundTokenStep, WorkingStep DEF AckTokenInv
  <1>2. CASE Tick
    <2>1. /\ clock' = clock + 1 /\ clock \in Nat
          /\ UNCHANGED <<up, inner, store, req, acked>>
      BY <1>2, Dates DEF Tick, noted
    <2>2. ASSUME NEW at \in Nat, clock' + Timeout <= at + TokenTTL
          PROVE  clock + Timeout <= at + TokenTTL
      BY <2>1, <2>2, Dates
    <2>3. ASSUME NEW t \in Tokens, acked[t] # None,
                 clock' + Timeout <= acked[t].at + TokenTTL
          PROVE  /\ up => Binds(inner, t, acked[t].val, acked[t].at)
                 /\ Binds(store, t, acked[t].val, acked[t].at)
      BY <2>2, <2>3, Dates DEF AckTokenInv
    <2>4. ASSUME NEW r \in Slots, req[r].pc = "bound", req[r].alone,
                 clock' + Timeout <= req[r].reg.at + TokenTTL
          PROVE  Binds(store, req[r].m.item, req[r].m.d, req[r].reg.at)
      BY <2>2, <2>4, Dates DEF AckTokenInv
    <2> QED
      BY <2>1, <2>3, <2>4 DEF AckTokenInv, Binds
  <1>3. CASE CrashTurn
    BY <1>3 DEF CrashTurn, AckTokenInv, Binds, Idle, Working, Binding
  <1>4. CASE RestartTurn
    <2> DEFINE G == Gone(store, clock)
    <2> HIDE DEF G
    <2>1. /\ ~up /\ clock' = clock /\ inner' = store' /\ req' = req /\ store \in Tables
          /\ Pruned(store, store', clock, G)
          /\ \A x \in Daemons \cup Tokens :
               acked'[x] = IF x \in TokensOf(G) THEN None ELSE acked[x]
      BY <1>4, DisturbIs DEF RestartTurn, Typed, Acks, G
    <2>2. \A q \in Slots : ~Live(q)
      BY <2>1 DEF PhaseInv
    <2>3. ASSUME NEW t \in Tokens, acked'[t] # None,
                 clock + Timeout <= acked'[t].at + TokenTTL
          PROVE  Binds(store', t, acked'[t].val, acked'[t].at)
      <3>1. acked'[t] = acked[t] /\ acked[t].val \notin G
        BY <2>1, <2>3 DEF TokensOf
      <3>2. Binds(store, t, acked[t].val, acked[t].at) /\ acked[t].at \in Nat
        BY <2>3, <3>1, Dates DEF AckTokenInv
      <3>3. /\ store.tokens[t] # None /\ store.tokens[t].at \in Nat
            /\ store.tokens[t].d \notin G
        BY <3>1, <3>2, DatesAreNaturals DEF Binds
      <3>4. clock <= store.tokens[t].at + TokenTTL
        BY <2>3, <3>1, <3>2, <3>3, Dates DEF Binds
      <3>5. store'.tokens[t] = store.tokens[t]
        BY <2>1, <3>3, <3>4 DEF Pruned
      <3> QED
        BY <3>1, <3>2, <3>5 DEF Binds
    <2> QED
      BY <2>1, <2>2, <2>3 DEF AckTokenInv, Live, Working, Binding
  <1>5. CASE UNCHANGED vars
    BY <1>5 DEF vars, AckTokenInv, Binds
  <1> QED
    BY <1>1, <1>2, <1>3, <1>4, <1>5 DEF Turns

LEMMA AckTokenInit ==
  ASSUME Init
  PROVE  AckTokenInv
  BY DEF Init, AckTokenInv, Idle, Working, Binding

LEMMA AckedToken ==
  ASSUME AckTokenInv
  PROVE  AckedTokenIsKept
  BY DEF AckTokenInv, AckedTokenIsKept, Binds

-----------------------------------------------------------------------------
(***************************************************************************)
(* The theorems.                                                           *)
(***************************************************************************)

\* What every step preserves.  The parts about single requests that may arrive
\* again, and about bindings, need daemons to be kept long enough.
RelayInv ==
  /\ Typed /\ PhaseInv /\ CodeInv /\ KeyInv /\ CapInv /\ ClaimInv /\ AckKeyInv
  /\ LongRetention => NonceInv /\ AckTokenInv

LEMMA RelayInit ==
  ASSUME Init
  PROVE  RelayInv
  <1>1. Typed
    BY TypedInit
  <1> QED
    BY <1>1, PhaseInit, CodeInit, KeyInit, CapInit, ClaimInit, AckKeyInit, NonceInit,
       AckTokenInit DEF RelayInv

LEMMA RelayStep ==
  ASSUME RelayInv, [Next]_vars
  PROVE  RelayInv'
  <1>1. Typed /\ PhaseInv /\ Turns
    BY NextTurns DEF RelayInv
  <1>2. Typed' /\ PhaseInv'
    BY <1>1, TypedStep, PhaseStep
  <1>3. CodeInv' /\ KeyInv' /\ CapInv' /\ ClaimInv' /\ AckKeyInv'
    BY <1>1, <1>2, CodeStep, KeyStep, CapStep, ClaimStep, AckKeyStep DEF RelayInv
  <1>4. ASSUME LongRetention
        PROVE  NonceInv' /\ AckTokenInv'
    BY <1>1, <1>2, <1>4, NonceStep, AckTokenStep DEF RelayInv
  <1>5. LongRetention' <=> LongRetention
    BY DEF LongRetention
  <1> QED
    BY <1>2, <1>3, <1>4, <1>5 DEF RelayInv

LEMMA RelayInvariant == Spec => []RelayInv
  <1>1. Init => RelayInv
    BY RelayInit
  <1>2. RelayInv /\ [Next]_vars => RelayInv'
    BY RelayStep
  <1> QED
    BY <1>1, <1>2, PTL DEF Spec

\* register_daemon: memory and database hold well-formed entries at every step,
\* and registrations that compete for the last places never take more of them
\* than MAX_DAEMONS, however lookup, signature check and commit interleave.
THEOREM RegistryIsWithinBounds == Spec => []WithinBounds
  <1>1. RelayInv => WithinBounds
    <2> SUFFICES ASSUME RelayInv PROVE WithinBounds
      OBVIOUS
    <2>1. Typed /\ PhaseInv /\ CodeInv /\ CapInv
      BY DEF RelayInv
    <2>2. ASSUME NEW r \in Slots
          PROVE  req[r] = Idle \/ req[r].m \in scenario.msgs
      <3>1. CASE Live(r)
        BY <2>1, <3>1 DEF PhaseInv, Sound
      <3>2. CASE ~Live(r)
        <4>1. req[r] \in {Idle} \cup Requests
          BY <2>1 DEF Typed
        <4> QED
          BY <3>2, <4>1, RequestFields DEF Live
      <3> QED
        BY <3>1, <3>2
    <2> QED
      BY <2>1, <2>2 DEF WithinBounds, TypeOK, Typed, CodeInv, CapInv
  <1> QED
    BY <1>1, RelayInvariant, PTL

\* resolve_pairing_code: a published code that was resolved, and whose row is
\* deleted, is gone from memory and from the database for good: no publish in
\* progress, no late save and no restart brings it back.
THEOREM ResolvedCodesStayGone == Spec => []SpentCodesAreGone
  <1>1. RelayInv => SpentCodesAreGone
    BY DEF RelayInv, CodeInv, NotSpent, SpentCodesAreGone
  <1> QED
    BY <1>1, RelayInvariant, PTL

\* register_daemon: a registered key is replaced only by a request that it
\* signed, although key lookup, signature check and commit are separate critical
\* sections (as long as every save succeeds, and no key is registered again).
THEOREM KeysAreHandedOver == Spec => KeyHandoverIfNotReturned
  <1>1. RelayInv /\ [Next]_vars =>
          [\A d \in Daemons :
             ~scenario.fails /\ up /\ up' /\ KeyReplaced(d)
                /\ inner.daemons[d].key \notin former[d] =>
             \E r \in Slots : Signed(d, r)]_vars
    <2> SUFFICES ASSUME RelayInv, [Next]_vars
                 PROVE  \A d \in Daemons :
                          ~scenario.fails /\ up /\ up' /\ KeyReplaced(d)
                             /\ inner.daemons[d].key \notin former[d] =>
                          \E r \in Slots : Signed(d, r)
      OBVIOUS
    <2>1. Typed /\ PhaseInv /\ KeyInv /\ Turns
      BY NextTurns DEF RelayInv
    <2> QED
      BY <2>1, KeyProperty
  <1> QED
    BY <1>1, RelayInvariant, PTL DEF Spec, KeyHandoverIfNotReturned

\* verify_signed_request: a signed request that arrives any number of times is
\* accepted at most once inside the window of its timestamp: the row of its nonce
\* outlives the window in the database, through prunes and restarts, even when the
\* entry in memory does not (a daemon is kept for longer than the window).
THEOREM RequestsAreNotReplayed ==
  ASSUME LongRetention
  PROVE  Spec => []NoReplay
  <1>1. RelayInv => NoReplay
    BY DEF RelayInv, NonceInv
  <1> QED
    BY <1>1, RelayInvariant, PTL

\* register_daemon: a registration that was acknowledged, and that no other one
\* overlapped, is in memory and in the database until the daemon has been idle
\* for its retention, whatever is pruned, dropped, stopped or restarted.
THEOREM AcknowledgedKeysAreKept == Spec => []AckedKeyIsKept
  <1>1. RelayInv => AckedKeyIsKept
    BY AckedKey DEF RelayInv
  <1> QED
    BY <1>1, RelayInvariant, PTL

\* register_daemon, register_token: the same holds of the bindings of push tokens,
\* until their lifetime is over, when a daemon is kept for longer than a request
\* takes.
THEOREM AcknowledgementsAreKept ==
  ASSUME LongRetention
  PROVE  Spec => []AckedIsKept
  <1>1. RelayInv => AckedIsKept
    BY AckedKey, AckedToken DEF RelayInv, AckedIsKept
  <1> QED
    BY <1>1, RelayInvariant, PTL
=============================================================================
