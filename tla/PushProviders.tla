--------------------------- MODULE PushProviders ---------------------------
(***************************************************************************)
(* The relay's two push services (relay/src/fcm.rs, apns.rs, and the        *)
(* PushProviders of lib.rs).  Many /v1/push handlers share one credential:  *)
(*   FCM   an OAuth token, bought with a signed assertion.  The cache lock  *)
(*         is held through the exchange.                                    *)
(*   APNs  a JWT the relay signs itself, under a plain lock.                *)
(* Both take the time before they take the lock (tokio's lock serves its    *)
(* waiters in order).  One tick of the clock is the deadline of an HTTP     *)
(* request.                                                                 *)
(***************************************************************************)
EXTENDS Integers, Sequences

CONSTANTS
    Sends,         \* deliveries
    RefreshSkew,   \* ACCESS_TOKEN_REFRESH_SKEW_SECONDS
    MinUsable,     \* the minute a short-lived token is used for
    Lifetimes,     \* what Google may answer as expires_in
    JwtTtl,        \* APNS_JWT_TTL_SECONDS
    JwtLimit,      \* external: the age at which Apple refuses a JWT
    MaxTime        \* bound on the clock

\* The margins outlast an exchange and a notification, each of a tick at most.
ASSUME ProvidersAssumption ==
    /\ Lifetimes \subseteq Nat /\ {RefreshSkew, MinUsable, JwtTtl, JwtLimit, MaxTime} \subseteq Nat
    /\ RefreshSkew > 0 /\ RefreshSkew + MinUsable > 2
    /\ JwtTtl > 0 /\ JwtTtl + 2 <= JwtLimit

NoCredential == [issued |-> -1, expires |-> -1, stamp |-> -1, life |-> -1]

VARIABLES
    platform,      \* "fcm" or "apns"; "none": the provider is not configured
    clock,
    cached,        \* the cached credential; stamp: when to refresh, or when generated
    waiting,       \* token_cache's lock: its holder in front, then the waiters in order
    send,          \* the deliveries; life: of the credential that was refused
    generated      \* history: when the APNs JWTs were generated

providersVars == <<platform, clock, cached, waiting, send, generated>>

NewSend == [pc |-> "idle", at |-> 0, since |-> 0, credential |-> NoCredential,
         answer |-> "none", outcome |-> "none", life |-> -1]

\* A provider without credentials in the environment is left out.
Configured == {"fcm", "apns", "none"}

ProvidersInit ==
    /\ platform \in Configured
    /\ clock = 0 /\ cached = NoCredential /\ waiting = <<>>
    /\ send = [s \in Sends |-> NewSend] /\ generated = {}

Max2(a, b) == IF a > b THEN a ELSE b
Min2(a, b) == IF a < b THEN a ELSE b

-----------------------------------------------------------------------------
(***************************************************************************)
(* Time.  Nothing but waiting for the lock and HTTP, with its deadline,     *)
(* takes time; a handler may be delayed for a tick before APNs' plain lock. *)
(***************************************************************************)
Tick ==
    /\ clock < MaxTime
    /\ \A s \in Sends :
          /\ send[s].pc = "asked" => IF platform = "fcm" THEN s # Head(waiting) ELSE clock = send[s].at
          /\ send[s].pc \in {"exchanging", "posting"} => clock = send[s].since
    /\ clock' = clock + 1
    /\ UNCHANGED <<platform, cached, waiting, send, generated>>

\* PushProviders::deliver: the clock is read here, before any lock.  A platform
\* without a configured provider counts as delivered.
Deliver(s) ==
    /\ send[s].pc \in {"idle", "done"}
    /\ send' = [send EXCEPT ![s] =
                  IF platform = "none" THEN [NewSend EXCEPT !.pc = "done", !.outcome = "ok"]
                  ELSE [NewSend EXCEPT !.pc = "asked", !.at = clock]]
    /\ waiting' = IF platform = "fcm" THEN Append(waiting, s) ELSE waiting
    /\ UNCHANGED <<platform, clock, cached, generated>>

-----------------------------------------------------------------------------
(***************************************************************************)
(* FCM: access_token.                                                       *)
(***************************************************************************)
\* Fault: the token is used up to its last second.
RefreshAtExpiry(now, expires_in) == now + expires_in

\* access_token_refresh_at
access_token_refresh_at(now, expires_in) ==
    now + Max2(expires_in - RefreshSkew, Min2(expires_in, MinUsable))

\* Fault: the lock is given back before the exchange.
QueueInExchangeNone == Tail(waiting)

QueueInExchange == waiting

\* Fault: the lock is held through the notification too.
QueueAfterHitHeld == waiting

QueueAfterHit == Tail(waiting)

Posting(s, credential) ==
    [send[s] EXCEPT !.pc = "posting", !.since = clock, !.credential = credential]

\* cached_token, or the exchange begins.
AccessToken(s) ==
    /\ platform = "fcm" /\ send[s].pc = "asked" /\ s = Head(waiting)
    /\ IF cached # NoCredential /\ send[s].at < cached.stamp
       THEN send' = [send EXCEPT ![s] = Posting(s, cached)] /\ waiting' = QueueAfterHit
       ELSE /\ send' = [send EXCEPT ![s].pc = "exchanging", ![s].since = clock]
            /\ waiting' = QueueInExchange
    /\ UNCHANGED <<platform, clock, cached, generated>>

\* The guard of the lock's holder is dropped.
GivenBack(s) == IF waiting # <<>> /\ s = Head(waiting) THEN Tail(waiting) ELSE waiting

\* Google issued the token at some moment of the exchange.
Exchanged(s) ==
    /\ send[s].pc = "exchanging"
    /\ \E life \in Lifetimes, issued \in send[s].since..clock :
          LET token == [issued |-> issued, expires |-> issued + life, life |-> life,
                        stamp |-> access_token_refresh_at(send[s].at, life)]
          IN  cached' = token /\ send' = [send EXCEPT ![s] = Posting(s, token)]
    /\ waiting' = GivenBack(s)
    /\ UNCHANGED <<platform, clock, generated>>

\* Fault: the error path forgets the lock.
AfterFailedExchangeHeld(s) == waiting

\* Dropping the guard frees the lock on every return.
AfterFailedExchange(s) == GivenBack(s)

\* Refused, unreadable, not a bearer token, or past the deadline.
ExchangeFails(s) ==
    /\ send[s].pc = "exchanging"
    /\ send' = [send EXCEPT ![s] = [NewSend EXCEPT !.pc = "done", !.outcome = "other"]]
    /\ waiting' = AfterFailedExchange(s)
    /\ UNCHANGED <<platform, clock, cached, generated>>

-----------------------------------------------------------------------------
(***************************************************************************)
(* APNs: ApnsJwtCache::token, under the lock.                               *)
(***************************************************************************)
\* Fault: a time before the cached one wraps around.
AgeWrapping(now, then) == IF now < then THEN JwtTtl ELSE now - then

\* saturating_sub: another handler may have cached a JWT after we read the time.
Age(now, then) == Max2(now - then, 0)

Jwt(s) ==
    /\ platform = "apns" /\ send[s].pc = "asked"
    /\ IF cached # NoCredential /\ Age(send[s].at, cached.stamp) < JwtTtl
       THEN send' = [send EXCEPT ![s] = Posting(s, cached)] /\ UNCHANGED <<cached, generated>>
       ELSE LET jwt == [issued |-> send[s].at, expires |-> send[s].at + JwtLimit,
                        life |-> JwtLimit, stamp |-> send[s].at]
            IN  /\ cached' = jwt /\ generated' = generated \cup {send[s].at}
                /\ send' = [send EXCEPT ![s] = Posting(s, jwt)]
    /\ UNCHANGED <<platform, clock, waiting>>

-----------------------------------------------------------------------------
(***************************************************************************)
(* The notification.  external: what the services answer.                   *)
(***************************************************************************)
DeadToken == IF platform = "apns" THEN {"BadDeviceToken", "DeviceTokenNotForTopic", "Gone"}
             ELSE {"UNREGISTERED", "INVALID_ARGUMENT"}
OtherError == IF platform = "apns" THEN {"Unregistered", "InternalServerError"}
              ELSE {"BadRequest", "UNAVAILABLE"}
Answers(s) == IF clock >= send[s].credential.expires THEN {"ExpiredProviderToken"}
              ELSE {"ok"} \cup DeadToken \cup OtherError

\* Fault: every refusal counts against the device's token.
InvalidTokenAlways(answer) == answer # "ok"

\* fcm_invalid_token_reason (typed FcmError details only), and
\* apns_error_is_invalid_token ("Gone" is 410 with Unregistered).
InvalidToken(answer) == answer \in DeadToken

\* ProviderDeliveryError: the caller learns whether to give up the token.
Outcome(answer) ==
    IF answer = "ok" THEN "ok" ELSE IF InvalidToken(answer) THEN "invalid" ELSE "other"

Post(s) ==
    /\ send[s].pc = "posting"
    /\ \E answer \in Answers(s) \cup {"timeout"} :
          send' = [send EXCEPT ![s] =
                     [NewSend EXCEPT !.pc = "done", !.answer = answer,
                                  !.outcome = Outcome(answer),
                                  !.life = IF answer = "ExpiredProviderToken"
                                           THEN send[s].credential.life ELSE -1]]
    /\ UNCHANGED <<platform, clock, cached, waiting, generated>>

SendStep(s) == AccessToken(s) \/ Exchanged(s) \/ ExchangeFails(s) \/ Jwt(s) \/ Post(s)

ProvidersNext == Tick \/ \E s \in Sends : Deliver(s) \/ SendStep(s)

\* Handlers run, and the client's deadlines end every request.
ProvidersFairness == \A s \in Sends : WF_providersVars(SendStep(s))

ProvidersSpec == ProvidersInit /\ [][ProvidersNext]_providersVars /\ ProvidersFairness

-----------------------------------------------------------------------------
(***************************************************************************)
(* Properties.                                                              *)
(***************************************************************************)
\* The types, and: a handler that has its credential no longer holds up the
\* others, however long the service takes.
ProvidersTypeOK ==
    /\ clock \in 0..MaxTime /\ waiting \in Seq(Sends)
    /\ \A k \in DOMAIN waiting : send[waiting[k]].pc # "posting"
    /\ \A s \in Sends : /\ send[s].pc \in {"idle", "asked", "exchanging", "posting", "done"}
                        /\ send[s].outcome \in {"none", "ok", "invalid", "other"}
                        /\ send[s].at <= clock
    /\ \A s \in Sends : send[s].pc = "posting" => send[s].credential.issued \in 0..clock

\* However many handlers miss the cache at once, one buys the token and the
\* others use it: never two exchanges at a time, and none while the cached
\* token is good.
SingleFlight ==
    \A s \in Sends : send[s].pc = "exchanging" =>
        /\ \A t \in Sends : send[t].pc = "exchanging" => t = s
        /\ cached.stamp <= send[s].since

\* A credential whose lifetime exceeds the refresh margin is still valid when
\* the service reads the request, although the handler's clock was read before
\* it waited for the lock and the request may take its whole deadline.
CredentialIsLive ==
    \A s \in Sends : send[s].answer = "ExpiredProviderToken" =>
        send[s].life < RefreshSkew + MinUsable

\* APNs JWTs are renewed no more often than their lifetime, handlers that read
\* the clock before another one's renewal included (Apple refuses frequent
\* renewals).
JwtRenewedSeldom ==
    \A a, b \in generated : a < b => b - a >= JwtTtl

\* A device's token is given up only because the service said so: not for the
\* relay's own expired credential, a deadline, or an error of another kind.
DeviceTokenIsSpared ==
    \A s \in Sends : send[s].outcome = "invalid" => send[s].answer \in DeadToken

\* Every delivery gets an outcome, again and again; a failed exchange does not
\* block the others.
SendsEnd == \A s \in Sends : []<>(send[s].pc \in {"idle", "done"})

\* Deliveries share live credentials that are bought once, and none of them
\* costs a phone its binding without cause.
ProvidersInv ==
    /\ ProvidersTypeOK
    /\ SingleFlight
    /\ CredentialIsLive
    /\ JwtRenewedSeldom
    /\ DeviceTokenIsSpared
=============================================================================
