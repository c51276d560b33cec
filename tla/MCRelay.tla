------------------------------ MODULE MCRelay ------------------------------
(***************************************************************************)
(* Instances of the relay.  Scenarios are explored side by side, so that   *)
(* their state spaces add up rather than multiply.                         *)
(***************************************************************************)
EXTENDS Relay, TLC

CONSTANTS d1, d2, d3, k1, k2, k3, n1, t1, t2, c1, c2

Plain == [kind |-> "pair", d |-> d1, sig |-> None, new |-> None,
          item |-> None, nonce |-> None, ts |-> 0]
Register(d, k) == [Plain EXCEPT !.d = d, !.new = k]
Rekey(old, new) == [Plain EXCEPT !.sig = old, !.new = new]
Prove(k, ts) == [Plain EXCEPT !.kind = "prove", !.new = k, !.nonce = n1, !.ts = ts]
By(kind, d, x) == [Plain EXCEPT !.kind = kind, !.d = d, !.sig = k1, !.item = x]
Repeated(m, ts) == [m EXCEPT !.nonce = n1, !.ts = ts]
ResolveOf(c) == [Plain EXCEPT !.kind = "resolve", !.item = c]

One == (d1 :> k1)

Scene(msgs, ticks) == [msgs |-> msgs, registered |-> One, prune |-> FALSE,
                       fails |-> TRUE, ticks |-> ticks, crashes |-> 1]

\* One signed request that arrives again and again, next to registrations.
Replays ==
  {[Scene({Repeated(By("untoken", d1, t1), 1)}, 4) EXCEPT
      !.prune = TRUE, !.fails = FALSE],
   [Scene({Repeated(By("untoken", d1, t1), 0)}, 2) EXCEPT !.fails = TRUE],
   [Scene({Prove(k1, 1), Register(d2, k1)}, 2) EXCEPT
      !.registered = <<>>, !.prune = TRUE]}

\* Keys replaced by their owners; registrations that compete for an id and
\* for the last place.
Handovers ==
  {[Scene({Rekey(k1, k2), Rekey(k2, k3), Register(d1, k2)}, 1) EXCEPT
      !.fails = FALSE],
   [Scene({Register(d1, k1), Register(d1, k2), Register(d2, k1)}, 1) EXCEPT
      !.registered = (d3 :> k1), !.crashes = 0],
   [Scene({Register(d1, k1)}, 4) EXCEPT !.prune = TRUE]}

\* Bindings of tokens, by one daemon at its cap and by two daemons.
Bindings ==
  {[Scene({By("token", d1, t1), By("push", d1, t1)}, 3) EXCEPT !.fails = FALSE],
   [Scene({By("token", d1, t1), By("token", d1, t2)}, 0) EXCEPT !.fails = FALSE],
   [Scene({By("token", d1, t1), By("token", d2, t1), By("untoken", d2, t1)}, 0)
      EXCEPT !.registered = One @@ (d2 :> k1), !.fails = FALSE],
   Scene({By("token", d1, t1), By("untoken", d1, t1)}, 0)}

Pairings ==
  {Scene({By("publish", d1, c1), By("publish", d1, c2), ResolveOf(c1),
          ResolveOf(c2)}, 2)}

\* A key that is handed over, and handed back, while a request is in progress.
HandBacks ==
  {[Scene({Rekey(k1, k2), Rekey(k2, k1), Rekey(k2, k3)}, 0) EXCEPT !.fails = FALSE]}

AllScenarios == Replays \cup Handovers \cup HandBacks \cup Bindings \cup Pairings

Interchangeable == Permutations(Slots)
=============================================================================
