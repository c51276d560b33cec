----------------------------- MODULE ByteStream -----------------------------
(***************************************************************************)
(* What a session promises its terminals, with no ring, no snapshots, no   *)
(* queues and no reconnections: the child prints a stream of bytes, and    *)
(* the screen of every terminal shows a prefix of that stream, which only  *)
(* grows until the terminal is reset or closed.                            *)
(***************************************************************************)
EXTENDS Integers

CONSTANTS Terminals, MaxBytes

VARIABLES
  produced,   \* bytes the child has printed
  screen      \* the bytes each terminal shows, as positions in the stream

vars == <<produced, screen>>

Prefix(n) == 1..n

Init ==
  /\ produced = 0
  /\ screen = [t \in Terminals |-> Prefix(0)]

Produce ==
  /\ produced' \in (produced + 1)..MaxBytes
  /\ UNCHANGED screen

\* A terminal catches up, partly or fully.
Show(t) ==
  /\ \E n \in 0..produced :
       /\ screen[t] \subseteq Prefix(n)
       /\ screen' = [screen EXCEPT ![t] = Prefix(n)]
  /\ UNCHANGED produced

\* A new terminal takes the place of an old one, or the old one is closed.
Clear(t) ==
  /\ screen' = [screen EXCEPT ![t] = Prefix(0)]
  /\ UNCHANGED produced

Next == Produce \/ \E t \in Terminals : Show(t) \/ Clear(t)

Spec == Init /\ [][Next]_vars

=============================================================================
