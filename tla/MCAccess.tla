------------------------------ MODULE MCAccess -----------------------------
(***************************************************************************)
(* Instances of Access.  Scenarios are explored side by side.              *)
(***************************************************************************)
EXTENDS Access, TLC

CONSTANTS d1, d2, t1

Scene(paired, asks) ==
  [paired |-> paired, phones |-> {d1}, asks |-> asks, tokens |-> {t1}, fails |-> TRUE,
   codes |-> 0, removals |-> 1, crashes |-> 1]

\* Two phones race for a code.
Race == [Scene({}, {"pair"}) EXCEPT !.phones = {d1, d2}, !.codes = 1,
                                    !.removals = 0, !.fails = FALSE]

\* A device is removed while its connections are at work.
Removal == [Scene({d1}, {"unpair", "forward", "push"}) EXCEPT !.removals = 2]
Notified == [Scene({d1}, {"push", "clear"}) EXCEPT !.tokens = Tokens]

\* A device pairs, or pairs again, while it is removed.
FirstPairing == [Scene({}, {"pair", "forward"}) EXCEPT !.codes = 1]
Again == [Scene({d1}, {"pair", "push"}) EXCEPT !.codes = 1]

AllScenarios == {Race, Removal, Notified, FirstPairing, Again}

Interchangeable == Permutations(Conns)
=============================================================================
