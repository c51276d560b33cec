------------------------- MODULE MCSessionRegistry -------------------------
(***************************************************************************)
(* Instances of SessionRegistry for TLC.  Connections are interchangeable, *)
(* and so are sessions and names.                                          *)
(***************************************************************************)
EXTENDS SessionRegistry, TLC

Interchangeable ==
  Permutations(Sessions) \cup Permutations(Handlers) \cup Permutations(Names)

\* No action reads the published list or the answers sent, and only Start
\* reads the database: a run in which the daemon is started once, and whose
\* properties read none of them, need not tell them apart.
WithoutDatabase ==
  <<up, appVars, objectVars, ioVars, evictVars, hPc, hSess, hName, created,
    dropped, kills>>

=============================================================================
