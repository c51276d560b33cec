----------------------- MODULE SessionRegistryProofs -----------------------
(***************************************************************************)
(* Proofs about SessionRegistry, for any number of sessions, names and     *)
(* connections, any cap and any number of kills and restarts.              *)
(***************************************************************************)
EXTENDS SessionRegistry, FiniteSetTheorems, TLAPS

-----------------------------------------------------------------------------
(***************************************************************************)
(* The inductive invariant, part by part.                                  *)
(***************************************************************************)

\* Nothing of a process that does not run is left.
DownInv ==
  ~up => /\ live = {} /\ restored = {} /\ names = {} /\ published = FALSE
         /\ \A h \in Handlers : hPc[h] = "idle"
         /\ \A s \in Sessions : evPc[s] = "off"

Named == {s \in Sessions : nameOf[s] # NoName}

\* Whatever is known of a session, it has been given a name before.
NamedInv ==
  /\ live \subseteq Named /\ restored \subseteq Named
  /\ \A h \in Handlers : hPc[h] # "idle" => hSess[h] \in Named
  /\ \A s \in Sessions :
       /\ ioPc[s] # "off" => s \in Named
       /\ evPc[s] # "off" => s \in Named
       /\ disk[s] # "none" => s \in Named
       /\ \A t \in Savers : savePc[s][t] # "off" => s \in Named
       /\ evPc[s] \in {"drop", "unname", "erase"} => victim[s] \in Named

\* A session is created by one handler, and its forwarder starts after that.
Creating == {"spawn", "insert", "watch", "look"}

CreatorInv ==
  \A h \in Handlers : hPc[h] \in Creating =>
    /\ evPc[hSess[h]] = "off"
    /\ \A g \in Handlers : hPc[g] \in Creating /\ hSess[g] = hSess[h] => g = h

\* Where a handler may be about to free a name it has read.
Killing == {"get", "mark", "remove", "unrestore", "unname", "erase", "draw",
            "send"}

KillInv ==
  \A h \in Handlers :
    /\ hPc[h] \in Killing => hSess[h] \in dropped
    /\ hPc[h] \in (HPcs \ Killing) \cup {"get"} => hName[h] = NoName
    /\ hPc[h] \in {"mark", "remove"} => hName[h] = nameOf[hSess[h]]
    /\ hPc[h] \in {"unrestore", "unname"} => hName[h] \in {NoName, nameOf[hSess[h]]}

\* What a handler is about to report, and what a forwarder is about to take
\* out of the live map, can be found or was dropped.
KeptInv ==
  /\ NoLostSession
  /\ \A h \in Handlers : hPc[h] \in {"watch", "look", "drawNew", "sendNew"} =>
       hSess[h] \in live \cup restored \cup dropped
  /\ \A s \in Sessions : evPc[s] \in Capping \cup {"remove"} =>
       s \in restored \cup dropped

\* A reserved name belongs to a session of the maps, or to one that somebody
\* is still creating, killing, evicting or dropping.
Accounted(s) ==
  \/ s \in live \cup restored
  \/ \E h \in Handlers : /\ hSess[h] = s
                         /\ \/ hPc[h] \in {"spawn", "insert"}
                            \/ hPc[h] \in {"unrestore", "unname"} /\ hName[h] = nameOf[s]
  \/ evPc[s] \in Capping \cup {"insert", "remove", "free"}
  \/ \E o \in Sessions : evPc[o] = "unname" /\ victim[o] = s

Reserved(n) == \E s \in Sessions : nameOf[s] = n /\ Accounted(s)

LeakInv == \A n \in names : Reserved(n)

\* As long as it is not freed, the name of a session is reserved, and its own.
UniqueInv ==
  /\ \A s \in Named \ freed : up => nameOf[s] \in names
  /\ \A s, r \in Named \ freed : nameOf[s] = nameOf[r] => s = r

\* Those that have changed, or may have changed, the maps and not drawn a list.
Stale ==
  {h \in Handlers : hPc[h] \in {"watch", "look", "drawNew", "unrestore",
                                "unname", "erase", "draw"}}
    \cup {s \in Sessions : evPc[s] \in Capping \cup {"remove", "free", "draw"}}

ListInv ==
  ~crossed =>
    /\ \A p, q \in Sending : p = q
    /\ Stale = {} => /\ \A p \in Sending : drawn[p] = Summaries
                     /\ Sending = {} /\ published => list = Summaries

IInv ==
  /\ TypeOK /\ DownInv /\ NamedInv
  /\ CreatorInv /\ KillInv /\ KeptInv
  /\ LeakInv /\ UniqueInv /\ RestoredIsCapped
  /\ ListInv

-----------------------------------------------------------------------------
(***************************************************************************)
(* Type correctness.  What is stored under hSess and victim is a session,  *)
(* because it has a name.                                                  *)
(***************************************************************************)
LEMMA TypeStep ==
  ASSUME TypeOK, NamedInv, [Next]_vars
  PROVE  TypeOK'
  <1> USE DEF vars, appVars, nameVars, listVars, objectVars, ioVars, saveVars,
              evictVars, handlerVars, boundVars
  <1>1. ASSUME NEW h \in Handlers, NEW s \in Sessions, NEW n \in Names,
               CreateReserve(h, s, n)
        PROVE  TypeOK'
    BY <1>1, TypeOK, NamedInv, RegistryAssumption DEF CreateReserve, TypeOK,
       NamedInv, Named, HStep, EvStep, IoStep, Draw, Send, Free, Summaries,
       Publishers, HPcs, EvPcs, IoPcs, SavePcs, Savers, AfterFlush, Unset,
       NoTask, NoSaves, NoSnaps, Idle, NoneDrawn, Rows, NoName, NoSession
  <1>2. ASSUME NEW h \in Handlers, CreateSpawn(h) PROVE TypeOK'
    BY <1>2, TypeOK, NamedInv, RegistryAssumption DEF CreateSpawn, TypeOK,
       NamedInv, Named, HStep, EvStep, IoStep, Draw, Send, Free, Summaries,
       Publishers, HPcs, EvPcs, IoPcs, SavePcs, Savers, AfterFlush, Unset,
       NoTask, NoSaves, NoSnaps, Idle, NoneDrawn, Rows, NoName, NoSession
  <1>3. ASSUME NEW h \in Handlers, CreateFails(h) PROVE TypeOK'
    BY <1>3, TypeOK, NamedInv, RegistryAssumption DEF CreateFails, TypeOK,
       NamedInv, Named, HStep, EvStep, IoStep, Draw, Send, Free, Summaries,
       Publishers, HPcs, EvPcs, IoPcs, SavePcs, Savers, AfterFlush, Unset,
       NoTask, NoSaves, NoSnaps, Idle, NoneDrawn, Rows, NoName, NoSession
  <1>4. ASSUME NEW h \in Handlers, CreateInsert(h) PROVE TypeOK'
    BY <1>4, TypeOK, NamedInv, RegistryAssumption DEF CreateInsert, TypeOK,
       NamedInv, Named, HStep, EvStep, IoStep, Draw, Send, Free, Summaries,
       Publishers, HPcs, EvPcs, IoPcs, SavePcs, Savers, AfterFlush, Unset,
       NoTask, NoSaves, NoSnaps, Idle, NoneDrawn, Rows, NoName, NoSession
  <1>5. ASSUME NEW h \in Handlers, CreateWatch(h) PROVE TypeOK'
    BY <1>5, TypeOK, NamedInv, RegistryAssumption DEF CreateWatch, TypeOK,
       NamedInv, Named, HStep, EvStep, IoStep, Draw, Send, Free, Summaries,
       Publishers, HPcs, EvPcs, IoPcs, SavePcs, Savers, AfterFlush, Unset,
       NoTask, NoSaves, NoSnaps, Idle, NoneDrawn, Rows, NoName, NoSession
  <1>6. ASSUME NEW h \in Handlers, CreateLook(h) PROVE TypeOK'
    BY <1>6, TypeOK, NamedInv, RegistryAssumption DEF CreateLook, TypeOK,
       NamedInv, Named, HStep, EvStep, IoStep, Draw, Send, Free, Summaries,
       Publishers, HPcs, EvPcs, IoPcs, SavePcs, Savers, AfterFlush, Unset,
       NoTask, NoSaves, NoSnaps, Idle, NoneDrawn, Rows, NoName, NoSession
  <1>7. ASSUME NEW h \in Handlers, HandlerDraws(h) PROVE TypeOK'
    <2>1. /\ hPc' \in [Handlers -> HPcs]
          /\ drawn' \in [Publishers -> SUBSET Sessions]
          /\ crossed' \in BOOLEAN
      BY <1>7, TypeOK DEF HandlerDraws, HStep, TypeOK, HPcs, Draw, Publishers,
         Summaries
    <2> QED
      BY <1>7, <2>1, TypeOK DEF HandlerDraws, Draw, TypeOK
  <1>8. ASSUME NEW h \in Handlers, CreateDone(h) PROVE TypeOK'
    BY <1>8, TypeOK, NamedInv, RegistryAssumption DEF CreateDone, TypeOK,
       NamedInv, Named, HStep, EvStep, IoStep, Draw, Send, Free, Summaries,
       Publishers, HPcs, EvPcs, IoPcs, SavePcs, Savers, AfterFlush, Unset,
       NoTask, NoSaves, NoSnaps, Idle, NoneDrawn, Rows, NoName, NoSession
  <1>9. ASSUME NEW h \in Handlers, NEW s \in Sessions, KillRequest(h, s)
        PROVE  TypeOK'
    BY <1>9, TypeOK, NamedInv, RegistryAssumption DEF KillRequest, TypeOK,
       NamedInv, Named, HStep, EvStep, IoStep, Draw, Send, Free, Summaries,
       Publishers, HPcs, EvPcs, IoPcs, SavePcs, Savers, AfterFlush, Unset,
       NoTask, NoSaves, NoSnaps, Idle, NoneDrawn, Rows, NoName, NoSession
  <1>10. ASSUME NEW h \in Handlers, KillGetLive(h) PROVE TypeOK'
    BY <1>10, TypeOK, NamedInv, RegistryAssumption DEF KillGetLive, TypeOK,
       NamedInv, Named, HStep, EvStep, IoStep, Draw, Send, Free, Summaries,
       Publishers, HPcs, EvPcs, IoPcs, SavePcs, Savers, AfterFlush, Unset,
       NoTask, NoSaves, NoSnaps, Idle, NoneDrawn, Rows, NoName, NoSession
  <1>11. ASSUME NEW h \in Handlers, KillGetNone(h) PROVE TypeOK'
    BY <1>11, TypeOK, NamedInv, RegistryAssumption DEF KillGetNone, TypeOK,
       NamedInv, Named, HStep, EvStep, IoStep, Draw, Send, Free, Summaries,
       Publishers, HPcs, EvPcs, IoPcs, SavePcs, Savers, AfterFlush, Unset,
       NoTask, NoSaves, NoSnaps, Idle, NoneDrawn, Rows, NoName, NoSession
  <1>12. ASSUME NEW h \in Handlers, KillMark(h) PROVE TypeOK'
    BY <1>12, TypeOK, NamedInv, RegistryAssumption DEF KillMark, TypeOK,
       NamedInv, Named, HStep, EvStep, IoStep, Draw, Send, Free, Summaries,
       Publishers, HPcs, EvPcs, IoPcs, SavePcs, Savers, AfterFlush, Unset,
       NoTask, NoSaves, NoSnaps, Idle, NoneDrawn, Rows, NoName, NoSession
  <1>13. ASSUME NEW h \in Handlers, KillMarkFails(h) PROVE TypeOK'
    BY <1>13, TypeOK, NamedInv, RegistryAssumption DEF KillMarkFails, TypeOK,
       NamedInv, Named, HStep, EvStep, IoStep, Draw, Send, Free, Summaries,
       Publishers, HPcs, EvPcs, IoPcs, SavePcs, Savers, AfterFlush, Unset,
       NoTask, NoSaves, NoSnaps, Idle, NoneDrawn, Rows, NoName, NoSession
  <1>14. ASSUME NEW h \in Handlers, KillRemove(h) PROVE TypeOK'
    BY <1>14, TypeOK, NamedInv, RegistryAssumption DEF KillRemove, TypeOK,
       NamedInv, Named, HStep, EvStep, IoStep, Draw, Send, Free, Summaries,
       Publishers, HPcs, EvPcs, IoPcs, SavePcs, Savers, AfterFlush, Unset,
       NoTask, NoSaves, NoSnaps, Idle, NoneDrawn, Rows, NoName, NoSession
  <1>15. ASSUME NEW h \in Handlers, KillUnrestore(h) PROVE TypeOK'
    BY <1>15, TypeOK, NamedInv, RegistryAssumption DEF KillUnrestore, TypeOK,
       NamedInv, Named, HStep, EvStep, IoStep, Draw, Send, Free, Summaries,
       Publishers, HPcs, EvPcs, IoPcs, SavePcs, Savers, AfterFlush, Unset,
       NoTask, NoSaves, NoSnaps, Idle, NoneDrawn, Rows, NoName, NoSession
  <1>16. ASSUME NEW h \in Handlers, KillUnname(h) PROVE TypeOK'
    BY <1>16, TypeOK, NamedInv, RegistryAssumption DEF KillUnname, TypeOK,
       NamedInv, Named, HStep, EvStep, IoStep, Draw, Send, Free, Summaries,
       Publishers, HPcs, EvPcs, IoPcs, SavePcs, Savers, AfterFlush, Unset,
       NoTask, NoSaves, NoSnaps, Idle, NoneDrawn, Rows, NoName, NoSession
  <1>17. ASSUME NEW h \in Handlers, KillErase(h) PROVE TypeOK'
    <2>1. /\ hPc' \in [Handlers -> HPcs]
          /\ disk' \in [Sessions -> {"none", "partial", "final"}]
          /\ hOk' \in [Handlers -> BOOLEAN]
      BY <1>17, TypeOK DEF KillErase, HStep, TypeOK, HPcs
    <2> QED
      BY <1>17, <2>1, TypeOK DEF KillErase, TypeOK
  <1>18. ASSUME NEW h \in Handlers, KillDone(h) PROVE TypeOK'
    BY <1>18, TypeOK, NamedInv, RegistryAssumption DEF KillDone, TypeOK,
       NamedInv, Named, HStep, EvStep, IoStep, Draw, Send, Free, Summaries,
       Publishers, HPcs, EvPcs, IoPcs, SavePcs, Savers, AfterFlush, Unset,
       NoTask, NoSaves, NoSnaps, Idle, NoneDrawn, Rows, NoName, NoSession
  <1>19. ASSUME NEW s \in Sessions, Output(s) PROVE TypeOK'
    BY <1>19, TypeOK, NamedInv, RegistryAssumption DEF Output, TypeOK,
       NamedInv, Named, HStep, EvStep, IoStep, Draw, Send, Free, Summaries,
       Publishers, HPcs, EvPcs, IoPcs, SavePcs, Savers, AfterFlush, Unset,
       NoTask, NoSaves, NoSnaps, Idle, NoneDrawn, Rows, NoName, NoSession
  <1>20. ASSUME NEW s \in Sessions, MarkExited(s) PROVE TypeOK'
    BY <1>20, TypeOK, NamedInv, RegistryAssumption DEF MarkExited, TypeOK,
       NamedInv, Named, HStep, EvStep, IoStep, Draw, Send, Free, Summaries,
       Publishers, HPcs, EvPcs, IoPcs, SavePcs, Savers, AfterFlush, Unset,
       NoTask, NoSaves, NoSnaps, Idle, NoneDrawn, Rows, NoName, NoSession
  <1>21. ASSUME NEW s \in Sessions, FinalCheck(s) PROVE TypeOK'
    BY <1>21, TypeOK, NamedInv, RegistryAssumption DEF FinalCheck, TypeOK,
       NamedInv, Named, HStep, EvStep, IoStep, Draw, Send, Free, Summaries,
       Publishers, HPcs, EvPcs, IoPcs, SavePcs, Savers, AfterFlush, Unset,
       NoTask, NoSaves, NoSnaps, Idle, NoneDrawn, Rows, NoName, NoSession
  <1>22. ASSUME NEW s \in Sessions, FinalSave(s) PROVE TypeOK'
    BY <1>22, TypeOK, NamedInv, RegistryAssumption DEF FinalSave, TypeOK,
       NamedInv, Named, HStep, EvStep, IoStep, Draw, Send, Free, Summaries,
       Publishers, HPcs, EvPcs, IoPcs, SavePcs, Savers, AfterFlush, Unset,
       NoTask, NoSaves, NoSnaps, Idle, NoneDrawn, Rows, NoName, NoSession
  <1>23. ASSUME NEW s \in Sessions, Notify(s) PROVE TypeOK'
    BY <1>23, TypeOK, NamedInv, RegistryAssumption DEF Notify, TypeOK,
       NamedInv, Named, HStep, EvStep, IoStep, Draw, Send, Free, Summaries,
       Publishers, HPcs, EvPcs, IoPcs, SavePcs, Savers, AfterFlush, Unset,
       NoTask, NoSaves, NoSnaps, Idle, NoneDrawn, Rows, NoName, NoSession
  <1>24. ASSUME NEW s \in Sessions, NEW t \in Savers, FlushCapture(s, t)
         PROVE  TypeOK'
    <2>1. AfterFlush(s, t) \in SavePcs
      BY DEF AfterFlush, SavePcs
    <2>2. savePc' \in [Sessions -> [Savers -> SavePcs]]
      BY <1>24, <2>1, TypeOK DEF FlushCapture, TypeOK, SavePcs
    <2>3. snap' \in [Sessions -> [Savers -> {"partial", "final"}]]
      BY <1>24, TypeOK DEF FlushCapture, TypeOK
    <2>4. dirty' \in [Sessions -> BOOLEAN]
      BY <1>24, TypeOK DEF FlushCapture, TypeOK
    <2> QED
      BY <1>24, <2>2, <2>3, <2>4, TypeOK DEF FlushCapture, TypeOK
  <1>25. ASSUME NEW s \in Sessions, NEW t \in Savers, FlushSave(s, t)
         PROVE  TypeOK'
    <2>1. AfterFlush(s, t) \in SavePcs
      BY DEF AfterFlush, SavePcs
    <2>2. savePc' \in [Sessions -> [Savers -> SavePcs]]
      BY <1>25, <2>1, TypeOK DEF FlushSave, TypeOK, SavePcs
    <2>3. snap' \in [Sessions -> [Savers -> {"partial", "final"}]]
      BY <1>25, TypeOK DEF FlushSave, TypeOK
    <2>4. dirty' \in [Sessions -> BOOLEAN]
      BY <1>25, TypeOK DEF FlushSave, TypeOK
    <2>0. snap[s][t] \in {"none", "partial", "final"}
      BY TypeOK DEF TypeOK
    <2>5. disk' \in [Sessions -> {"none", "partial", "final"}]
      BY <1>25, <2>0, TypeOK DEF FlushSave, TypeOK
    <2>6. failedSave' \subseteq Sessions
      BY <1>25, TypeOK DEF FlushSave, TypeOK
    <2> QED
      BY <1>25, <2>2, <2>3, <2>4, <2>5, <2>6, TypeOK DEF FlushSave, TypeOK
  <1>26. ASSUME NEW s \in Sessions, EvictNotice(s) PROVE TypeOK'
    BY <1>26, TypeOK, NamedInv, RegistryAssumption DEF EvictNotice, TypeOK,
       NamedInv, Named, HStep, EvStep, IoStep, Draw, Send, Free, Summaries,
       Publishers, HPcs, EvPcs, IoPcs, SavePcs, Savers, AfterFlush, Unset,
       NoTask, NoSaves, NoSnaps, Idle, NoneDrawn, Rows, NoName, NoSession
  <1>27. ASSUME NEW s \in Sessions, EvictGet(s) PROVE TypeOK'
    BY <1>27, TypeOK, NamedInv, RegistryAssumption DEF EvictGet, TypeOK,
       NamedInv, Named, HStep, EvStep, IoStep, Draw, Send, Free, Summaries,
       Publishers, HPcs, EvPcs, IoPcs, SavePcs, Savers, AfterFlush, Unset,
       NoTask, NoSaves, NoSnaps, Idle, NoneDrawn, Rows, NoName, NoSession
  <1>28. ASSUME NEW s \in Sessions, EvictCheck(s) PROVE TypeOK'
    BY <1>28, TypeOK, NamedInv, RegistryAssumption DEF EvictCheck, TypeOK,
       NamedInv, Named, HStep, EvStep, IoStep, Draw, Send, Free, Summaries,
       Publishers, HPcs, EvPcs, IoPcs, SavePcs, Savers, AfterFlush, Unset,
       NoTask, NoSaves, NoSnaps, Idle, NoneDrawn, Rows, NoName, NoSession
  <1>29. ASSUME NEW s \in Sessions, EvictName(s) PROVE TypeOK'
    BY <1>29, TypeOK, NamedInv, RegistryAssumption DEF EvictName, TypeOK,
       NamedInv, Named, HStep, EvStep, IoStep, Draw, Send, Free, Summaries,
       Publishers, HPcs, EvPcs, IoPcs, SavePcs, Savers, AfterFlush, Unset,
       NoTask, NoSaves, NoSnaps, Idle, NoneDrawn, Rows, NoName, NoSession
  <1>30. ASSUME NEW s \in Sessions, EvictInsert(s) PROVE TypeOK'
    BY <1>30, TypeOK, NamedInv, RegistryAssumption DEF EvictInsert, TypeOK,
       NamedInv, Named, HStep, EvStep, IoStep, Draw, Send, Free, Summaries,
       Publishers, HPcs, EvPcs, IoPcs, SavePcs, Savers, AfterFlush, Unset,
       NoTask, NoSaves, NoSnaps, Idle, NoneDrawn, Rows, NoName, NoSession
  <1>31. ASSUME NEW s \in Sessions, NEW o \in Sessions, EvictPick(s, o)
         PROVE  TypeOK'
    BY <1>31, TypeOK, NamedInv, RegistryAssumption DEF EvictPick, TypeOK,
       NamedInv, Named, HStep, EvStep, IoStep, Draw, Send, Free, Summaries,
       Publishers, HPcs, EvPcs, IoPcs, SavePcs, Savers, AfterFlush, Unset,
       NoTask, NoSaves, NoSnaps, Idle, NoneDrawn, Rows, NoName, NoSession
  <1>32. ASSUME NEW s \in Sessions, EvictDrop(s) PROVE TypeOK'
    BY <1>32, TypeOK, NamedInv, RegistryAssumption DEF EvictDrop, TypeOK,
       NamedInv, Named, HStep, EvStep, IoStep, Draw, Send, Free, Summaries,
       Publishers, HPcs, EvPcs, IoPcs, SavePcs, Savers, AfterFlush, Unset,
       NoTask, NoSaves, NoSnaps, Idle, NoneDrawn, Rows, NoName, NoSession
  <1>33. ASSUME NEW s \in Sessions, EvictUnname(s) PROVE TypeOK'
    BY <1>33, TypeOK, NamedInv, RegistryAssumption DEF EvictUnname, TypeOK,
       NamedInv, Named, HStep, EvStep, IoStep, Draw, Send, Free, Summaries,
       Publishers, HPcs, EvPcs, IoPcs, SavePcs, Savers, AfterFlush, Unset,
       NoTask, NoSaves, NoSnaps, Idle, NoneDrawn, Rows, NoName, NoSession
  <1>34. ASSUME NEW s \in Sessions, EvictErase(s) PROVE TypeOK'
    BY <1>34, TypeOK, NamedInv, RegistryAssumption DEF EvictErase, TypeOK,
       NamedInv, Named, HStep, EvStep, IoStep, Draw, Send, Free, Summaries,
       Publishers, HPcs, EvPcs, IoPcs, SavePcs, Savers, AfterFlush, Unset,
       NoTask, NoSaves, NoSnaps, Idle, NoneDrawn, Rows, NoName, NoSession
  <1>35. ASSUME NEW s \in Sessions, EvictCapped(s) PROVE TypeOK'
    BY <1>35, TypeOK, NamedInv, RegistryAssumption DEF EvictCapped, TypeOK,
       NamedInv, Named, HStep, EvStep, IoStep, Draw, Send, Free, Summaries,
       Publishers, HPcs, EvPcs, IoPcs, SavePcs, Savers, AfterFlush, Unset,
       NoTask, NoSaves, NoSnaps, Idle, NoneDrawn, Rows, NoName, NoSession
  <1>36. ASSUME NEW s \in Sessions, EvictRemove(s) PROVE TypeOK'
    BY <1>36, TypeOK, NamedInv, RegistryAssumption DEF EvictRemove, TypeOK,
       NamedInv, Named, HStep, EvStep, IoStep, Draw, Send, Free, Summaries,
       Publishers, HPcs, EvPcs, IoPcs, SavePcs, Savers, AfterFlush, Unset,
       NoTask, NoSaves, NoSnaps, Idle, NoneDrawn, Rows, NoName, NoSession
  <1>37. ASSUME NEW s \in Sessions, EvictFree(s) PROVE TypeOK'
    BY <1>37, TypeOK, NamedInv, RegistryAssumption DEF EvictFree, TypeOK,
       NamedInv, Named, HStep, EvStep, IoStep, Draw, Send, Free, Summaries,
       Publishers, HPcs, EvPcs, IoPcs, SavePcs, Savers, AfterFlush, Unset,
       NoTask, NoSaves, NoSnaps, Idle, NoneDrawn, Rows, NoName, NoSession
  <1>38. ASSUME NEW s \in Sessions, EvictDraw(s) PROVE TypeOK'
    BY <1>38, TypeOK, NamedInv, RegistryAssumption DEF EvictDraw, TypeOK,
       NamedInv, Named, HStep, EvStep, IoStep, Draw, Send, Free, Summaries,
       Publishers, HPcs, EvPcs, IoPcs, SavePcs, Savers, AfterFlush, Unset,
       NoTask, NoSaves, NoSnaps, Idle, NoneDrawn, Rows, NoName, NoSession
  <1>39. ASSUME NEW s \in Sessions, EvictDone(s) PROVE TypeOK'
    BY <1>39, TypeOK, NamedInv, RegistryAssumption DEF EvictDone, TypeOK,
       NamedInv, Named, HStep, EvStep, IoStep, Draw, Send, Free, Summaries,
       Publishers, HPcs, EvPcs, IoPcs, SavePcs, Savers, AfterFlush, Unset,
       NoTask, NoSaves, NoSnaps, Idle, NoneDrawn, Rows, NoName, NoSession
  <1>40. ASSUME Shutdown PROVE TypeOK'
    BY <1>40, TypeOK, NamedInv, RegistryAssumption DEF Shutdown, TypeOK,
       NamedInv, Named, HStep, EvStep, IoStep, Draw, Send, Free, Summaries,
       Publishers, HPcs, EvPcs, IoPcs, SavePcs, Savers, AfterFlush, Unset,
       NoTask, NoSaves, NoSnaps, Idle, NoneDrawn, Rows, NoName, NoSession
  <1>41. ASSUME Stop PROVE TypeOK'
    <2>1. /\ savePc' \in [Sessions -> [Savers -> SavePcs]]
          /\ snap' \in [Sessions -> [Savers -> {"partial", "final"}]]
      BY <1>41 DEF Stop, NoSaves, NoSnaps, SavePcs
    <2>2. /\ ioPc' \in [Sessions -> IoPcs] /\ evPc' \in [Sessions -> EvPcs]
          /\ hPc' \in [Handlers -> HPcs]
          /\ victim' \in [Sessions -> Sessions \cup {NoSession}]
          /\ hSess' \in [Handlers -> Sessions \cup {NoSession}]
          /\ hName' \in [Handlers -> Names \cup {NoName}]
          /\ hOk' \in [Handlers -> BOOLEAN]
          /\ drawn' \in [Publishers -> SUBSET Sessions]
      BY <1>41 DEF Stop, NoTask, Idle, NoneDrawn, IoPcs, EvPcs, HPcs
    <2>3. /\ exited' \in [Sessions -> BOOLEAN]
          /\ killed' \in [Sessions -> BOOLEAN]
          /\ notice' \in [Sessions -> BOOLEAN]
          /\ dirty' \in [Sessions -> BOOLEAN]
          /\ watched' \in [Sessions -> BOOLEAN]
      BY <1>41 DEF Stop, Unset
    <2>4. crashes' \in 0..MaxCrashes
      BY <1>41, TypeOK, RegistryAssumption DEF Stop, TypeOK
    <2> QED
      BY <1>41, <2>1, <2>2, <2>3, <2>4, TypeOK DEF Stop, TypeOK
  <1>42. ASSUME Start PROVE TypeOK'
    BY <1>42, TypeOK, NamedInv, RegistryAssumption DEF Start, TypeOK,
       NamedInv, Named, HStep, EvStep, IoStep, Draw, Send, Free, Summaries,
       Publishers, HPcs, EvPcs, IoPcs, SavePcs, Savers, AfterFlush, Unset,
       NoTask, NoSaves, NoSnaps, Idle, NoneDrawn, Rows, NoName, NoSession
  <1>43. ASSUME UNCHANGED <<vars>> PROVE TypeOK'
    BY <1>43 DEF TypeOK, NamedInv, Named, HStep, EvStep, IoStep, Draw, Send,
       Free, Summaries, Publishers, HPcs, EvPcs, IoPcs, SavePcs, Savers,
       AfterFlush, Unset, NoTask, NoSaves, NoSnaps, Idle, NoneDrawn, Rows,
       NoName, NoSession
  <1> QED
    BY <1>1, <1>2, <1>3, <1>4, <1>5, <1>6, <1>7, <1>8, <1>9, <1>10, <1>11,
       <1>12, <1>13, <1>14, <1>15, <1>16, <1>17, <1>18, <1>19, <1>20, <1>21,
       <1>22, <1>23, <1>24, <1>25, <1>26, <1>27, <1>28, <1>29, <1>30, <1>31,
       <1>32, <1>33, <1>34, <1>35, <1>36, <1>37, <1>38, <1>39, <1>40, <1>41,
       <1>42, <1>43 DEF Next, Handler, Request, Io, Saver, Forwarder

-----------------------------------------------------------------------------
(***************************************************************************)
(* Names are given once and never taken back.                              *)
(***************************************************************************)
LEMMA NamedStep ==
  ASSUME TypeOK, NamedInv, [Next]_vars
  PROVE  NamedInv'
  <1> USE DEF vars, appVars, nameVars, listVars, objectVars, ioVars, saveVars,
              evictVars, handlerVars, boundVars
  <1>1. ASSUME NEW h \in Handlers, NEW s \in Sessions, NEW n \in Names,
               CreateReserve(h, s, n)
        PROVE  NamedInv'
    BY <1>1, TypeOK, NamedInv, RegistryAssumption DEF CreateReserve, TypeOK,
       NamedInv, Named, HStep, EvStep, IoStep, Draw, Send, Free, Savers,
       AfterFlush, NoTask, NoSaves, Idle, Rows
  <1>2. ASSUME NEW h \in Handlers, CreateSpawn(h) PROVE NamedInv'
    BY <1>2, TypeOK, NamedInv, RegistryAssumption DEF CreateSpawn, TypeOK,
       NamedInv, Named, HStep, EvStep, IoStep, Draw, Send, Free, Savers,
       AfterFlush, NoTask, NoSaves, Idle, Rows
  <1>3. ASSUME NEW h \in Handlers, CreateFails(h) PROVE NamedInv'
    BY <1>3, TypeOK, NamedInv, RegistryAssumption DEF CreateFails, TypeOK,
       NamedInv, Named, HStep, EvStep, IoStep, Draw, Send, Free, Savers,
       AfterFlush, NoTask, NoSaves, Idle, Rows
  <1>4. ASSUME NEW h \in Handlers, CreateInsert(h) PROVE NamedInv'
    BY <1>4, TypeOK, NamedInv, RegistryAssumption DEF CreateInsert, TypeOK,
       NamedInv, Named, HStep, EvStep, IoStep, Draw, Send, Free, Savers,
       AfterFlush, NoTask, NoSaves, Idle, Rows
  <1>5. ASSUME NEW h \in Handlers, CreateWatch(h) PROVE NamedInv'
    BY <1>5, TypeOK, NamedInv, RegistryAssumption DEF CreateWatch, TypeOK,
       NamedInv, Named, HStep, EvStep, IoStep, Draw, Send, Free, Savers,
       AfterFlush, NoTask, NoSaves, Idle, Rows
  <1>6. ASSUME NEW h \in Handlers, CreateLook(h) PROVE NamedInv'
    BY <1>6, TypeOK, NamedInv, RegistryAssumption DEF CreateLook, TypeOK,
       NamedInv, Named, HStep, EvStep, IoStep, Draw, Send, Free, Savers,
       AfterFlush, NoTask, NoSaves, Idle, Rows
  <1>7. ASSUME NEW h \in Handlers, HandlerDraws(h) PROVE NamedInv'
    BY <1>7, TypeOK, NamedInv, RegistryAssumption DEF HandlerDraws, TypeOK,
       NamedInv, Named, HStep, EvStep, IoStep, Draw, Send, Free, Savers,
       AfterFlush, NoTask, NoSaves, Idle, Rows
  <1>8. ASSUME NEW h \in Handlers, CreateDone(h) PROVE NamedInv'
    BY <1>8, TypeOK, NamedInv, RegistryAssumption DEF CreateDone, TypeOK,
       NamedInv, Named, HStep, EvStep, IoStep, Draw, Send, Free, Savers,
       AfterFlush, NoTask, NoSaves, Idle, Rows
  <1>9. ASSUME NEW h \in Handlers, NEW s \in Sessions, KillRequest(h, s)
        PROVE  NamedInv'
    BY <1>9, TypeOK, NamedInv, RegistryAssumption DEF KillRequest, TypeOK,
       NamedInv, Named, HStep, EvStep, IoStep, Draw, Send, Free, Savers,
       AfterFlush, NoTask, NoSaves, Idle, Rows
  <1>10. ASSUME NEW h \in Handlers, KillGetLive(h) PROVE NamedInv'
    BY <1>10, TypeOK, NamedInv, RegistryAssumption DEF KillGetLive, TypeOK,
       NamedInv, Named, HStep, EvStep, IoStep, Draw, Send, Free, Savers,
       AfterFlush, NoTask, NoSaves, Idle, Rows
  <1>11. ASSUME NEW h \in Handlers, KillGetNone(h) PROVE NamedInv'
    BY <1>11, TypeOK, NamedInv, RegistryAssumption DEF KillGetNone, TypeOK,
       NamedInv, Named, HStep, EvStep, IoStep, Draw, Send, Free, Savers,
       AfterFlush, NoTask, NoSaves, Idle, Rows
  <1>12. ASSUME NEW h \in Handlers, KillMark(h) PROVE NamedInv'
    BY <1>12, TypeOK, NamedInv, RegistryAssumption DEF KillMark, TypeOK,
       NamedInv, Named, HStep, EvStep, IoStep, Draw, Send, Free, Savers,
       AfterFlush, NoTask, NoSaves, Idle, Rows
  <1>13. ASSUME NEW h \in Handlers, KillMarkFails(h) PROVE NamedInv'
    BY <1>13, TypeOK, NamedInv, RegistryAssumption DEF KillMarkFails, TypeOK,
       NamedInv, Named, HStep, EvStep, IoStep, Draw, Send, Free, Savers,
       AfterFlush, NoTask, NoSaves, Idle, Rows
  <1>14. ASSUME NEW h \in Handlers, KillRemove(h) PROVE NamedInv'
    BY <1>14, TypeOK, NamedInv, RegistryAssumption DEF KillRemove, TypeOK,
       NamedInv, Named, HStep, EvStep, IoStep, Draw, Send, Free, Savers,
       AfterFlush, NoTask, NoSaves, Idle, Rows
  <1>15. ASSUME NEW h \in Handlers, KillUnrestore(h) PROVE NamedInv'
    BY <1>15, TypeOK, NamedInv, RegistryAssumption DEF KillUnrestore, TypeOK,
       NamedInv, Named, HStep, EvStep, IoStep, Draw, Send, Free, Savers,
       AfterFlush, NoTask, NoSaves, Idle, Rows
  <1>16. ASSUME NEW h \in Handlers, KillUnname(h) PROVE NamedInv'
    BY <1>16, TypeOK, NamedInv, RegistryAssumption DEF KillUnname, TypeOK,
       NamedInv, Named, HStep, EvStep, IoStep, Draw, Send, Free, Savers,
       AfterFlush, NoTask, NoSaves, Idle, Rows
  <1>17. ASSUME NEW h \in Handlers, KillErase(h) PROVE NamedInv'
    BY <1>17, TypeOK, NamedInv, RegistryAssumption DEF KillErase, TypeOK,
       NamedInv, Named, HStep, EvStep, IoStep, Draw, Send, Free, Savers,
       AfterFlush, NoTask, NoSaves, Idle, Rows
  <1>18. ASSUME NEW h \in Handlers, KillDone(h) PROVE NamedInv'
    BY <1>18, TypeOK, NamedInv, RegistryAssumption DEF KillDone, TypeOK,
       NamedInv, Named, HStep, EvStep, IoStep, Draw, Send, Free, Savers,
       AfterFlush, NoTask, NoSaves, Idle, Rows
  <1>19. ASSUME NEW s \in Sessions, Output(s) PROVE NamedInv'
    BY <1>19, TypeOK, NamedInv, RegistryAssumption DEF Output, TypeOK,
       NamedInv, Named, HStep, EvStep, IoStep, Draw, Send, Free, Savers,
       AfterFlush, NoTask, NoSaves, Idle, Rows
  <1>20. ASSUME NEW s \in Sessions, MarkExited(s) PROVE NamedInv'
    BY <1>20, TypeOK, NamedInv, RegistryAssumption DEF MarkExited, TypeOK,
       NamedInv, Named, HStep, EvStep, IoStep, Draw, Send, Free, Savers,
       AfterFlush, NoTask, NoSaves, Idle, Rows
  <1>21. ASSUME NEW s \in Sessions, FinalCheck(s) PROVE NamedInv'
    BY <1>21, TypeOK, NamedInv, RegistryAssumption DEF FinalCheck, TypeOK,
       NamedInv, Named, HStep, EvStep, IoStep, Draw, Send, Free, Savers,
       AfterFlush, NoTask, NoSaves, Idle, Rows
  <1>22. ASSUME NEW s \in Sessions, FinalSave(s) PROVE NamedInv'
    BY <1>22, TypeOK, NamedInv, RegistryAssumption DEF FinalSave, TypeOK,
       NamedInv, Named, HStep, EvStep, IoStep, Draw, Send, Free, Savers,
       AfterFlush, NoTask, NoSaves, Idle, Rows
  <1>23. ASSUME NEW s \in Sessions, Notify(s) PROVE NamedInv'
    BY <1>23, TypeOK, NamedInv, RegistryAssumption DEF Notify, TypeOK,
       NamedInv, Named, HStep, EvStep, IoStep, Draw, Send, Free, Savers,
       AfterFlush, NoTask, NoSaves, Idle, Rows
  <1>24. ASSUME NEW s \in Sessions, NEW t \in Savers, FlushCapture(s, t)
         PROVE  NamedInv'
    BY <1>24, TypeOK, NamedInv, RegistryAssumption DEF FlushCapture, TypeOK,
       NamedInv, Named, HStep, EvStep, IoStep, Draw, Send, Free, Savers,
       AfterFlush, NoTask, NoSaves, Idle, Rows
  <1>25. ASSUME NEW s \in Sessions, NEW t \in Savers, FlushSave(s, t)
         PROVE  NamedInv'
    BY <1>25, TypeOK, NamedInv, RegistryAssumption DEF FlushSave, TypeOK,
       NamedInv, Named, HStep, EvStep, IoStep, Draw, Send, Free, Savers,
       AfterFlush, NoTask, NoSaves, Idle, Rows
  <1>26. ASSUME NEW s \in Sessions, EvictNotice(s) PROVE NamedInv'
    BY <1>26, TypeOK, NamedInv, RegistryAssumption DEF EvictNotice, TypeOK,
       NamedInv, Named, HStep, EvStep, IoStep, Draw, Send, Free, Savers,
       AfterFlush, NoTask, NoSaves, Idle, Rows
  <1>27. ASSUME NEW s \in Sessions, EvictGet(s) PROVE NamedInv'
    BY <1>27, TypeOK, NamedInv, RegistryAssumption DEF EvictGet, TypeOK,
       NamedInv, Named, HStep, EvStep, IoStep, Draw, Send, Free, Savers,
       AfterFlush, NoTask, NoSaves, Idle, Rows
  <1>28. ASSUME NEW s \in Sessions, EvictCheck(s) PROVE NamedInv'
    BY <1>28, TypeOK, NamedInv, RegistryAssumption DEF EvictCheck, TypeOK,
       NamedInv, Named, HStep, EvStep, IoStep, Draw, Send, Free, Savers,
       AfterFlush, NoTask, NoSaves, Idle, Rows
  <1>29. ASSUME NEW s \in Sessions, EvictName(s) PROVE NamedInv'
    BY <1>29, TypeOK, NamedInv, RegistryAssumption DEF EvictName, TypeOK,
       NamedInv, Named, HStep, EvStep, IoStep, Draw, Send, Free, Savers,
       AfterFlush, NoTask, NoSaves, Idle, Rows
  <1>30. ASSUME NEW s \in Sessions, EvictInsert(s) PROVE NamedInv'
    BY <1>30, TypeOK, NamedInv, RegistryAssumption DEF EvictInsert, TypeOK,
       NamedInv, Named, HStep, EvStep, IoStep, Draw, Send, Free, Savers,
       AfterFlush, NoTask, NoSaves, Idle, Rows
  <1>31. ASSUME NEW s \in Sessions, NEW o \in Sessions, EvictPick(s, o)
         PROVE  NamedInv'
    BY <1>31, TypeOK, NamedInv, RegistryAssumption DEF EvictPick, TypeOK,
       NamedInv, Named, HStep, EvStep, IoStep, Draw, Send, Free, Savers,
       AfterFlush, NoTask, NoSaves, Idle, Rows
  <1>32. ASSUME NEW s \in Sessions, EvictDrop(s) PROVE NamedInv'
    BY <1>32, TypeOK, NamedInv, RegistryAssumption DEF EvictDrop, TypeOK,
       NamedInv, Named, HStep, EvStep, IoStep, Draw, Send, Free, Savers,
       AfterFlush, NoTask, NoSaves, Idle, Rows
  <1>33. ASSUME NEW s \in Sessions, EvictUnname(s) PROVE NamedInv'
    BY <1>33, TypeOK, NamedInv, RegistryAssumption DEF EvictUnname, TypeOK,
       NamedInv, Named, HStep, EvStep, IoStep, Draw, Send, Free, Savers,
       AfterFlush, NoTask, NoSaves, Idle, Rows
  <1>34. ASSUME NEW s \in Sessions, EvictErase(s) PROVE NamedInv'
    BY <1>34, TypeOK, NamedInv, RegistryAssumption DEF EvictErase, TypeOK,
       NamedInv, Named, HStep, EvStep, IoStep, Draw, Send, Free, Savers,
       AfterFlush, NoTask, NoSaves, Idle, Rows
  <1>35. ASSUME NEW s \in Sessions, EvictCapped(s) PROVE NamedInv'
    BY <1>35, TypeOK, NamedInv, RegistryAssumption DEF EvictCapped, TypeOK,
       NamedInv, Named, HStep, EvStep, IoStep, Draw, Send, Free, Savers,
       AfterFlush, NoTask, NoSaves, Idle, Rows
  <1>36. ASSUME NEW s \in Sessions, EvictRemove(s) PROVE NamedInv'
    BY <1>36, TypeOK, NamedInv, RegistryAssumption DEF EvictRemove, TypeOK,
       NamedInv, Named, HStep, EvStep, IoStep, Draw, Send, Free, Savers,
       AfterFlush, NoTask, NoSaves, Idle, Rows
  <1>37. ASSUME NEW s \in Sessions, EvictFree(s) PROVE NamedInv'
    BY <1>37, TypeOK, NamedInv, RegistryAssumption DEF EvictFree, TypeOK,
       NamedInv, Named, HStep, EvStep, IoStep, Draw, Send, Free, Savers,
       AfterFlush, NoTask, NoSaves, Idle, Rows
  <1>38. ASSUME NEW s \in Sessions, EvictDraw(s) PROVE NamedInv'
    BY <1>38, TypeOK, NamedInv, RegistryAssumption DEF EvictDraw, TypeOK,
       NamedInv, Named, HStep, EvStep, IoStep, Draw, Send, Free, Savers,
       AfterFlush, NoTask, NoSaves, Idle, Rows
  <1>39. ASSUME NEW s \in Sessions, EvictDone(s) PROVE NamedInv'
    BY <1>39, TypeOK, NamedInv, RegistryAssumption DEF EvictDone, TypeOK,
       NamedInv, Named, HStep, EvStep, IoStep, Draw, Send, Free, Savers,
       AfterFlush, NoTask, NoSaves, Idle, Rows
  <1>40. ASSUME Shutdown PROVE NamedInv'
    BY <1>40, TypeOK, NamedInv, RegistryAssumption DEF Shutdown, TypeOK,
       NamedInv, Named, HStep, EvStep, IoStep, Draw, Send, Free, Savers,
       AfterFlush, NoTask, NoSaves, Idle, Rows
  <1>41. ASSUME Stop PROVE NamedInv'
    BY <1>41, TypeOK, NamedInv, RegistryAssumption DEF Stop, TypeOK, NamedInv,
       Named, HStep, EvStep, IoStep, Draw, Send, Free, Savers, AfterFlush,
       NoTask, NoSaves, Idle, Rows
  <1>42. ASSUME Start PROVE NamedInv'
    BY <1>42, TypeOK, NamedInv, RegistryAssumption DEF Start, TypeOK,
       NamedInv, Named, HStep, EvStep, IoStep, Draw, Send, Free, Savers,
       AfterFlush, NoTask, NoSaves, Idle, Rows
  <1>43. ASSUME UNCHANGED <<vars>> PROVE NamedInv'
    BY <1>43 DEF TypeOK, NamedInv, Named, HStep, EvStep, IoStep, Draw, Send,
       Free, Savers, AfterFlush, NoTask, NoSaves, Idle, Rows
  <1> QED
    BY <1>1, <1>2, <1>3, <1>4, <1>5, <1>6, <1>7, <1>8, <1>9, <1>10, <1>11,
       <1>12, <1>13, <1>14, <1>15, <1>16, <1>17, <1>18, <1>19, <1>20, <1>21,
       <1>22, <1>23, <1>24, <1>25, <1>26, <1>27, <1>28, <1>29, <1>30, <1>31,
       <1>32, <1>33, <1>34, <1>35, <1>36, <1>37, <1>38, <1>39, <1>40, <1>41,
       <1>42, <1>43 DEF Next, Handler, Request, Io, Saver, Forwarder

-----------------------------------------------------------------------------
(***************************************************************************)
(* Only the creator of a session is at work on it before its forwarder.    *)
(***************************************************************************)
LEMMA CreatorStep ==
  ASSUME TypeOK, NamedInv, CreatorInv, [Next]_vars
  PROVE  CreatorInv'
  <1> USE DEF vars, appVars, nameVars, listVars, objectVars, ioVars, saveVars,
              evictVars, handlerVars, boundVars
  <1>1. ASSUME NEW h \in Handlers, NEW s \in Sessions, NEW n \in Names,
               CreateReserve(h, s, n)
        PROVE  CreatorInv'
    BY <1>1, TypeOK, NamedInv, CreatorInv DEF CreateReserve, TypeOK, NamedInv,
       Named, CreatorInv, Creating, HStep, EvStep, NoTask, Idle
  <1>2. ASSUME NEW h \in Handlers, CreateSpawn(h) PROVE CreatorInv'
    BY <1>2, TypeOK, NamedInv, CreatorInv DEF CreateSpawn, TypeOK, NamedInv,
       Named, CreatorInv, Creating, HStep, EvStep, NoTask, Idle
  <1>3. ASSUME NEW h \in Handlers, CreateFails(h) PROVE CreatorInv'
    BY <1>3, TypeOK, NamedInv, CreatorInv DEF CreateFails, TypeOK, NamedInv,
       Named, CreatorInv, Creating, HStep, EvStep, NoTask, Idle
  <1>4. ASSUME NEW h \in Handlers, CreateInsert(h) PROVE CreatorInv'
    BY <1>4, TypeOK, NamedInv, CreatorInv DEF CreateInsert, TypeOK, NamedInv,
       Named, CreatorInv, Creating, HStep, EvStep, NoTask, Idle
  <1>5. ASSUME NEW h \in Handlers, CreateWatch(h) PROVE CreatorInv'
    BY <1>5, TypeOK, NamedInv, CreatorInv DEF CreateWatch, TypeOK, NamedInv,
       Named, CreatorInv, Creating, HStep, EvStep, NoTask, Idle
  <1>6. ASSUME NEW h \in Handlers, CreateLook(h) PROVE CreatorInv'
    BY <1>6, TypeOK, NamedInv, CreatorInv DEF CreateLook, TypeOK, NamedInv,
       Named, CreatorInv, Creating, HStep, EvStep, NoTask, Idle
  <1>7. ASSUME NEW h \in Handlers, HandlerDraws(h) PROVE CreatorInv'
    BY <1>7, TypeOK, NamedInv, CreatorInv DEF HandlerDraws, TypeOK, NamedInv,
       Named, CreatorInv, Creating, HStep, EvStep, NoTask, Idle
  <1>8. ASSUME NEW h \in Handlers, CreateDone(h) PROVE CreatorInv'
    BY <1>8, TypeOK, NamedInv, CreatorInv DEF CreateDone, TypeOK, NamedInv,
       Named, CreatorInv, Creating, HStep, EvStep, NoTask, Idle
  <1>9. ASSUME NEW h \in Handlers, NEW s \in Sessions, KillRequest(h, s)
        PROVE  CreatorInv'
    BY <1>9, TypeOK, NamedInv, CreatorInv DEF KillRequest, TypeOK, NamedInv,
       Named, CreatorInv, Creating, HStep, EvStep, NoTask, Idle
  <1>10. ASSUME NEW h \in Handlers, KillGetLive(h) PROVE CreatorInv'
    BY <1>10, TypeOK, NamedInv, CreatorInv DEF KillGetLive, TypeOK, NamedInv,
       Named, CreatorInv, Creating, HStep, EvStep, NoTask, Idle
  <1>11. ASSUME NEW h \in Handlers, KillGetNone(h) PROVE CreatorInv'
    BY <1>11, TypeOK, NamedInv, CreatorInv DEF KillGetNone, TypeOK, NamedInv,
       Named, CreatorInv, Creating, HStep, EvStep, NoTask, Idle
  <1>12. ASSUME NEW h \in Handlers, KillMark(h) PROVE CreatorInv'
    BY <1>12, TypeOK, NamedInv, CreatorInv DEF KillMark, TypeOK, NamedInv,
       Named, CreatorInv, Creating, HStep, EvStep, NoTask, Idle
  <1>13. ASSUME NEW h \in Handlers, KillMarkFails(h) PROVE CreatorInv'
    BY <1>13, TypeOK, NamedInv, CreatorInv DEF KillMarkFails, TypeOK,
       NamedInv, Named, CreatorInv, Creating, HStep, EvStep, NoTask, Idle
  <1>14. ASSUME NEW h \in Handlers, KillRemove(h) PROVE CreatorInv'
    BY <1>14, TypeOK, NamedInv, CreatorInv DEF KillRemove, TypeOK, NamedInv,
       Named, CreatorInv, Creating, HStep, EvStep, NoTask, Idle
  <1>15. ASSUME NEW h \in Handlers, KillUnrestore(h) PROVE CreatorInv'
    BY <1>15, TypeOK, NamedInv, CreatorInv DEF KillUnrestore, TypeOK,
       NamedInv, Named, CreatorInv, Creating, HStep, EvStep, NoTask, Idle
  <1>16. ASSUME NEW h \in Handlers, KillUnname(h) PROVE CreatorInv'
    BY <1>16, TypeOK, NamedInv, CreatorInv DEF KillUnname, TypeOK, NamedInv,
       Named, CreatorInv, Creating, HStep, EvStep, NoTask, Idle
  <1>17. ASSUME NEW h \in Handlers, KillErase(h) PROVE CreatorInv'
    BY <1>17, TypeOK, NamedInv, CreatorInv DEF KillErase, TypeOK, NamedInv,
       Named, CreatorInv, Creating, HStep, EvStep, NoTask, Idle
  <1>18. ASSUME NEW h \in Handlers, KillDone(h) PROVE CreatorInv'
    BY <1>18, TypeOK, NamedInv, CreatorInv DEF KillDone, TypeOK, NamedInv,
       Named, CreatorInv, Creating, HStep, EvStep, NoTask, Idle
  <1>19. ASSUME NEW s \in Sessions, EvictNotice(s) PROVE CreatorInv'
    BY <1>19, TypeOK, NamedInv, CreatorInv DEF EvictNotice, TypeOK, NamedInv,
       Named, CreatorInv, Creating, HStep, EvStep, NoTask, Idle
  <1>20. ASSUME NEW s \in Sessions, EvictGet(s) PROVE CreatorInv'
    BY <1>20, TypeOK, NamedInv, CreatorInv DEF EvictGet, TypeOK, NamedInv,
       Named, CreatorInv, Creating, HStep, EvStep, NoTask, Idle
  <1>21. ASSUME NEW s \in Sessions, EvictCheck(s) PROVE CreatorInv'
    BY <1>21, TypeOK, NamedInv, CreatorInv DEF EvictCheck, TypeOK, NamedInv,
       Named, CreatorInv, Creating, HStep, EvStep, NoTask, Idle
  <1>22. ASSUME NEW s \in Sessions, EvictName(s) PROVE CreatorInv'
    BY <1>22, TypeOK, NamedInv, CreatorInv DEF EvictName, TypeOK, NamedInv,
       Named, CreatorInv, Creating, HStep, EvStep, NoTask, Idle
  <1>23. ASSUME NEW s \in Sessions, EvictInsert(s) PROVE CreatorInv'
    BY <1>23, TypeOK, NamedInv, CreatorInv DEF EvictInsert, TypeOK, NamedInv,
       Named, CreatorInv, Creating, HStep, EvStep, NoTask, Idle
  <1>24. ASSUME NEW s \in Sessions, NEW o \in Sessions, EvictPick(s, o)
         PROVE  CreatorInv'
    BY <1>24, TypeOK, NamedInv, CreatorInv DEF EvictPick, TypeOK, NamedInv,
       Named, CreatorInv, Creating, HStep, EvStep, NoTask, Idle
  <1>25. ASSUME NEW s \in Sessions, EvictDrop(s) PROVE CreatorInv'
    BY <1>25, TypeOK, NamedInv, CreatorInv DEF EvictDrop, TypeOK, NamedInv,
       Named, CreatorInv, Creating, HStep, EvStep, NoTask, Idle
  <1>26. ASSUME NEW s \in Sessions, EvictUnname(s) PROVE CreatorInv'
    BY <1>26, TypeOK, NamedInv, CreatorInv DEF EvictUnname, TypeOK, NamedInv,
       Named, CreatorInv, Creating, HStep, EvStep, NoTask, Idle
  <1>27. ASSUME NEW s \in Sessions, EvictErase(s) PROVE CreatorInv'
    BY <1>27, TypeOK, NamedInv, CreatorInv DEF EvictErase, TypeOK, NamedInv,
       Named, CreatorInv, Creating, HStep, EvStep, NoTask, Idle
  <1>28. ASSUME NEW s \in Sessions, EvictCapped(s) PROVE CreatorInv'
    BY <1>28, TypeOK, NamedInv, CreatorInv DEF EvictCapped, TypeOK, NamedInv,
       Named, CreatorInv, Creating, HStep, EvStep, NoTask, Idle
  <1>29. ASSUME NEW s \in Sessions, EvictRemove(s) PROVE CreatorInv'
    BY <1>29, TypeOK, NamedInv, CreatorInv DEF EvictRemove, TypeOK, NamedInv,
       Named, CreatorInv, Creating, HStep, EvStep, NoTask, Idle
  <1>30. ASSUME NEW s \in Sessions, EvictFree(s) PROVE CreatorInv'
    BY <1>30, TypeOK, NamedInv, CreatorInv DEF EvictFree, TypeOK, NamedInv,
       Named, CreatorInv, Creating, HStep, EvStep, NoTask, Idle
  <1>31. ASSUME NEW s \in Sessions, EvictDraw(s) PROVE CreatorInv'
    BY <1>31, TypeOK, NamedInv, CreatorInv DEF EvictDraw, TypeOK, NamedInv,
       Named, CreatorInv, Creating, HStep, EvStep, NoTask, Idle
  <1>32. ASSUME NEW s \in Sessions, EvictDone(s) PROVE CreatorInv'
    BY <1>32, TypeOK, NamedInv, CreatorInv DEF EvictDone, TypeOK, NamedInv,
       Named, CreatorInv, Creating, HStep, EvStep, NoTask, Idle
  <1>33. ASSUME Stop PROVE CreatorInv'
    BY <1>33, TypeOK, NamedInv, CreatorInv DEF Stop, TypeOK, NamedInv, Named,
       CreatorInv, Creating, HStep, EvStep, NoTask, Idle
  <1>34. ASSUME UNCHANGED <<hPc, hSess, evPc>> PROVE CreatorInv'
    BY <1>34 DEF TypeOK, NamedInv, Named, CreatorInv, Creating, HStep, EvStep,
       NoTask, Idle
  <1>35. ASSUME NEW s \in Sessions,
              Output(s) \/ MarkExited(s) \/ FinalCheck(s) \/ FinalSave(s) \/
              Notify(s)
         PROVE  CreatorInv'
    BY <1>35, <1>34 DEF HStep, EvStep, IoStep, Draw, Send, Output, MarkExited,
       FinalCheck, FinalSave, Notify
  <1>36. ASSUME NEW s \in Sessions, NEW t \in Savers,
              FlushCapture(s, t) \/ FlushSave(s, t)
         PROVE  CreatorInv'
    BY <1>36, <1>34 DEF HStep, EvStep, IoStep, Draw, Send, FlushCapture,
       FlushSave
  <1>37. ASSUME Shutdown \/ Start PROVE CreatorInv'
    BY <1>37, <1>34 DEF HStep, EvStep, IoStep, Draw, Send, Shutdown, Start
  <1> QED
    BY <1>1, <1>2, <1>3, <1>4, <1>5, <1>6, <1>7, <1>8, <1>9, <1>10, <1>11,
       <1>12, <1>13, <1>14, <1>15, <1>16, <1>17, <1>18, <1>19, <1>20, <1>21,
       <1>22, <1>23, <1>24, <1>25, <1>26, <1>27, <1>28, <1>29, <1>30, <1>31,
       <1>32, <1>33, <1>34, <1>35, <1>36, <1>37 DEF Next, Handler, Request,
       Io, Saver, Forwarder

-----------------------------------------------------------------------------
(***************************************************************************)
(* What a kill has read of the session.                                    *)
(***************************************************************************)
LEMMA KillStep ==
  ASSUME TypeOK, NamedInv, KillInv, [Next]_vars
  PROVE  KillInv'
  <1> USE DEF vars, appVars, nameVars, listVars, objectVars, ioVars, saveVars,
              evictVars, handlerVars, boundVars
  <1>1. ASSUME NEW h \in Handlers, NEW s \in Sessions, NEW n \in Names,
               CreateReserve(h, s, n)
        PROVE  KillInv'
    BY <1>1, TypeOK, NamedInv, KillInv DEF CreateReserve, TypeOK, NamedInv,
       Named, KillInv, Killing, HPcs, HStep, Idle
  <1>2. ASSUME NEW h \in Handlers, CreateSpawn(h) PROVE KillInv'
    BY <1>2, TypeOK, NamedInv, KillInv DEF CreateSpawn, TypeOK, NamedInv,
       Named, KillInv, Killing, HPcs, HStep, Idle
  <1>3. ASSUME NEW h \in Handlers, CreateFails(h) PROVE KillInv'
    BY <1>3, TypeOK, NamedInv, KillInv DEF CreateFails, TypeOK, NamedInv,
       Named, KillInv, Killing, HPcs, HStep, Idle
  <1>4. ASSUME NEW h \in Handlers, CreateInsert(h) PROVE KillInv'
    BY <1>4, TypeOK, NamedInv, KillInv DEF CreateInsert, TypeOK, NamedInv,
       Named, KillInv, Killing, HPcs, HStep, Idle
  <1>5. ASSUME NEW h \in Handlers, CreateWatch(h) PROVE KillInv'
    BY <1>5, TypeOK, NamedInv, KillInv DEF CreateWatch, TypeOK, NamedInv,
       Named, KillInv, Killing, HPcs, HStep, Idle
  <1>6. ASSUME NEW h \in Handlers, CreateLook(h) PROVE KillInv'
    BY <1>6, TypeOK, NamedInv, KillInv DEF CreateLook, TypeOK, NamedInv,
       Named, KillInv, Killing, HPcs, HStep, Idle
  <1>7. ASSUME NEW h \in Handlers, HandlerDraws(h) PROVE KillInv'
    BY <1>7, TypeOK, NamedInv, KillInv DEF HandlerDraws, TypeOK, NamedInv,
       Named, KillInv, Killing, HPcs, HStep, Idle
  <1>8. ASSUME NEW h \in Handlers, CreateDone(h) PROVE KillInv'
    BY <1>8, TypeOK, NamedInv, KillInv DEF CreateDone, TypeOK, NamedInv,
       Named, KillInv, Killing, HPcs, HStep, Idle
  <1>9. ASSUME NEW h \in Handlers, NEW s \in Sessions, KillRequest(h, s)
        PROVE  KillInv'
    BY <1>9, TypeOK, NamedInv, KillInv DEF KillRequest, TypeOK, NamedInv,
       Named, KillInv, Killing, HPcs, HStep, Idle
  <1>10. ASSUME NEW h \in Handlers, KillGetLive(h) PROVE KillInv'
    BY <1>10, TypeOK, NamedInv, KillInv DEF KillGetLive, TypeOK, NamedInv,
       Named, KillInv, Killing, HPcs, HStep, Idle
  <1>11. ASSUME NEW h \in Handlers, KillGetNone(h) PROVE KillInv'
    BY <1>11, TypeOK, NamedInv, KillInv DEF KillGetNone, TypeOK, NamedInv,
       Named, KillInv, Killing, HPcs, HStep, Idle
  <1>12. ASSUME NEW h \in Handlers, KillMark(h) PROVE KillInv'
    BY <1>12, TypeOK, NamedInv, KillInv DEF KillMark, TypeOK, NamedInv, Named,
       KillInv, Killing, HPcs, HStep, Idle
  <1>13. ASSUME NEW h \in Handlers, KillMarkFails(h) PROVE KillInv'
    BY <1>13, TypeOK, NamedInv, KillInv DEF KillMarkFails, TypeOK, NamedInv,
       Named, KillInv, Killing, HPcs, HStep, Idle
  <1>14. ASSUME NEW h \in Handlers, KillRemove(h) PROVE KillInv'
    BY <1>14, TypeOK, NamedInv, KillInv DEF KillRemove, TypeOK, NamedInv,
       Named, KillInv, Killing, HPcs, HStep, Idle
  <1>15. ASSUME NEW h \in Handlers, KillUnrestore(h) PROVE KillInv'
    BY <1>15, TypeOK, NamedInv, KillInv DEF KillUnrestore, TypeOK, NamedInv,
       Named, KillInv, Killing, HPcs, HStep, Idle
  <1>16. ASSUME NEW h \in Handlers, KillUnname(h) PROVE KillInv'
    BY <1>16, TypeOK, NamedInv, KillInv DEF KillUnname, TypeOK, NamedInv,
       Named, KillInv, Killing, HPcs, HStep, Idle
  <1>17. ASSUME NEW h \in Handlers, KillErase(h) PROVE KillInv'
    BY <1>17, TypeOK, NamedInv, KillInv DEF KillErase, TypeOK, NamedInv,
       Named, KillInv, Killing, HPcs, HStep, Idle
  <1>18. ASSUME NEW h \in Handlers, KillDone(h) PROVE KillInv'
    BY <1>18, TypeOK, NamedInv, KillInv DEF KillDone, TypeOK, NamedInv, Named,
       KillInv, Killing, HPcs, HStep, Idle
  <1>19. ASSUME NEW s \in Sessions, EvictDrop(s) PROVE KillInv'
    BY <1>19, TypeOK, NamedInv, KillInv DEF EvictDrop, TypeOK, NamedInv,
       Named, KillInv, Killing, HPcs, HStep, Idle
  <1>20. ASSUME Stop PROVE KillInv'
    BY <1>20, TypeOK, NamedInv, KillInv DEF Stop, TypeOK, NamedInv, Named,
       KillInv, Killing, HPcs, HStep, Idle
  <1>21. ASSUME Start PROVE KillInv'
    BY <1>21, TypeOK, NamedInv, KillInv DEF Start, TypeOK, NamedInv, Named,
       KillInv, Killing, HPcs, HStep, Idle
  <1>22. ASSUME UNCHANGED <<hPc, hSess, hName, nameOf, dropped>> PROVE KillInv'
    BY <1>22 DEF TypeOK, NamedInv, Named, KillInv, Killing, HPcs, HStep, Idle
  <1>23. ASSUME NEW s \in Sessions,
              Output(s) \/ MarkExited(s) \/ FinalCheck(s) \/ FinalSave(s) \/
              Notify(s) \/ EvictNotice(s) \/ EvictGet(s) \/ EvictCheck(s) \/
              EvictName(s) \/ EvictInsert(s) \/ EvictUnname(s) \/
              EvictErase(s) \/ EvictCapped(s) \/ EvictRemove(s) \/
              EvictFree(s) \/ EvictDraw(s) \/ EvictDone(s)
         PROVE  KillInv'
    BY <1>23, <1>22 DEF HStep, EvStep, IoStep, Draw, Send, Output, MarkExited,
       FinalCheck, FinalSave, Notify, EvictNotice, EvictGet, EvictCheck,
       EvictName, EvictInsert, EvictUnname, EvictErase, EvictCapped,
       EvictRemove, EvictFree, EvictDraw, EvictDone
  <1>24. ASSUME NEW s \in Sessions, NEW t \in Savers,
              FlushCapture(s, t) \/ FlushSave(s, t)
         PROVE  KillInv'
    BY <1>24, <1>22 DEF HStep, EvStep, IoStep, Draw, Send, FlushCapture,
       FlushSave
  <1>25. ASSUME NEW s \in Sessions, NEW o \in Sessions,
              EvictPick(s, o)
         PROVE  KillInv'
    BY <1>25, <1>22 DEF HStep, EvStep, IoStep, Draw, Send, EvictPick
  <1>26. ASSUME Shutdown PROVE KillInv'
    BY <1>26, <1>22 DEF HStep, EvStep, IoStep, Draw, Send, Shutdown
  <1> QED
    BY <1>1, <1>2, <1>3, <1>4, <1>5, <1>6, <1>7, <1>8, <1>9, <1>10, <1>11,
       <1>12, <1>13, <1>14, <1>15, <1>16, <1>17, <1>18, <1>19, <1>20, <1>21,
       <1>22, <1>23, <1>24, <1>25, <1>26 DEF Next, Handler, Request, Io,
       Saver, Forwarder

-----------------------------------------------------------------------------
(***************************************************************************)
(* A daemon that does not run holds nothing.                               *)
(***************************************************************************)
LEMMA DownStep ==
  ASSUME TypeOK, DownInv, [Next]_vars
  PROVE  DownInv'
  <1> USE DEF vars, appVars, nameVars, listVars, objectVars, ioVars, saveVars,
              evictVars, handlerVars, boundVars
  <1>1. CASE Stop
    BY <1>1 DEF Stop, DownInv, NoTask, Idle
  <1>2. CASE UNCHANGED vars
    BY <1>2 DEF DownInv
  <1>3. ASSUME up' PROVE DownInv'
    BY <1>3 DEF DownInv
  <1>4. ASSUME NEW h \in Handlers, Handler(h) \/ Request(h) PROVE up'
    BY <1>4 DEF Handler, Request, HStep, CreateReserve, CreateSpawn,
       CreateFails, CreateInsert, CreateWatch, CreateLook, HandlerDraws,
       CreateDone, KillRequest, KillGetLive, KillGetNone, KillMark,
       KillMarkFails, KillRemove, KillUnrestore, KillUnname, KillErase,
       KillDone
  <1>5. ASSUME NEW s \in Sessions,
               Output(s) \/ MarkExited(s) \/ Io(s) \/ Saver(s) \/ Forwarder(s)
        PROVE  up'
    BY <1>5 DEF Io, Saver, Forwarder, EvStep, IoStep, Output, MarkExited,
       FinalCheck, FinalSave, Notify, FlushCapture, FlushSave, EvictNotice,
       EvictGet, EvictCheck, EvictName, EvictInsert, EvictPick, EvictDrop,
       EvictUnname, EvictErase, EvictCapped, EvictRemove, EvictFree,
       EvictDraw, EvictDone
  <1>6. ASSUME Shutdown \/ Start PROVE up'
    BY <1>6 DEF Shutdown, Start
  <1> QED
    BY <1>1, <1>2, <1>3, <1>4, <1>5, <1>6 DEF Next

-----------------------------------------------------------------------------
(***************************************************************************)
(* No session is lost: whoever takes one out of a map has put it in the    *)
(* other one, or it was dropped.                                           *)
(***************************************************************************)
LEMMA KeptStep ==
  ASSUME TypeOK, DownInv, NamedInv, CreatorInv, KillInv, KeptInv, [Next]_vars
  PROVE  KeptInv'
  <1> USE DEF vars, appVars, nameVars, listVars, objectVars, ioVars, saveVars,
              evictVars, handlerVars, boundVars
  <1>1. ASSUME NEW h \in Handlers, NEW s \in Sessions, NEW n \in Names,
               CreateReserve(h, s, n)
        PROVE  KeptInv'
    BY <1>1, TypeOK, DownInv, NamedInv, CreatorInv, KillInv, KeptInv DEF
       CreateReserve, TypeOK, DownInv, NamedInv, Named, CreatorInv, Creating,
       KillInv, Killing, KeptInv, NoLostSession, Capping, HStep, EvStep,
       NoTask, Idle
  <1>2. ASSUME NEW h \in Handlers, CreateSpawn(h) PROVE KeptInv'
    BY <1>2, TypeOK, DownInv, NamedInv, CreatorInv, KillInv, KeptInv DEF
       CreateSpawn, TypeOK, DownInv, NamedInv, Named, CreatorInv, Creating,
       KillInv, Killing, KeptInv, NoLostSession, Capping, HStep, EvStep,
       NoTask, Idle
  <1>3. ASSUME NEW h \in Handlers, CreateFails(h) PROVE KeptInv'
    BY <1>3, TypeOK, DownInv, NamedInv, CreatorInv, KillInv, KeptInv DEF
       CreateFails, TypeOK, DownInv, NamedInv, Named, CreatorInv, Creating,
       KillInv, Killing, KeptInv, NoLostSession, Capping, HStep, EvStep,
       NoTask, Idle
  <1>4. ASSUME NEW h \in Handlers, CreateInsert(h) PROVE KeptInv'
    BY <1>4, TypeOK, DownInv, NamedInv, CreatorInv, KillInv, KeptInv DEF
       CreateInsert, TypeOK, DownInv, NamedInv, Named, CreatorInv, Creating,
       KillInv, Killing, KeptInv, NoLostSession, Capping, HStep, EvStep,
       NoTask, Idle
  <1>5. ASSUME NEW h \in Handlers, CreateWatch(h) PROVE KeptInv'
    BY <1>5, TypeOK, DownInv, NamedInv, CreatorInv, KillInv, KeptInv DEF
       CreateWatch, TypeOK, DownInv, NamedInv, Named, CreatorInv, Creating,
       KillInv, Killing, KeptInv, NoLostSession, Capping, HStep, EvStep,
       NoTask, Idle
  <1>6. ASSUME NEW h \in Handlers, CreateLook(h) PROVE KeptInv'
    BY <1>6, TypeOK, DownInv, NamedInv, CreatorInv, KillInv, KeptInv DEF
       CreateLook, TypeOK, DownInv, NamedInv, Named, CreatorInv, Creating,
       KillInv, Killing, KeptInv, NoLostSession, Capping, HStep, EvStep,
       NoTask, Idle
  <1>7. ASSUME NEW h \in Handlers, HandlerDraws(h) PROVE KeptInv'
    BY <1>7, TypeOK, DownInv, NamedInv, CreatorInv, KillInv, KeptInv DEF
       HandlerDraws, TypeOK, DownInv, NamedInv, Named, CreatorInv, Creating,
       KillInv, Killing, KeptInv, NoLostSession, Capping, HStep, EvStep,
       NoTask, Idle
  <1>8. ASSUME NEW h \in Handlers, CreateDone(h) PROVE KeptInv'
    BY <1>8, TypeOK, DownInv, NamedInv, CreatorInv, KillInv, KeptInv DEF
       CreateDone, TypeOK, DownInv, NamedInv, Named, CreatorInv, Creating,
       KillInv, Killing, KeptInv, NoLostSession, Capping, HStep, EvStep,
       NoTask, Idle
  <1>9. ASSUME NEW h \in Handlers, NEW s \in Sessions, KillRequest(h, s)
        PROVE  KeptInv'
    BY <1>9, TypeOK, DownInv, NamedInv, CreatorInv, KillInv, KeptInv DEF
       KillRequest, TypeOK, DownInv, NamedInv, Named, CreatorInv, Creating,
       KillInv, Killing, KeptInv, NoLostSession, Capping, HStep, EvStep,
       NoTask, Idle
  <1>10. ASSUME NEW h \in Handlers, KillGetLive(h) PROVE KeptInv'
    BY <1>10, TypeOK, DownInv, NamedInv, CreatorInv, KillInv, KeptInv DEF
       KillGetLive, TypeOK, DownInv, NamedInv, Named, CreatorInv, Creating,
       KillInv, Killing, KeptInv, NoLostSession, Capping, HStep, EvStep,
       NoTask, Idle
  <1>11. ASSUME NEW h \in Handlers, KillGetNone(h) PROVE KeptInv'
    BY <1>11, TypeOK, DownInv, NamedInv, CreatorInv, KillInv, KeptInv DEF
       KillGetNone, TypeOK, DownInv, NamedInv, Named, CreatorInv, Creating,
       KillInv, Killing, KeptInv, NoLostSession, Capping, HStep, EvStep,
       NoTask, Idle
  <1>12. ASSUME NEW h \in Handlers, KillMark(h) PROVE KeptInv'
    BY <1>12, TypeOK, DownInv, NamedInv, CreatorInv, KillInv, KeptInv DEF
       KillMark, TypeOK, DownInv, NamedInv, Named, CreatorInv, Creating,
       KillInv, Killing, KeptInv, NoLostSession, Capping, HStep, EvStep,
       NoTask, Idle
  <1>13. ASSUME NEW h \in Handlers, KillMarkFails(h) PROVE KeptInv'
    BY <1>13, TypeOK, DownInv, NamedInv, CreatorInv, KillInv, KeptInv DEF
       KillMarkFails, TypeOK, DownInv, NamedInv, Named, CreatorInv, Creating,
       KillInv, Killing, KeptInv, NoLostSession, Capping, HStep, EvStep,
       NoTask, Idle
  <1>14. ASSUME NEW h \in Handlers, KillRemove(h) PROVE KeptInv'
    BY <1>14, TypeOK, DownInv, NamedInv, CreatorInv, KillInv, KeptInv DEF
       KillRemove, TypeOK, DownInv, NamedInv, Named, CreatorInv, Creating,
       KillInv, Killing, KeptInv, NoLostSession, Capping, HStep, EvStep,
       NoTask, Idle
  <1>15. ASSUME NEW h \in Handlers, KillUnrestore(h) PROVE KeptInv'
    BY <1>15, TypeOK, DownInv, NamedInv, CreatorInv, KillInv, KeptInv DEF
       KillUnrestore, TypeOK, DownInv, NamedInv, Named, CreatorInv, Creating,
       KillInv, Killing, KeptInv, NoLostSession, Capping, HStep, EvStep,
       NoTask, Idle
  <1>16. ASSUME NEW h \in Handlers, KillUnname(h) PROVE KeptInv'
    BY <1>16, TypeOK, DownInv, NamedInv, CreatorInv, KillInv, KeptInv DEF
       KillUnname, TypeOK, DownInv, NamedInv, Named, CreatorInv, Creating,
       KillInv, Killing, KeptInv, NoLostSession, Capping, HStep, EvStep,
       NoTask, Idle
  <1>17. ASSUME NEW h \in Handlers, KillErase(h) PROVE KeptInv'
    BY <1>17, TypeOK, DownInv, NamedInv, CreatorInv, KillInv, KeptInv DEF
       KillErase, TypeOK, DownInv, NamedInv, Named, CreatorInv, Creating,
       KillInv, Killing, KeptInv, NoLostSession, Capping, HStep, EvStep,
       NoTask, Idle
  <1>18. ASSUME NEW h \in Handlers, KillDone(h) PROVE KeptInv'
    BY <1>18, TypeOK, DownInv, NamedInv, CreatorInv, KillInv, KeptInv DEF
       KillDone, TypeOK, DownInv, NamedInv, Named, CreatorInv, Creating,
       KillInv, Killing, KeptInv, NoLostSession, Capping, HStep, EvStep,
       NoTask, Idle
  <1>19. ASSUME NEW s \in Sessions, EvictNotice(s) PROVE KeptInv'
    BY <1>19, TypeOK, DownInv, NamedInv, CreatorInv, KillInv, KeptInv DEF
       EvictNotice, TypeOK, DownInv, NamedInv, Named, CreatorInv, Creating,
       KillInv, Killing, KeptInv, NoLostSession, Capping, HStep, EvStep,
       NoTask, Idle
  <1>20. ASSUME NEW s \in Sessions, EvictGet(s) PROVE KeptInv'
    BY <1>20, TypeOK, DownInv, NamedInv, CreatorInv, KillInv, KeptInv DEF
       EvictGet, TypeOK, DownInv, NamedInv, Named, CreatorInv, Creating,
       KillInv, Killing, KeptInv, NoLostSession, Capping, HStep, EvStep,
       NoTask, Idle
  <1>21. ASSUME NEW s \in Sessions, EvictCheck(s) PROVE KeptInv'
    BY <1>21, TypeOK, DownInv, NamedInv, CreatorInv, KillInv, KeptInv DEF
       EvictCheck, TypeOK, DownInv, NamedInv, Named, CreatorInv, Creating,
       KillInv, Killing, KeptInv, NoLostSession, Capping, HStep, EvStep,
       NoTask, Idle
  <1>22. ASSUME NEW s \in Sessions, EvictName(s) PROVE KeptInv'
    BY <1>22, TypeOK, DownInv, NamedInv, CreatorInv, KillInv, KeptInv DEF
       EvictName, TypeOK, DownInv, NamedInv, Named, CreatorInv, Creating,
       KillInv, Killing, KeptInv, NoLostSession, Capping, HStep, EvStep,
       NoTask, Idle
  <1>23. ASSUME NEW s \in Sessions, EvictInsert(s) PROVE KeptInv'
    BY <1>23, TypeOK, DownInv, NamedInv, CreatorInv, KillInv, KeptInv DEF
       EvictInsert, TypeOK, DownInv, NamedInv, Named, CreatorInv, Creating,
       KillInv, Killing, KeptInv, NoLostSession, Capping, HStep, EvStep,
       NoTask, Idle
  <1>24. ASSUME NEW s \in Sessions, NEW o \in Sessions, EvictPick(s, o)
         PROVE  KeptInv'
    BY <1>24, TypeOK, DownInv, NamedInv, CreatorInv, KillInv, KeptInv DEF
       EvictPick, TypeOK, DownInv, NamedInv, Named, CreatorInv, Creating,
       KillInv, Killing, KeptInv, NoLostSession, Capping, HStep, EvStep,
       NoTask, Idle
  <1>25. ASSUME NEW s \in Sessions, EvictDrop(s) PROVE KeptInv'
    BY <1>25, TypeOK, DownInv, NamedInv, CreatorInv, KillInv, KeptInv DEF
       EvictDrop, TypeOK, DownInv, NamedInv, Named, CreatorInv, Creating,
       KillInv, Killing, KeptInv, NoLostSession, Capping, HStep, EvStep,
       NoTask, Idle
  <1>26. ASSUME NEW s \in Sessions, EvictUnname(s) PROVE KeptInv'
    BY <1>26, TypeOK, DownInv, NamedInv, CreatorInv, KillInv, KeptInv DEF
       EvictUnname, TypeOK, DownInv, NamedInv, Named, CreatorInv, Creating,
       KillInv, Killing, KeptInv, NoLostSession, Capping, HStep, EvStep,
       NoTask, Idle
  <1>27. ASSUME NEW s \in Sessions, EvictErase(s) PROVE KeptInv'
    BY <1>27, TypeOK, DownInv, NamedInv, CreatorInv, KillInv, KeptInv DEF
       EvictErase, TypeOK, DownInv, NamedInv, Named, CreatorInv, Creating,
       KillInv, Killing, KeptInv, NoLostSession, Capping, HStep, EvStep,
       NoTask, Idle
  <1>28. ASSUME NEW s \in Sessions, EvictCapped(s) PROVE KeptInv'
    BY <1>28, TypeOK, DownInv, NamedInv, CreatorInv, KillInv, KeptInv DEF
       EvictCapped, TypeOK, DownInv, NamedInv, Named, CreatorInv, Creating,
       KillInv, Killing, KeptInv, NoLostSession, Capping, HStep, EvStep,
       NoTask, Idle
  <1>29. ASSUME NEW s \in Sessions, EvictRemove(s) PROVE KeptInv'
    BY <1>29, TypeOK, DownInv, NamedInv, CreatorInv, KillInv, KeptInv DEF
       EvictRemove, TypeOK, DownInv, NamedInv, Named, CreatorInv, Creating,
       KillInv, Killing, KeptInv, NoLostSession, Capping, HStep, EvStep,
       NoTask, Idle
  <1>30. ASSUME NEW s \in Sessions, EvictFree(s) PROVE KeptInv'
    BY <1>30, TypeOK, DownInv, NamedInv, CreatorInv, KillInv, KeptInv DEF
       EvictFree, TypeOK, DownInv, NamedInv, Named, CreatorInv, Creating,
       KillInv, Killing, KeptInv, NoLostSession, Capping, HStep, EvStep,
       NoTask, Idle
  <1>31. ASSUME NEW s \in Sessions, EvictDraw(s) PROVE KeptInv'
    BY <1>31, TypeOK, DownInv, NamedInv, CreatorInv, KillInv, KeptInv DEF
       EvictDraw, TypeOK, DownInv, NamedInv, Named, CreatorInv, Creating,
       KillInv, Killing, KeptInv, NoLostSession, Capping, HStep, EvStep,
       NoTask, Idle
  <1>32. ASSUME NEW s \in Sessions, EvictDone(s) PROVE KeptInv'
    BY <1>32, TypeOK, DownInv, NamedInv, CreatorInv, KillInv, KeptInv DEF
       EvictDone, TypeOK, DownInv, NamedInv, Named, CreatorInv, Creating,
       KillInv, Killing, KeptInv, NoLostSession, Capping, HStep, EvStep,
       NoTask, Idle
  <1>33. ASSUME Stop PROVE KeptInv'
    BY <1>33, TypeOK, DownInv, NamedInv, CreatorInv, KillInv, KeptInv DEF
       Stop, TypeOK, DownInv, NamedInv, Named, CreatorInv, Creating, KillInv,
       Killing, KeptInv, NoLostSession, Capping, HStep, EvStep, NoTask, Idle
  <1>34. ASSUME Start PROVE KeptInv'
    BY <1>34, TypeOK, DownInv, NamedInv, CreatorInv, KillInv, KeptInv DEF
       Start, TypeOK, DownInv, NamedInv, Named, CreatorInv, Creating, KillInv,
       Killing, KeptInv, NoLostSession, Capping, HStep, EvStep, NoTask, Idle
  <1>35. ASSUME UNCHANGED <<up, live, restored, hPc, hSess, evPc, created, dropped>> PROVE KeptInv'
    BY <1>35 DEF TypeOK, DownInv, NamedInv, Named, CreatorInv, Creating,
       KillInv, Killing, KeptInv, NoLostSession, Capping, HStep, EvStep,
       NoTask, Idle
  <1>36. ASSUME NEW s \in Sessions,
              Output(s) \/ MarkExited(s) \/ FinalCheck(s) \/ FinalSave(s) \/
              Notify(s)
         PROVE  KeptInv'
    BY <1>36, <1>35 DEF HStep, EvStep, IoStep, Draw, Send, Output, MarkExited,
       FinalCheck, FinalSave, Notify
  <1>37. ASSUME NEW s \in Sessions, NEW t \in Savers,
              FlushCapture(s, t) \/ FlushSave(s, t)
         PROVE  KeptInv'
    BY <1>37, <1>35 DEF HStep, EvStep, IoStep, Draw, Send, FlushCapture,
       FlushSave
  <1>38. ASSUME Shutdown PROVE KeptInv'
    BY <1>38, <1>35 DEF HStep, EvStep, IoStep, Draw, Send, Shutdown
  <1> QED
    BY <1>1, <1>2, <1>3, <1>4, <1>5, <1>6, <1>7, <1>8, <1>9, <1>10, <1>11,
       <1>12, <1>13, <1>14, <1>15, <1>16, <1>17, <1>18, <1>19, <1>20, <1>21,
       <1>22, <1>23, <1>24, <1>25, <1>26, <1>27, <1>28, <1>29, <1>30, <1>31,
       <1>32, <1>33, <1>34, <1>35, <1>36, <1>37, <1>38 DEF Next, Handler,
       Request, Io, Saver, Forwarder

-----------------------------------------------------------------------------
(***************************************************************************)
(* A name is free only if nobody has it, or somebody gave it up.           *)
(***************************************************************************)
LEMMA UniqueStep ==
  ASSUME TypeOK, DownInv, NamedInv, UniqueInv, [Next]_vars
  PROVE  UniqueInv'
  <1> USE DEF vars, appVars, nameVars, listVars, objectVars, ioVars, saveVars,
              evictVars, handlerVars, boundVars
  <1>1. ASSUME NEW h \in Handlers, NEW s \in Sessions, NEW n \in Names,
               CreateReserve(h, s, n)
        PROVE  UniqueInv'
    BY <1>1, TypeOK, DownInv, NamedInv, UniqueInv, RegistryAssumption DEF
       CreateReserve, TypeOK, DownInv, NamedInv, Named, UniqueInv, HStep,
       EvStep, Free, NameIsFree
  <1>2. ASSUME NEW h \in Handlers, CreateFails(h) PROVE UniqueInv'
    BY <1>2, TypeOK, DownInv, NamedInv, UniqueInv, RegistryAssumption DEF
       CreateFails, TypeOK, DownInv, NamedInv, Named, UniqueInv, HStep,
       EvStep, Free, NameIsFree
  <1>3. ASSUME NEW h \in Handlers, KillUnname(h) PROVE UniqueInv'
    BY <1>3, TypeOK, DownInv, NamedInv, UniqueInv, RegistryAssumption DEF
       KillUnname, TypeOK, DownInv, NamedInv, Named, UniqueInv, HStep, EvStep,
       Free, NameIsFree
  <1>4. ASSUME NEW s \in Sessions, EvictName(s) PROVE UniqueInv'
    BY <1>4, TypeOK, DownInv, NamedInv, UniqueInv, RegistryAssumption DEF
       EvictName, TypeOK, DownInv, NamedInv, Named, UniqueInv, HStep, EvStep,
       Free, NameIsFree
  <1>5. ASSUME NEW s \in Sessions, EvictUnname(s) PROVE UniqueInv'
    BY <1>5, TypeOK, DownInv, NamedInv, UniqueInv, RegistryAssumption DEF
       EvictUnname, TypeOK, DownInv, NamedInv, Named, UniqueInv, HStep,
       EvStep, Free, NameIsFree
  <1>6. ASSUME NEW s \in Sessions, EvictFree(s) PROVE UniqueInv'
    BY <1>6, TypeOK, DownInv, NamedInv, UniqueInv, RegistryAssumption DEF
       EvictFree, TypeOK, DownInv, NamedInv, Named, UniqueInv, HStep, EvStep,
       Free, NameIsFree
  <1>7. ASSUME Stop PROVE UniqueInv'
    BY <1>7, TypeOK, DownInv, NamedInv, UniqueInv, RegistryAssumption DEF
       Stop, TypeOK, DownInv, NamedInv, Named, UniqueInv, HStep, EvStep, Free,
       NameIsFree
  <1>8. ASSUME Start PROVE UniqueInv'
    BY <1>8, TypeOK, DownInv, NamedInv, UniqueInv, RegistryAssumption DEF
       Start, TypeOK, DownInv, NamedInv, Named, UniqueInv, HStep, EvStep,
       Free, NameIsFree
  <1>9. ASSUME UNCHANGED <<up, nameOf, names, freed>> PROVE UniqueInv'
    BY <1>9 DEF TypeOK, DownInv, NamedInv, Named, UniqueInv, HStep, EvStep,
       Free, NameIsFree
  <1>10. ASSUME NEW h \in Handlers,
              CreateSpawn(h) \/ CreateInsert(h) \/ CreateWatch(h) \/
              CreateLook(h) \/ HandlerDraws(h) \/ CreateDone(h) \/
              KillGetLive(h) \/ KillGetNone(h) \/ KillMark(h) \/
              KillMarkFails(h) \/ KillRemove(h) \/ KillUnrestore(h) \/
              KillErase(h) \/ KillDone(h)
         PROVE  UniqueInv'
    BY <1>10, <1>9 DEF HStep, EvStep, IoStep, Draw, Send, CreateSpawn,
       CreateInsert, CreateWatch, CreateLook, HandlerDraws, CreateDone,
       KillGetLive, KillGetNone, KillMark, KillMarkFails, KillRemove,
       KillUnrestore, KillErase, KillDone
  <1>11. ASSUME NEW s \in Sessions,
              Output(s) \/ MarkExited(s) \/ FinalCheck(s) \/ FinalSave(s) \/
              Notify(s) \/ EvictNotice(s) \/ EvictGet(s) \/ EvictCheck(s) \/
              EvictInsert(s) \/ EvictDrop(s) \/ EvictErase(s) \/
              EvictCapped(s) \/ EvictRemove(s) \/ EvictDraw(s) \/ EvictDone(s)
         PROVE  UniqueInv'
    BY <1>11, <1>9 DEF HStep, EvStep, IoStep, Draw, Send, Output, MarkExited,
       FinalCheck, FinalSave, Notify, EvictNotice, EvictGet, EvictCheck,
       EvictInsert, EvictDrop, EvictErase, EvictCapped, EvictRemove,
       EvictDraw, EvictDone
  <1>12. ASSUME NEW h \in Handlers, NEW s \in Sessions,
              KillRequest(h, s)
         PROVE  UniqueInv'
    BY <1>12, <1>9 DEF HStep, EvStep, IoStep, Draw, Send, KillRequest
  <1>13. ASSUME NEW s \in Sessions, NEW t \in Savers,
              FlushCapture(s, t) \/ FlushSave(s, t)
         PROVE  UniqueInv'
    BY <1>13, <1>9 DEF HStep, EvStep, IoStep, Draw, Send, FlushCapture,
       FlushSave
  <1>14. ASSUME NEW s \in Sessions, NEW o \in Sessions,
              EvictPick(s, o)
         PROVE  UniqueInv'
    BY <1>14, <1>9 DEF HStep, EvStep, IoStep, Draw, Send, EvictPick
  <1>15. ASSUME Shutdown PROVE UniqueInv'
    BY <1>15, <1>9 DEF HStep, EvStep, IoStep, Draw, Send, Shutdown
  <1> QED
    BY <1>1, <1>2, <1>3, <1>4, <1>5, <1>6, <1>7, <1>8, <1>9, <1>10, <1>11,
       <1>12, <1>13, <1>14, <1>15 DEF Next, Handler, Request, Io, Saver,
       Forwarder

-----------------------------------------------------------------------------
(***************************************************************************)
(* No name is leaked: each step hands the charge of a name on.             *)
(***************************************************************************)
LEMMA LeakStep ==
  ASSUME TypeOK, NamedInv, CreatorInv, KillInv, LeakInv, [Next]_vars
  PROVE  LeakInv'
  <1> USE DEF vars, appVars, nameVars, listVars, objectVars, ioVars, saveVars,
              evictVars, handlerVars, boundVars
  <1>1. ASSUME NEW h \in Handlers, NEW s \in Sessions, NEW n \in Names,
               CreateReserve(h, s, n)
        PROVE  LeakInv'
    <2> SUFFICES ASSUME NEW m \in names' PROVE Reserved(m)'
      BY DEF LeakInv
    <2>1. CASE m = n
      <3>1. nameOf'[s] = m /\ hSess'[h] = s /\ hPc'[h] = "spawn"
        BY <1>1, <2>1, TypeOK DEF CreateReserve, HStep, TypeOK
      <3> QED
        BY <3>1 DEF Reserved, Accounted
    <2>2. CASE m \in names
      <3>1. PICK r \in Sessions : nameOf[r] = m /\ Accounted(r)
        BY <2>2, LeakInv DEF LeakInv, Reserved
      <3>2. r # s
        BY <1>1, <2>2, <3>1, TypeOK, RegistryAssumption DEF CreateReserve, TypeOK
      <3>3. nameOf'[r] = m /\ Accounted(r)'
        BY <1>1, <3>1, <3>2, TypeOK
        DEF CreateReserve, HStep, Accounted, Capping, TypeOK
      <3> QED
        BY <3>3 DEF Reserved
    <2> QED
      BY <1>1, <2>1, <2>2 DEF CreateReserve
  <1>2. ASSUME NEW h \in Handlers, CreateSpawn(h) PROVE LeakInv'
    <2> SUFFICES ASSUME NEW m \in names' PROVE Reserved(m)'
      BY DEF LeakInv
    <2>1. PICK r \in Sessions : nameOf[r] = m /\ Accounted(r)
      BY <1>2, LeakInv DEF LeakInv, Reserved, CreateSpawn, Free
    <2>2. nameOf'[r] = m /\ Accounted(r)'
      BY <1>2, <2>1, TypeOK, CreatorInv, KillInv, RegistryAssumption
      DEF CreateSpawn, HStep, Free, Accounted, Capping, TypeOK,
          CreatorInv, Creating, KillInv, Killing
    <2> QED
      BY <2>2 DEF Reserved
  <1>3. ASSUME NEW h \in Handlers, CreateFails(h) PROVE LeakInv'
    <2> SUFFICES ASSUME NEW m \in names' PROVE Reserved(m)'
      BY DEF LeakInv
    <2>1. PICK r \in Sessions : nameOf[r] = m /\ Accounted(r)
      BY <1>3, LeakInv DEF LeakInv, Reserved, CreateFails, Free
    <2>3. r # hSess[h]
      BY <1>3, <2>1 DEF CreateFails, Free
    <2>4. \A g \in Handlers : hSess[g] = r =>
             hSess'[g] = r /\ hPc'[g] = hPc[g] /\ hName'[g] = hName[g]
      BY <1>3, <2>3, TypeOK DEF CreateFails, HStep, TypeOK
    <2>2. nameOf'[r] = m /\ Accounted(r)'
      BY <1>3, <2>1, <2>4
      DEF CreateFails, Accounted
    <2> QED
      BY <2>2 DEF Reserved
  <1>4. ASSUME NEW h \in Handlers, CreateInsert(h) PROVE LeakInv'
    <2> SUFFICES ASSUME NEW m \in names' PROVE Reserved(m)'
      BY DEF LeakInv
    <2>1. PICK r \in Sessions : nameOf[r] = m /\ Accounted(r)
      BY <1>4, LeakInv DEF LeakInv, Reserved, CreateInsert, Free
    <2>2. nameOf'[r] = m /\ Accounted(r)'
      BY <1>4, <2>1, TypeOK, CreatorInv, KillInv, RegistryAssumption
      DEF CreateInsert, HStep, Free, Accounted, Capping, TypeOK,
          CreatorInv, Creating, KillInv, Killing
    <2> QED
      BY <2>2 DEF Reserved
  <1>5. ASSUME NEW h \in Handlers, CreateWatch(h) PROVE LeakInv'
    <2> SUFFICES ASSUME NEW m \in names' PROVE Reserved(m)'
      BY DEF LeakInv
    <2>1. PICK r \in Sessions : nameOf[r] = m /\ Accounted(r)
      BY <1>5, LeakInv DEF LeakInv, Reserved, CreateWatch, Free
    <2>2. nameOf'[r] = m /\ Accounted(r)'
      BY <1>5, <2>1, TypeOK, CreatorInv, KillInv, RegistryAssumption
      DEF CreateWatch, HStep, Free, Accounted, Capping, TypeOK,
          CreatorInv, Creating, KillInv, Killing
    <2> QED
      BY <2>2 DEF Reserved
  <1>6. ASSUME NEW h \in Handlers, CreateLook(h) PROVE LeakInv'
    <2> SUFFICES ASSUME NEW m \in names' PROVE Reserved(m)'
      BY DEF LeakInv
    <2>1. PICK r \in Sessions : nameOf[r] = m /\ Accounted(r)
      BY <1>6, LeakInv DEF LeakInv, Reserved, CreateLook, Free
    <2>2. nameOf'[r] = m /\ Accounted(r)'
      BY <1>6, <2>1, TypeOK, CreatorInv, KillInv, RegistryAssumption
      DEF CreateLook, HStep, Free, Accounted, Capping, TypeOK,
          CreatorInv, Creating, KillInv, Killing
    <2> QED
      BY <2>2 DEF Reserved
  <1>7. ASSUME NEW h \in Handlers, HandlerDraws(h) PROVE LeakInv'
    <2> SUFFICES ASSUME NEW m \in names' PROVE Reserved(m)'
      BY DEF LeakInv
    <2>1. PICK r \in Sessions : nameOf[r] = m /\ Accounted(r)
      BY <1>7, LeakInv DEF LeakInv, Reserved, HandlerDraws, Free
    <2>2. nameOf'[r] = m /\ Accounted(r)'
      BY <1>7, <2>1, TypeOK, CreatorInv, KillInv, RegistryAssumption
      DEF HandlerDraws, HStep, Free, Accounted, Capping, TypeOK,
          CreatorInv, Creating, KillInv, Killing
    <2> QED
      BY <2>2 DEF Reserved
  <1>8. ASSUME NEW h \in Handlers, CreateDone(h) PROVE LeakInv'
    <2> SUFFICES ASSUME NEW m \in names' PROVE Reserved(m)'
      BY DEF LeakInv
    <2>1. PICK r \in Sessions : nameOf[r] = m /\ Accounted(r)
      BY <1>8, LeakInv DEF LeakInv, Reserved, CreateDone, Free
    <2>2. nameOf'[r] = m /\ Accounted(r)'
      BY <1>8, <2>1, TypeOK, CreatorInv, KillInv, RegistryAssumption
      DEF CreateDone, HStep, Free, Accounted, Capping, TypeOK,
          CreatorInv, Creating, KillInv, Killing
    <2> QED
      BY <2>2 DEF Reserved
  <1>9. ASSUME NEW h \in Handlers, NEW s \in Sessions, KillRequest(h, s)
        PROVE  LeakInv'
    <2> SUFFICES ASSUME NEW m \in names' PROVE Reserved(m)'
      BY DEF LeakInv
    <2>1. PICK r \in Sessions : nameOf[r] = m /\ Accounted(r)
      BY <1>9, LeakInv DEF LeakInv, Reserved, KillRequest, Free
    <2>2. nameOf'[r] = m /\ Accounted(r)'
      BY <1>9, <2>1, TypeOK, CreatorInv, KillInv, RegistryAssumption
      DEF KillRequest, HStep, Free, Accounted, Capping, TypeOK,
          CreatorInv, Creating, KillInv, Killing
    <2> QED
      BY <2>2 DEF Reserved
  <1>10. ASSUME NEW h \in Handlers, KillGetLive(h) PROVE LeakInv'
    <2> SUFFICES ASSUME NEW m \in names' PROVE Reserved(m)'
      BY DEF LeakInv
    <2>1. PICK r \in Sessions : nameOf[r] = m /\ Accounted(r)
      BY <1>10, LeakInv DEF LeakInv, Reserved, KillGetLive, Free
    <2>2. nameOf'[r] = m /\ Accounted(r)'
      BY <1>10, <2>1, TypeOK, CreatorInv, KillInv, RegistryAssumption
      DEF KillGetLive, HStep, Free, Accounted, Capping, TypeOK,
          CreatorInv, Creating, KillInv, Killing
    <2> QED
      BY <2>2 DEF Reserved
  <1>11. ASSUME NEW h \in Handlers, KillGetNone(h) PROVE LeakInv'
    <2> SUFFICES ASSUME NEW m \in names' PROVE Reserved(m)'
      BY DEF LeakInv
    <2>1. PICK r \in Sessions : nameOf[r] = m /\ Accounted(r)
      BY <1>11, LeakInv DEF LeakInv, Reserved, KillGetNone, Free
    <2>2. nameOf'[r] = m /\ Accounted(r)'
      BY <1>11, <2>1, TypeOK, CreatorInv, KillInv, RegistryAssumption
      DEF KillGetNone, HStep, Free, Accounted, Capping, TypeOK,
          CreatorInv, Creating, KillInv, Killing
    <2> QED
      BY <2>2 DEF Reserved
  <1>12. ASSUME NEW h \in Handlers, KillMark(h) PROVE LeakInv'
    <2> SUFFICES ASSUME NEW m \in names' PROVE Reserved(m)'
      BY DEF LeakInv
    <2>1. PICK r \in Sessions : nameOf[r] = m /\ Accounted(r)
      BY <1>12, LeakInv DEF LeakInv, Reserved, KillMark, Free
    <2>2. nameOf'[r] = m /\ Accounted(r)'
      BY <1>12, <2>1, TypeOK, CreatorInv, KillInv, RegistryAssumption
      DEF KillMark, HStep, Free, Accounted, Capping, TypeOK,
          CreatorInv, Creating, KillInv, Killing
    <2> QED
      BY <2>2 DEF Reserved
  <1>13. ASSUME NEW h \in Handlers, KillMarkFails(h) PROVE LeakInv'
    <2> SUFFICES ASSUME NEW m \in names' PROVE Reserved(m)'
      BY DEF LeakInv
    <2>1. PICK r \in Sessions : nameOf[r] = m /\ Accounted(r)
      BY <1>13, LeakInv DEF LeakInv, Reserved, KillMarkFails, Free
    <2>2. nameOf'[r] = m /\ Accounted(r)'
      BY <1>13, <2>1, TypeOK, CreatorInv, KillInv, RegistryAssumption
      DEF KillMarkFails, HStep, Free, Accounted, Capping, TypeOK,
          CreatorInv, Creating, KillInv, Killing
    <2> QED
      BY <2>2 DEF Reserved
  <1>14. ASSUME NEW h \in Handlers, KillRemove(h) PROVE LeakInv'
    <2> SUFFICES ASSUME NEW m \in names' PROVE Reserved(m)'
      BY DEF LeakInv
    <2>1. PICK r \in Sessions : nameOf[r] = m /\ Accounted(r)
      BY <1>14, LeakInv DEF LeakInv, Reserved, KillRemove, Free
    <2>2. nameOf'[r] = m /\ Accounted(r)'
      BY <1>14, <2>1, TypeOK, CreatorInv, KillInv, RegistryAssumption
      DEF KillRemove, HStep, Free, Accounted, Capping, TypeOK,
          CreatorInv, Creating, KillInv, Killing
    <2> QED
      BY <2>2 DEF Reserved
  <1>15. ASSUME NEW h \in Handlers, KillUnrestore(h) PROVE LeakInv'
    <2> SUFFICES ASSUME NEW m \in names' PROVE Reserved(m)'
      BY DEF LeakInv
    <2>1. PICK r \in Sessions : nameOf[r] = m /\ Accounted(r)
      BY <1>15, LeakInv DEF LeakInv, Reserved, KillUnrestore, Free
    <2>2. nameOf'[r] = m /\ Accounted(r)'
      BY <1>15, <2>1, TypeOK, CreatorInv, KillInv, RegistryAssumption
      DEF KillUnrestore, HStep, Free, Accounted, Capping, TypeOK,
          CreatorInv, Creating, KillInv, Killing
    <2> QED
      BY <2>2 DEF Reserved
  <1>16. ASSUME NEW h \in Handlers, KillUnname(h) PROVE LeakInv'
    <2> SUFFICES ASSUME NEW m \in names' PROVE Reserved(m)'
      BY DEF LeakInv
    <2>1. PICK r \in Sessions : nameOf[r] = m /\ Accounted(r)
      BY <1>16, LeakInv DEF LeakInv, Reserved, KillUnname, Free
    <2>2. nameOf'[r] = m /\ Accounted(r)'
      BY <1>16, <2>1, TypeOK, CreatorInv, KillInv, RegistryAssumption
      DEF KillUnname, HStep, Free, Accounted, Capping, TypeOK,
          CreatorInv, Creating, KillInv, Killing
    <2> QED
      BY <2>2 DEF Reserved
  <1>17. ASSUME NEW h \in Handlers, KillErase(h) PROVE LeakInv'
    <2> SUFFICES ASSUME NEW m \in names' PROVE Reserved(m)'
      BY DEF LeakInv
    <2>1. PICK r \in Sessions : nameOf[r] = m /\ Accounted(r)
      BY <1>17, LeakInv DEF LeakInv, Reserved, KillErase, Free
    <2>2. nameOf'[r] = m /\ Accounted(r)'
      BY <1>17, <2>1, TypeOK, CreatorInv, KillInv, RegistryAssumption
      DEF KillErase, HStep, Free, Accounted, Capping, TypeOK,
          CreatorInv, Creating, KillInv, Killing
    <2> QED
      BY <2>2 DEF Reserved
  <1>18. ASSUME NEW h \in Handlers, KillDone(h) PROVE LeakInv'
    <2> SUFFICES ASSUME NEW m \in names' PROVE Reserved(m)'
      BY DEF LeakInv
    <2>1. PICK r \in Sessions : nameOf[r] = m /\ Accounted(r)
      BY <1>18, LeakInv DEF LeakInv, Reserved, KillDone, Free
    <2>2. nameOf'[r] = m /\ Accounted(r)'
      BY <1>18, <2>1, TypeOK, CreatorInv, KillInv, RegistryAssumption
      DEF KillDone, HStep, Free, Accounted, Capping, TypeOK,
          CreatorInv, Creating, KillInv, Killing
    <2> QED
      BY <2>2 DEF Reserved
  <1>19. ASSUME NEW s \in Sessions, EvictNotice(s) PROVE LeakInv'
    <2> SUFFICES ASSUME NEW m \in names' PROVE Reserved(m)'
      BY DEF LeakInv
    <2>1. PICK r \in Sessions : nameOf[r] = m /\ Accounted(r)
      BY <1>19, LeakInv DEF LeakInv, Reserved, EvictNotice, Free
    <2>2. nameOf'[r] = m /\ Accounted(r)'
      BY <1>19, <2>1, TypeOK, CreatorInv, KillInv, RegistryAssumption
      DEF EvictNotice, EvStep, Free, Accounted, Capping, TypeOK,
          CreatorInv, Creating, KillInv, Killing
    <2> QED
      BY <2>2 DEF Reserved
  <1>20. ASSUME NEW s \in Sessions, EvictGet(s) PROVE LeakInv'
    <2> SUFFICES ASSUME NEW m \in names' PROVE Reserved(m)'
      BY DEF LeakInv
    <2>1. PICK r \in Sessions : nameOf[r] = m /\ Accounted(r)
      BY <1>20, LeakInv DEF LeakInv, Reserved, EvictGet, Free
    <2>2. nameOf'[r] = m /\ Accounted(r)'
      BY <1>20, <2>1, TypeOK, CreatorInv, KillInv, RegistryAssumption
      DEF EvictGet, EvStep, Free, Accounted, Capping, TypeOK,
          CreatorInv, Creating, KillInv, Killing
    <2> QED
      BY <2>2 DEF Reserved
  <1>21. ASSUME NEW s \in Sessions, EvictCheck(s) PROVE LeakInv'
    <2> SUFFICES ASSUME NEW m \in names' PROVE Reserved(m)'
      BY DEF LeakInv
    <2>1. PICK r \in Sessions : nameOf[r] = m /\ Accounted(r)
      BY <1>21, LeakInv DEF LeakInv, Reserved, EvictCheck, Free
    <2>2. nameOf'[r] = m /\ Accounted(r)'
      BY <1>21, <2>1, TypeOK, CreatorInv, KillInv, RegistryAssumption
      DEF EvictCheck, EvStep, Free, Accounted, Capping, TypeOK,
          CreatorInv, Creating, KillInv, Killing
    <2> QED
      BY <2>2 DEF Reserved
  <1>22. ASSUME NEW s \in Sessions, EvictName(s) PROVE LeakInv'
    <2> SUFFICES ASSUME NEW m \in names' PROVE Reserved(m)'
      BY DEF LeakInv
    <2>1. CASE m = nameOf[s]
      BY <1>22, <2>1, TypeOK DEF EvictName, EvStep, TypeOK, Reserved, Accounted
    <2>2. CASE m \in names
      <3>1. PICK r \in Sessions : nameOf[r] = m /\ Accounted(r)
        BY <2>2, LeakInv DEF LeakInv, Reserved
      <3>2. nameOf'[r] = m /\ Accounted(r)'
        BY <1>22, <3>1, TypeOK DEF EvictName, EvStep, Accounted, Capping, TypeOK
      <3> QED
        BY <3>2 DEF Reserved
    <2> QED
      BY <1>22, <2>1, <2>2 DEF EvictName
  <1>23. ASSUME NEW s \in Sessions, EvictInsert(s) PROVE LeakInv'
    <2> SUFFICES ASSUME NEW m \in names' PROVE Reserved(m)'
      BY DEF LeakInv
    <2>1. PICK r \in Sessions : nameOf[r] = m /\ Accounted(r)
      BY <1>23, LeakInv DEF LeakInv, Reserved, EvictInsert, Free
    <2>2. nameOf'[r] = m /\ Accounted(r)'
      BY <1>23, <2>1, TypeOK, CreatorInv, KillInv, RegistryAssumption
      DEF EvictInsert, EvStep, Free, Accounted, Capping, TypeOK,
          CreatorInv, Creating, KillInv, Killing
    <2> QED
      BY <2>2 DEF Reserved
  <1>24. ASSUME NEW s \in Sessions, NEW o \in Sessions, EvictPick(s, o)
         PROVE  LeakInv'
    <2> SUFFICES ASSUME NEW m \in names' PROVE Reserved(m)'
      BY DEF LeakInv
    <2>1. PICK r \in Sessions : nameOf[r] = m /\ Accounted(r)
      BY <1>24, LeakInv DEF LeakInv, Reserved, EvictPick, Free
    <2>2. nameOf'[r] = m /\ Accounted(r)'
      BY <1>24, <2>1, TypeOK, CreatorInv, KillInv, RegistryAssumption
      DEF EvictPick, EvStep, Free, Accounted, Capping, TypeOK,
          CreatorInv, Creating, KillInv, Killing
    <2> QED
      BY <2>2 DEF Reserved
  <1>25. ASSUME NEW s \in Sessions, EvictDrop(s) PROVE LeakInv'
    <2> SUFFICES ASSUME NEW m \in names' PROVE Reserved(m)'
      BY DEF LeakInv
    <2>1. PICK r \in Sessions : nameOf[r] = m /\ Accounted(r)
      BY <1>25, LeakInv DEF LeakInv, Reserved, EvictDrop, Free
    <2>2. nameOf'[r] = m /\ Accounted(r)'
      BY <1>25, <2>1, TypeOK, CreatorInv, KillInv, RegistryAssumption
      DEF EvictDrop, EvStep, Free, Accounted, Capping, TypeOK,
          CreatorInv, Creating, KillInv, Killing
    <2> QED
      BY <2>2 DEF Reserved
  <1>26. ASSUME NEW s \in Sessions, EvictUnname(s) PROVE LeakInv'
    <2> SUFFICES ASSUME NEW m \in names' PROVE Reserved(m)'
      BY DEF LeakInv
    <2>1. PICK r \in Sessions : nameOf[r] = m /\ Accounted(r)
      BY <1>26, LeakInv DEF LeakInv, Reserved, EvictUnname, Free
    <2>2. nameOf'[r] = m /\ Accounted(r)'
      BY <1>26, <2>1, TypeOK, CreatorInv, KillInv, RegistryAssumption
      DEF EvictUnname, EvStep, Free, Accounted, Capping, TypeOK,
          CreatorInv, Creating, KillInv, Killing
    <2> QED
      BY <2>2 DEF Reserved
  <1>27. ASSUME NEW s \in Sessions, EvictErase(s) PROVE LeakInv'
    <2> SUFFICES ASSUME NEW m \in names' PROVE Reserved(m)'
      BY DEF LeakInv
    <2>1. PICK r \in Sessions : nameOf[r] = m /\ Accounted(r)
      BY <1>27, LeakInv DEF LeakInv, Reserved, EvictErase, Free
    <2>2. nameOf'[r] = m /\ Accounted(r)'
      BY <1>27, <2>1, TypeOK, CreatorInv, KillInv, RegistryAssumption
      DEF EvictErase, EvStep, Free, Accounted, Capping, TypeOK,
          CreatorInv, Creating, KillInv, Killing
    <2> QED
      BY <2>2 DEF Reserved
  <1>28. ASSUME NEW s \in Sessions, EvictCapped(s) PROVE LeakInv'
    <2> SUFFICES ASSUME NEW m \in names' PROVE Reserved(m)'
      BY DEF LeakInv
    <2>1. PICK r \in Sessions : nameOf[r] = m /\ Accounted(r)
      BY <1>28, LeakInv DEF LeakInv, Reserved, EvictCapped, Free
    <2>2. nameOf'[r] = m /\ Accounted(r)'
      BY <1>28, <2>1, TypeOK, CreatorInv, KillInv, RegistryAssumption
      DEF EvictCapped, EvStep, Free, Accounted, Capping, TypeOK,
          CreatorInv, Creating, KillInv, Killing
    <2> QED
      BY <2>2 DEF Reserved
  <1>29. ASSUME NEW s \in Sessions, EvictRemove(s) PROVE LeakInv'
    <2> SUFFICES ASSUME NEW m \in names' PROVE Reserved(m)'
      BY DEF LeakInv
    <2>1. PICK r \in Sessions : nameOf[r] = m /\ Accounted(r)
      BY <1>29, LeakInv DEF LeakInv, Reserved, EvictRemove, Free
    <2>2. nameOf'[r] = m /\ Accounted(r)'
      BY <1>29, <2>1, TypeOK, CreatorInv, KillInv, RegistryAssumption
      DEF EvictRemove, EvStep, Free, Accounted, Capping, TypeOK,
          CreatorInv, Creating, KillInv, Killing
    <2> QED
      BY <2>2 DEF Reserved
  <1>30. ASSUME NEW s \in Sessions, EvictFree(s) PROVE LeakInv'
    <2> SUFFICES ASSUME NEW m \in names' PROVE Reserved(m)'
      BY DEF LeakInv
    <2>1. PICK r \in Sessions : nameOf[r] = m /\ Accounted(r)
      BY <1>30, LeakInv DEF LeakInv, Reserved, EvictFree, Free
    <2>2. nameOf'[r] = m /\ Accounted(r)'
      BY <1>30, <2>1, TypeOK, CreatorInv, KillInv, RegistryAssumption
      DEF EvictFree, EvStep, Free, Accounted, Capping, TypeOK,
          CreatorInv, Creating, KillInv, Killing
    <2> QED
      BY <2>2 DEF Reserved
  <1>31. ASSUME NEW s \in Sessions, EvictDraw(s) PROVE LeakInv'
    <2> SUFFICES ASSUME NEW m \in names' PROVE Reserved(m)'
      BY DEF LeakInv
    <2>1. PICK r \in Sessions : nameOf[r] = m /\ Accounted(r)
      BY <1>31, LeakInv DEF LeakInv, Reserved, EvictDraw, Free
    <2>2. nameOf'[r] = m /\ Accounted(r)'
      BY <1>31, <2>1, TypeOK, CreatorInv, KillInv, RegistryAssumption
      DEF EvictDraw, EvStep, Free, Accounted, Capping, TypeOK,
          CreatorInv, Creating, KillInv, Killing
    <2> QED
      BY <2>2 DEF Reserved
  <1>32. ASSUME NEW s \in Sessions, EvictDone(s) PROVE LeakInv'
    <2> SUFFICES ASSUME NEW m \in names' PROVE Reserved(m)'
      BY DEF LeakInv
    <2>1. PICK r \in Sessions : nameOf[r] = m /\ Accounted(r)
      BY <1>32, LeakInv DEF LeakInv, Reserved, EvictDone, Free
    <2>2. nameOf'[r] = m /\ Accounted(r)'
      BY <1>32, <2>1, TypeOK, CreatorInv, KillInv, RegistryAssumption
      DEF EvictDone, EvStep, Free, Accounted, Capping, TypeOK,
          CreatorInv, Creating, KillInv, Killing
    <2> QED
      BY <2>2 DEF Reserved
  <1>33. ASSUME Stop PROVE LeakInv'
    BY <1>33 DEF Stop, LeakInv
  <1>34. ASSUME Start PROVE LeakInv'
    BY <1>34 DEF Start, Rows, LeakInv, Reserved, Accounted
  <1>35. ASSUME UNCHANGED <<live, restored, names, nameOf, hPc, hSess, hName, evPc, victim>> PROVE LeakInv'
    BY <1>35 DEF LeakInv, Reserved, Accounted
  <1>36. ASSUME NEW s \in Sessions,
              Output(s) \/ MarkExited(s) \/ FinalCheck(s) \/ FinalSave(s) \/
              Notify(s)
         PROVE  LeakInv'
    BY <1>36, <1>35 DEF HStep, EvStep, IoStep, Draw, Send, Output, MarkExited,
       FinalCheck, FinalSave, Notify
  <1>37. ASSUME NEW s \in Sessions, NEW t \in Savers,
              FlushCapture(s, t) \/ FlushSave(s, t)
         PROVE  LeakInv'
    BY <1>37, <1>35 DEF HStep, EvStep, IoStep, Draw, Send, FlushCapture,
       FlushSave
  <1>38. ASSUME Shutdown PROVE LeakInv'
    BY <1>38, <1>35 DEF HStep, EvStep, IoStep, Draw, Send, Shutdown
  <1> QED
    BY <1>1, <1>2, <1>3, <1>4, <1>5, <1>6, <1>7, <1>8, <1>9, <1>10, <1>11,
       <1>12, <1>13, <1>14, <1>15, <1>16, <1>17, <1>18, <1>19, <1>20, <1>21,
       <1>22, <1>23, <1>24, <1>25, <1>26, <1>27, <1>28, <1>29, <1>30, <1>31,
       <1>32, <1>33, <1>34, <1>35, <1>36, <1>37, <1>38 DEF Next, Handler,
       Request, Io, Saver, Forwarder

-----------------------------------------------------------------------------
(***************************************************************************)
(* The cap: a forwarder that adds a session is itself counted until the    *)
(* cap was observed.                                                       *)
(***************************************************************************)
LEMMA SubsetOfSessions ==
  ASSUME NEW S \in SUBSET Sessions
  PROVE  IsFiniteSet(S) /\ Cardinality(S) \in Nat
  BY FS_Subset, FS_CardinalityType, RegistryAssumption DEF RegistryAssumption

LEMMA CappedStep ==
  ASSUME TypeOK, NamedInv, CreatorInv, RestoredIsCapped, [Next]_vars
  PROVE  RestoredIsCapped'
  <1> DEFINE busy == {s \in Sessions : evPc[s] \in Capping}
  <1> USE DEF vars, appVars, nameVars, listVars, objectVars, ioVars, saveVars,
              evictVars, handlerVars, boundVars
  <1>0. /\ Cardinality(restored) \in Nat /\ Cardinality(busy) \in Nat
        /\ MaxStored \in Nat
        /\ IsFiniteSet(restored) /\ IsFiniteSet(busy)
    BY SubsetOfSessions, TypeOK, RegistryAssumption DEF TypeOK
  \* Nothing is added to the map, and no forwarder leaves its cap loop.
  <1>1. ASSUME restored' \subseteq restored, busy \subseteq busy'
        PROVE  RestoredIsCapped'
    <2>1. Cardinality(restored') \in Nat /\ Cardinality(restored') <= Cardinality(restored)
      BY <1>0, <1>1, FS_Subset, FS_CardinalityType
    <2>2. busy' \in SUBSET Sessions
      OBVIOUS
    <2>3. Cardinality(busy') \in Nat /\ Cardinality(busy) <= Cardinality(busy')
      BY <1>1, <2>2, FS_Subset, SubsetOfSessions
    <2> QED
      BY <1>0, <2>1, <2>3, RestoredIsCapped DEF RestoredIsCapped
  \* The cap was just observed.
  <1>2. ASSUME Cardinality(restored') <= MaxStored, restored' \in SUBSET Sessions
        PROVE  RestoredIsCapped'
    <2>1. busy' \in SUBSET Sessions
      OBVIOUS
    <2>2. Cardinality(restored') \in Nat /\ Cardinality(busy') \in Nat
      BY <1>2, <2>1, SubsetOfSessions
    <2> QED
      BY <1>0, <1>2, <2>2 DEF RestoredIsCapped
  <1>3. ASSUME NEW s \in Sessions, EvictInsert(s) PROVE RestoredIsCapped'
    <2>1. restored' = restored \cup {s}
      BY <1>3 DEF EvictInsert
    <2>2. s \notin busy /\ busy' = busy \cup {s}
      BY <1>3, TypeOK DEF EvictInsert, EvStep, Capping, TypeOK
    <2>3. Cardinality(restored') <= Cardinality(restored) + 1
      <3>1. Cardinality(restored') = IF s \in restored THEN Cardinality(restored)
                                     ELSE Cardinality(restored) + 1
        BY <1>0, <2>1, FS_AddElement
      <3> QED
        BY <1>0, <3>1
    <2>4. Cardinality(busy') = Cardinality(busy) + 1
      BY <1>0, <2>2, FS_AddElement
    <2>5. Cardinality(restored') \in Nat
      BY <1>0, <2>1, FS_AddElement, FS_CardinalityType
    <2> QED
      BY <1>0, <2>3, <2>4, <2>5, RestoredIsCapped DEF RestoredIsCapped
  <1>4. ASSUME NEW s \in Sessions, EvictCapped(s) PROVE RestoredIsCapped'
    <2>1. restored' = restored /\ Cardinality(restored) <= MaxStored
      BY <1>0, <1>4 DEF EvictCapped, OverCap
    <2> QED
      BY <1>2, <2>1, TypeOK DEF TypeOK
  <1>5. ASSUME Start PROVE RestoredIsCapped'
    BY <1>2, <1>5 DEF Start, Rows
  <1>6. ASSUME Stop PROVE RestoredIsCapped'
    BY <1>0, <1>2, <1>6, FS_EmptySet DEF Stop
  <1> HIDE DEF busy
  <1>7. ASSUME NEW h \in Handlers, CreateLook(h) PROVE RestoredIsCapped'
    <2>1. restored' \subseteq restored /\ busy \subseteq busy'
      BY <1>7, TypeOK, NamedInv, CreatorInv
      DEF CreateLook, HStep, TypeOK, NamedInv, Named, CreatorInv, Creating,
          Capping, busy
    <2> QED
      BY <1>1, <2>1
  <1>8. ASSUME restored' \subseteq restored, evPc' = evPc PROVE RestoredIsCapped'
    BY <1>1, <1>8 DEF busy
  <1>9. ASSUME NEW h \in Handlers, Handler(h) \/ Request(h)
        PROVE  RestoredIsCapped'
    BY <1>7, <1>8, <1>9 DEF Handler, Request, HStep, Draw, Send,
       CreateReserve, CreateSpawn, CreateFails, CreateInsert, CreateWatch,
       HandlerDraws, CreateDone, KillRequest, KillGetLive, KillGetNone,
       KillMark, KillMarkFails, KillRemove, KillUnrestore, KillUnname,
       KillErase, KillDone
  <1>10. ASSUME NEW s \in Sessions, Output(s) \/ MarkExited(s) \/ Io(s) \/ Saver(s)
         PROVE  RestoredIsCapped'
    BY <1>8, <1>10 DEF Output, MarkExited, Io, FinalCheck, FinalSave, Notify,
       Saver, FlushCapture, FlushSave, IoStep
  <1>11. ASSUME NEW s \in Sessions, Forwarder(s) PROVE RestoredIsCapped'
    <2>1. ASSUME EvictNotice(s) \/ EvictGet(s) \/ EvictCheck(s) \/ EvictName(s)
                 \/ (\E o \in Sessions : EvictPick(s, o)) \/ EvictDrop(s)
                 \/ EvictUnname(s) \/ EvictErase(s) \/ EvictRemove(s)
                 \/ EvictFree(s) \/ EvictDraw(s) \/ EvictDone(s)
          PROVE  restored' \subseteq restored /\ busy \subseteq busy'
      BY <2>1, TypeOK
      DEF EvictNotice, EvictGet, EvictCheck, EvictName, EvictPick, EvictDrop,
          EvictUnname, EvictErase, EvictRemove, EvictFree, EvictDraw, EvictDone,
          EvStep, TypeOK, Capping, busy
    <2> QED
      BY <1>1, <1>3, <1>4, <1>11, <2>1 DEF Forwarder
  <1>12. CASE Shutdown
    BY <1>8, <1>12 DEF Shutdown
  <1>13. CASE UNCHANGED vars
    BY <1>8, <1>13
  <1> QED
    BY <1>5, <1>6, <1>9, <1>10, <1>11, <1>12, <1>13 DEF Next

-----------------------------------------------------------------------------
(***************************************************************************)
(* The published list.                                                     *)
(***************************************************************************)
LEMMA ListStep ==
  ASSUME TypeOK, DownInv, NamedInv, CreatorInv, ListInv, [Next]_vars
  PROVE  ListInv'
  <1> USE DEF vars, appVars, nameVars, listVars, objectVars, ioVars, saveVars,
              evictVars, handlerVars, boundVars
  <1>1. ASSUME NEW h \in Handlers, NEW s \in Sessions, NEW n \in Names,
               CreateReserve(h, s, n)
        PROVE  ListInv'
    BY <1>1, TypeOK, DownInv, NamedInv, CreatorInv, ListInv,
       RegistryAssumption DEF CreateReserve, TypeOK, DownInv, NamedInv, Named,
       CreatorInv, Creating, ListInv, Stale, Sending, Summaries, Publishers,
       Capping, HStep, EvStep, Draw, Send, NoTask, Idle
  <1>2. ASSUME NEW h \in Handlers, CreateSpawn(h) PROVE ListInv'
    BY <1>2, TypeOK, DownInv, NamedInv, CreatorInv, ListInv,
       RegistryAssumption DEF CreateSpawn, TypeOK, DownInv, NamedInv, Named,
       CreatorInv, Creating, ListInv, Stale, Sending, Summaries, Publishers,
       Capping, HStep, EvStep, Draw, Send, NoTask, Idle
  <1>3. ASSUME NEW h \in Handlers, CreateFails(h) PROVE ListInv'
    BY <1>3, TypeOK, DownInv, NamedInv, CreatorInv, ListInv,
       RegistryAssumption DEF CreateFails, TypeOK, DownInv, NamedInv, Named,
       CreatorInv, Creating, ListInv, Stale, Sending, Summaries, Publishers,
       Capping, HStep, EvStep, Draw, Send, NoTask, Idle
  <1>4. ASSUME NEW h \in Handlers, CreateInsert(h) PROVE ListInv'
    BY <1>4, TypeOK, DownInv, NamedInv, CreatorInv, ListInv,
       RegistryAssumption DEF CreateInsert, TypeOK, DownInv, NamedInv, Named,
       CreatorInv, Creating, ListInv, Stale, Sending, Summaries, Publishers,
       Capping, HStep, EvStep, Draw, Send, NoTask, Idle
  <1>5. ASSUME NEW h \in Handlers, CreateWatch(h) PROVE ListInv'
    BY <1>5, TypeOK, DownInv, NamedInv, CreatorInv, ListInv,
       RegistryAssumption DEF CreateWatch, TypeOK, DownInv, NamedInv, Named,
       CreatorInv, Creating, ListInv, Stale, Sending, Summaries, Publishers,
       Capping, HStep, EvStep, Draw, Send, NoTask, Idle
  <1>6. ASSUME NEW h \in Handlers, CreateLook(h) PROVE ListInv'
    BY <1>6, TypeOK, DownInv, NamedInv, CreatorInv, ListInv,
       RegistryAssumption DEF CreateLook, TypeOK, DownInv, NamedInv, Named,
       CreatorInv, Creating, ListInv, Stale, Sending, Summaries, Publishers,
       Capping, HStep, EvStep, Draw, Send, NoTask, Idle
  <1>7. ASSUME NEW h \in Handlers, HandlerDraws(h) PROVE ListInv'
    BY <1>7, TypeOK, DownInv, NamedInv, CreatorInv, ListInv,
       RegistryAssumption DEF HandlerDraws, TypeOK, DownInv, NamedInv, Named,
       CreatorInv, Creating, ListInv, Stale, Sending, Summaries, Publishers,
       Capping, HStep, EvStep, Draw, Send, NoTask, Idle
  <1>8. ASSUME NEW h \in Handlers, CreateDone(h) PROVE ListInv'
    BY <1>8, TypeOK, DownInv, NamedInv, CreatorInv, ListInv,
       RegistryAssumption DEF CreateDone, TypeOK, DownInv, NamedInv, Named,
       CreatorInv, Creating, ListInv, Stale, Sending, Summaries, Publishers,
       Capping, HStep, EvStep, Draw, Send, NoTask, Idle
  <1>9. ASSUME NEW h \in Handlers, NEW s \in Sessions, KillRequest(h, s)
        PROVE  ListInv'
    BY <1>9, TypeOK, DownInv, NamedInv, CreatorInv, ListInv,
       RegistryAssumption DEF KillRequest, TypeOK, DownInv, NamedInv, Named,
       CreatorInv, Creating, ListInv, Stale, Sending, Summaries, Publishers,
       Capping, HStep, EvStep, Draw, Send, NoTask, Idle
  <1>10. ASSUME NEW h \in Handlers, KillGetLive(h) PROVE ListInv'
    BY <1>10, TypeOK, DownInv, NamedInv, CreatorInv, ListInv,
       RegistryAssumption DEF KillGetLive, TypeOK, DownInv, NamedInv, Named,
       CreatorInv, Creating, ListInv, Stale, Sending, Summaries, Publishers,
       Capping, HStep, EvStep, Draw, Send, NoTask, Idle
  <1>11. ASSUME NEW h \in Handlers, KillGetNone(h) PROVE ListInv'
    BY <1>11, TypeOK, DownInv, NamedInv, CreatorInv, ListInv,
       RegistryAssumption DEF KillGetNone, TypeOK, DownInv, NamedInv, Named,
       CreatorInv, Creating, ListInv, Stale, Sending, Summaries, Publishers,
       Capping, HStep, EvStep, Draw, Send, NoTask, Idle
  <1>12. ASSUME NEW h \in Handlers, KillMark(h) PROVE ListInv'
    BY <1>12, TypeOK, DownInv, NamedInv, CreatorInv, ListInv,
       RegistryAssumption DEF KillMark, TypeOK, DownInv, NamedInv, Named,
       CreatorInv, Creating, ListInv, Stale, Sending, Summaries, Publishers,
       Capping, HStep, EvStep, Draw, Send, NoTask, Idle
  <1>13. ASSUME NEW h \in Handlers, KillMarkFails(h) PROVE ListInv'
    BY <1>13, TypeOK, DownInv, NamedInv, CreatorInv, ListInv,
       RegistryAssumption DEF KillMarkFails, TypeOK, DownInv, NamedInv, Named,
       CreatorInv, Creating, ListInv, Stale, Sending, Summaries, Publishers,
       Capping, HStep, EvStep, Draw, Send, NoTask, Idle
  <1>14. ASSUME NEW h \in Handlers, KillRemove(h) PROVE ListInv'
    BY <1>14, TypeOK, DownInv, NamedInv, CreatorInv, ListInv,
       RegistryAssumption DEF KillRemove, TypeOK, DownInv, NamedInv, Named,
       CreatorInv, Creating, ListInv, Stale, Sending, Summaries, Publishers,
       Capping, HStep, EvStep, Draw, Send, NoTask, Idle
  <1>15. ASSUME NEW h \in Handlers, KillUnrestore(h) PROVE ListInv'
    BY <1>15, TypeOK, DownInv, NamedInv, CreatorInv, ListInv,
       RegistryAssumption DEF KillUnrestore, TypeOK, DownInv, NamedInv, Named,
       CreatorInv, Creating, ListInv, Stale, Sending, Summaries, Publishers,
       Capping, HStep, EvStep, Draw, Send, NoTask, Idle
  <1>16. ASSUME NEW h \in Handlers, KillUnname(h) PROVE ListInv'
    BY <1>16, TypeOK, DownInv, NamedInv, CreatorInv, ListInv,
       RegistryAssumption DEF KillUnname, TypeOK, DownInv, NamedInv, Named,
       CreatorInv, Creating, ListInv, Stale, Sending, Summaries, Publishers,
       Capping, HStep, EvStep, Draw, Send, NoTask, Idle
  <1>17. ASSUME NEW h \in Handlers, KillErase(h) PROVE ListInv'
    BY <1>17, TypeOK, DownInv, NamedInv, CreatorInv, ListInv,
       RegistryAssumption DEF KillErase, TypeOK, DownInv, NamedInv, Named,
       CreatorInv, Creating, ListInv, Stale, Sending, Summaries, Publishers,
       Capping, HStep, EvStep, Draw, Send, NoTask, Idle
  <1>18. ASSUME NEW h \in Handlers, KillDone(h) PROVE ListInv'
    BY <1>18, TypeOK, DownInv, NamedInv, CreatorInv, ListInv,
       RegistryAssumption DEF KillDone, TypeOK, DownInv, NamedInv, Named,
       CreatorInv, Creating, ListInv, Stale, Sending, Summaries, Publishers,
       Capping, HStep, EvStep, Draw, Send, NoTask, Idle
  <1>19. ASSUME NEW s \in Sessions, EvictNotice(s) PROVE ListInv'
    BY <1>19, TypeOK, DownInv, NamedInv, CreatorInv, ListInv,
       RegistryAssumption DEF EvictNotice, TypeOK, DownInv, NamedInv, Named,
       CreatorInv, Creating, ListInv, Stale, Sending, Summaries, Publishers,
       Capping, HStep, EvStep, Draw, Send, NoTask, Idle
  <1>20. ASSUME NEW s \in Sessions, EvictGet(s) PROVE ListInv'
    BY <1>20, TypeOK, DownInv, NamedInv, CreatorInv, ListInv,
       RegistryAssumption DEF EvictGet, TypeOK, DownInv, NamedInv, Named,
       CreatorInv, Creating, ListInv, Stale, Sending, Summaries, Publishers,
       Capping, HStep, EvStep, Draw, Send, NoTask, Idle
  <1>21. ASSUME NEW s \in Sessions, EvictCheck(s) PROVE ListInv'
    BY <1>21, TypeOK, DownInv, NamedInv, CreatorInv, ListInv,
       RegistryAssumption DEF EvictCheck, TypeOK, DownInv, NamedInv, Named,
       CreatorInv, Creating, ListInv, Stale, Sending, Summaries, Publishers,
       Capping, HStep, EvStep, Draw, Send, NoTask, Idle
  <1>22. ASSUME NEW s \in Sessions, EvictName(s) PROVE ListInv'
    BY <1>22, TypeOK, DownInv, NamedInv, CreatorInv, ListInv,
       RegistryAssumption DEF EvictName, TypeOK, DownInv, NamedInv, Named,
       CreatorInv, Creating, ListInv, Stale, Sending, Summaries, Publishers,
       Capping, HStep, EvStep, Draw, Send, NoTask, Idle
  <1>23. ASSUME NEW s \in Sessions, EvictInsert(s) PROVE ListInv'
    BY <1>23, TypeOK, DownInv, NamedInv, CreatorInv, ListInv,
       RegistryAssumption DEF EvictInsert, TypeOK, DownInv, NamedInv, Named,
       CreatorInv, Creating, ListInv, Stale, Sending, Summaries, Publishers,
       Capping, HStep, EvStep, Draw, Send, NoTask, Idle
  <1>24. ASSUME NEW s \in Sessions, NEW o \in Sessions, EvictPick(s, o)
         PROVE  ListInv'
    BY <1>24, TypeOK, DownInv, NamedInv, CreatorInv, ListInv,
       RegistryAssumption DEF EvictPick, TypeOK, DownInv, NamedInv, Named,
       CreatorInv, Creating, ListInv, Stale, Sending, Summaries, Publishers,
       Capping, HStep, EvStep, Draw, Send, NoTask, Idle
  <1>25. ASSUME NEW s \in Sessions, EvictDrop(s) PROVE ListInv'
    BY <1>25, TypeOK, DownInv, NamedInv, CreatorInv, ListInv,
       RegistryAssumption DEF EvictDrop, TypeOK, DownInv, NamedInv, Named,
       CreatorInv, Creating, ListInv, Stale, Sending, Summaries, Publishers,
       Capping, HStep, EvStep, Draw, Send, NoTask, Idle
  <1>26. ASSUME NEW s \in Sessions, EvictUnname(s) PROVE ListInv'
    BY <1>26, TypeOK, DownInv, NamedInv, CreatorInv, ListInv,
       RegistryAssumption DEF EvictUnname, TypeOK, DownInv, NamedInv, Named,
       CreatorInv, Creating, ListInv, Stale, Sending, Summaries, Publishers,
       Capping, HStep, EvStep, Draw, Send, NoTask, Idle
  <1>27. ASSUME NEW s \in Sessions, EvictErase(s) PROVE ListInv'
    BY <1>27, TypeOK, DownInv, NamedInv, CreatorInv, ListInv,
       RegistryAssumption DEF EvictErase, TypeOK, DownInv, NamedInv, Named,
       CreatorInv, Creating, ListInv, Stale, Sending, Summaries, Publishers,
       Capping, HStep, EvStep, Draw, Send, NoTask, Idle
  <1>28. ASSUME NEW s \in Sessions, EvictCapped(s) PROVE ListInv'
    BY <1>28, TypeOK, DownInv, NamedInv, CreatorInv, ListInv,
       RegistryAssumption DEF EvictCapped, TypeOK, DownInv, NamedInv, Named,
       CreatorInv, Creating, ListInv, Stale, Sending, Summaries, Publishers,
       Capping, HStep, EvStep, Draw, Send, NoTask, Idle
  <1>29. ASSUME NEW s \in Sessions, EvictRemove(s) PROVE ListInv'
    BY <1>29, TypeOK, DownInv, NamedInv, CreatorInv, ListInv,
       RegistryAssumption DEF EvictRemove, TypeOK, DownInv, NamedInv, Named,
       CreatorInv, Creating, ListInv, Stale, Sending, Summaries, Publishers,
       Capping, HStep, EvStep, Draw, Send, NoTask, Idle
  <1>30. ASSUME NEW s \in Sessions, EvictFree(s) PROVE ListInv'
    BY <1>30, TypeOK, DownInv, NamedInv, CreatorInv, ListInv,
       RegistryAssumption DEF EvictFree, TypeOK, DownInv, NamedInv, Named,
       CreatorInv, Creating, ListInv, Stale, Sending, Summaries, Publishers,
       Capping, HStep, EvStep, Draw, Send, NoTask, Idle
  <1>31. ASSUME NEW s \in Sessions, EvictDraw(s) PROVE ListInv'
    <2>1. CASE Sending = {}
      <3>1. Sending' = {s} /\ drawn'[s] = Summaries'
        BY <1>31, <2>1, TypeOK, RegistryAssumption
        DEF EvictDraw, EvStep, Draw, Sending, Summaries, TypeOK, Publishers
      <3> QED
        BY <3>1 DEF ListInv
    <2>2. CASE Sending # {}
      BY <1>31, <2>2 DEF EvictDraw, Draw, ListInv
    <2> QED
      BY <2>1, <2>2
  <1>32. ASSUME NEW s \in Sessions, EvictDone(s) PROVE ListInv'
    BY <1>32, TypeOK, DownInv, NamedInv, CreatorInv, ListInv,
       RegistryAssumption DEF EvictDone, TypeOK, DownInv, NamedInv, Named,
       CreatorInv, Creating, ListInv, Stale, Sending, Summaries, Publishers,
       Capping, HStep, EvStep, Draw, Send, NoTask, Idle
  <1>33. ASSUME Stop PROVE ListInv'
    BY <1>33, TypeOK, DownInv, NamedInv, CreatorInv, ListInv,
       RegistryAssumption DEF Stop, TypeOK, DownInv, NamedInv, Named,
       CreatorInv, Creating, ListInv, Stale, Sending, Summaries, Publishers,
       Capping, HStep, EvStep, Draw, Send, NoTask, Idle
  <1>34. ASSUME Start PROVE ListInv'
    BY <1>34, TypeOK, DownInv, NamedInv, CreatorInv, ListInv,
       RegistryAssumption DEF Start, TypeOK, DownInv, NamedInv, Named,
       CreatorInv, Creating, ListInv, Stale, Sending, Summaries, Publishers,
       Capping, HStep, EvStep, Draw, Send, NoTask, Idle
  <1>35. ASSUME UNCHANGED <<up, live, restored, listVars, hPc, evPc>> PROVE ListInv'
    BY <1>35 DEF TypeOK, DownInv, NamedInv, Named, CreatorInv, Creating,
       ListInv, Stale, Sending, Summaries, Publishers, Capping, HStep, EvStep,
       Draw, Send, NoTask, Idle
  <1>36. ASSUME NEW s \in Sessions,
              Output(s) \/ MarkExited(s) \/ FinalCheck(s) \/ FinalSave(s) \/
              Notify(s)
         PROVE  ListInv'
    BY <1>36, <1>35 DEF HStep, EvStep, IoStep, Draw, Send, Output, MarkExited,
       FinalCheck, FinalSave, Notify
  <1>37. ASSUME NEW s \in Sessions, NEW t \in Savers,
              FlushCapture(s, t) \/ FlushSave(s, t)
         PROVE  ListInv'
    BY <1>37, <1>35 DEF HStep, EvStep, IoStep, Draw, Send, FlushCapture,
       FlushSave
  <1>38. ASSUME Shutdown PROVE ListInv'
    BY <1>38, <1>35 DEF HStep, EvStep, IoStep, Draw, Send, Shutdown
  <1> QED
    BY <1>1, <1>2, <1>3, <1>4, <1>5, <1>6, <1>7, <1>8, <1>9, <1>10, <1>11,
       <1>12, <1>13, <1>14, <1>15, <1>16, <1>17, <1>18, <1>19, <1>20, <1>21,
       <1>22, <1>23, <1>24, <1>25, <1>26, <1>27, <1>28, <1>29, <1>30, <1>31,
       <1>32, <1>33, <1>34, <1>35, <1>36, <1>37, <1>38 DEF Next, Handler,
       Request, Io, Saver, Forwarder

-----------------------------------------------------------------------------

LEMMA InitIInv == Init => IInv
  <1> SUFFICES ASSUME Init PROVE IInv
    OBVIOUS
  <1> USE DEF Init, NoTask, Idle
  <1>1. TypeOK
    <2>1. /\ savePc \in [Sessions -> [Savers -> SavePcs]]
          /\ snap \in [Sessions -> [Savers -> {"partial", "final"}]]
      BY DEF NoSaves, NoSnaps, SavePcs
    <2>2. kills \in 0..MaxKills /\ crashes \in 0..MaxCrashes
      BY RegistryAssumption
    <2> QED
      BY <2>1, <2>2 DEF TypeOK, Unset, NoneDrawn, IoPcs, EvPcs, HPcs
  <1>2. DownInv
    BY DEF DownInv
  <1>3. NamedInv
    BY <1>1 DEF NamedInv, Named, TypeOK, NoSaves
  <1>4. CreatorInv /\ KillInv /\ KeptInv /\ LeakInv
    BY DEF CreatorInv, Creating, KillInv, Killing, KeptInv, NoLostSession,
           Capping, LeakInv
  <1>5. UniqueInv
    BY DEF UniqueInv, Named
  <1>6. ListInv
    BY DEF ListInv, Sending
  <1>7. RestoredIsCapped
    <2>1. {s \in Sessions : evPc[s] \in Capping} \in SUBSET Sessions
      OBVIOUS
    <2>2. Cardinality({s \in Sessions : evPc[s] \in Capping}) \in Nat
      BY <2>1, SubsetOfSessions
    <2> QED
      BY <2>2, FS_EmptySet, RegistryAssumption DEF RestoredIsCapped
  <1> QED
    BY <1>1, <1>2, <1>3, <1>4, <1>5, <1>6, <1>7 DEF IInv

LEMMA IInvStep ==
  ASSUME IInv, [Next]_vars
  PROVE  IInv'
  <1> USE DEF IInv
  <1>1. TypeOK' /\ NamedInv' /\ DownInv'
    BY TypeStep, NamedStep, DownStep
  <1>2. CreatorInv' /\ KillInv' /\ KeptInv'
    BY CreatorStep, KillStep, KeptStep
  <1>3. LeakInv' /\ UniqueInv'
    BY LeakStep, UniqueStep
  <1>4. ListInv' /\ RestoredIsCapped'
    BY ListStep, CappedStep
  <1> QED
    BY <1>1, <1>2, <1>3, <1>4

LEMMA RegistryInductive == Spec => []IInv
  BY InitIInv, IInvStep, PTL DEF Spec

-----------------------------------------------------------------------------

\* With nothing in progress only the maps can account for a name.

LEMMA QuietLeaks ==
  ASSUME IInv
  PROVE  NoNameLeak
  <1> SUFFICES ASSUME Quiet, NEW n \in names
               PROVE  n \in {nameOf[s] : s \in live \cup restored}
    BY DEF NoNameLeak
  <1>1. PICK s \in Sessions : nameOf[s] = n /\ Accounted(s)
    BY DEF IInv, LeakInv, Reserved
  <1>2. s \in live \cup restored
    BY <1>1 DEF Quiet, Accounted, Capping
  <1> QED
    BY <1>1, <1>2

(***************************************************************************)
(* The books of the registry agree in every reachable state: types, no     *)
(* session lost between the maps, no name leaked, and the restored map     *)
(* within its cap (AppState, ipc.rs:180-330 and 1180-1345).                *)
(***************************************************************************)
THEOREM RegistryBooksAgree == Spec => []RegistryInv
  <1>1. IInv => RegistryInv
    BY QuietLeaks DEF IInv, RegistryInv, KeptInv
  <1> QED
    BY <1>1, RegistryInductive, PTL

(***************************************************************************)
(* Two sessions share a name only after it was freed while one of them had *)
(* it (reserve_new_session_name, ipc.rs:1320-1345).                        *)
(***************************************************************************)
THEOREM ReservedNamesAreUnique == Spec => []UniqueNamesUnlessFreed
  <1>1. IInv => UniqueNamesUnlessFreed
    BY DEF IInv, NamedInv, UniqueInv, UniqueNamesUnlessFreed
  <1> QED
    BY <1>1, RegistryInductive, PTL

(***************************************************************************)
(* The last list published is the list of the sessions once nothing is in  *)
(* progress, unless two publications crossed (publish_session_list,        *)
(* ipc.rs:258).                                                            *)
(***************************************************************************)
THEOREM PublishedListIsCurrent == Spec => []LastListIsCurrentIfUncrossed
  <1>1. ASSUME ListInv, Quiet, published, ~crossed PROVE list = Summaries
    <2>1. Sending = {} /\ Stale = {}
      BY <1>1 DEF Quiet, Sending, Stale, Capping
    <2> QED
      BY <1>1, <2>1 DEF ListInv
  <1>2. IInv => LastListIsCurrentIfUncrossed
    BY <1>1 DEF IInv, LastListIsCurrentIfUncrossed
  <1> QED
    BY <1>2, RegistryInductive, PTL
=============================================================================
