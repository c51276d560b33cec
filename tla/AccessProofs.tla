---------------------------- MODULE AccessProofs ---------------------------
(***************************************************************************)
(* Proofs about Access, for any number of devices, connections, codes and  *)
(* removals, and for every environment.                                    *)
(***************************************************************************)
EXTENDS Access, FiniteSetTheorems, TLAPS

-----------------------------------------------------------------------------
(***************************************************************************)
(* The inductive invariant, part by part.                                  *)
(***************************************************************************)

ConnPcs == {"hello", "watch", "mark", "recheck", "loop", "pair", "unpair",
            "forward", "push", "clear", "erase", "forget", "revoke",
            "unregister", "wait", "save", "insert", "completed"}

Connection == [pc : ConnPcs, d : Devices, v5 : BOOLEAN, permit : BOOLEAN,
               paired : BOOLEAN, seen : Nat \cup {None}, fwd : Nat \cup {None},
               req : RequestIds \cup {None}]

Removal == [pc : {"erase", "forget", "revoke", "unregister"}, d : Devices]

PairingRequest == [d : Devices, k : CodeIds]

\* The shapes of all the parts of the state.
ManagerTyped ==
  /\ code \in ActiveCode \cup {None} /\ codes \in 0 .. MaxCodes
  /\ requests \in Seq(PairingRequest) /\ Len(requests) <= MaxRequests
  /\ approvals \subseteq 1 .. Len(requests)
  /\ prompts \subseteq 1 .. Len(requests)
  /\ approved \subseteq 1 .. Len(requests)
  /\ answers \in [RequestIds -> BOOLEAN \cup {None}]
  /\ wrong \in [CodeIds -> Nat] /\ granted \in [CodeIds -> SUBSET Devices]

RegistryTyped ==
  /\ devices \in [Devices -> StoredDevice \cup {None}]
  /\ rows \in [Devices -> StoredDevice \cup {None}]
  /\ revision \in [Devices -> Nat] /\ pushed \subseteq Tokens
  /\ taken \in [Conns \cup {None} -> Tokens \cup {None}]

ConnsTyped ==
  /\ scenario \in Scenario
  /\ remover \in Removal \cup {Quiet}
  /\ conn \in [Conns -> Connection \cup {Closed}]

Typed == ManagerTyped /\ RegistryTyped /\ ConnsTyped

\* What a connection watches for is a revision its device has had.
SeenInv ==
  \A c \in Conns : conn[c] # Closed =>
    /\ conn[c].seen \in {None} \cup 0 .. revision[conn[c].d]
    /\ conn[c].fwd \in {None} \cup 0 .. revision[conn[c].d]
    /\ conn[c].paired /\ conn[c].pc \notin {"watch", "completed"} =>
         conn[c].seen # None

\* A request is of a code that is used up, and no two are of the same code.
CodeInv ==
  /\ code # None => /\ code.id <= codes
                    /\ wrong[code.id] = code.attempts
                    /\ code.attempts < MaxAttempts
  /\ \A k \in CodeIds : k > codes => wrong[k] = 0
  /\ \A i \in 1 .. Len(requests) :
       /\ requests[i].k <= codes
       /\ code # None => requests[i].k # code.id
       /\ \A j \in 1 .. Len(requests) : requests[i].k = requests[j].k => i = j

\* Only the operator agrees.
AnsweredInv == \A i \in RequestIds : answers[i] = TRUE => i \in approved

\* Who is about to be paired has asked for it, and was approved.
AskedInv ==
  \A c \in Conns : conn[c].pc \in {"wait", "save", "insert"} =>
    /\ conn[c].req \in 1 .. Len(requests)
    /\ requests[conn[c].req].d = conn[c].d
    /\ conn[c].pc # "wait" => conn[c].req \in approved

\* Who was paired by a code is the device of its request.
GrantedInv ==
  \A k \in CodeIds : \A d \in granted[k] :
    \E i \in 1 .. Len(requests) : requests[i].d = d /\ requests[i].k = k

\* The devices that are being removed.
Leaving == {d \in Devices : Removing(d)}

\* The devices whose connections are about to be told.
Telling == {d \in Devices : RemovalAt(d, {"revoke"})}

\* A settled device, and one that is about to be, is stored and not removed.
KeptInv ==
  /\ PairingIsKept
  /\ settled \subseteq Devices \ Leaving
  /\ \A c \in calm : /\ c \in Conns /\ conn[c].pc = "insert"
                     /\ rows[conn[c].d] # None
                     /\ conn[c].d \notin Leaving

\* A removal that fell after the check of a request is seen by the watcher its
\* forwarder gets.
ToldInv ==
  up => \A c \in Conns :
    /\ conn[c].pc = "forward" => conn[c].paired
    /\ conn[c].pc = "forward" =>
         \/ is_device_paired(conn[c].d)
         \/ conn[c].seen # None /\ conn[c].seen < revision[conn[c].d]
         \/ conn[c].d \in Telling
    /\ conn[c] # Closed /\ conn[c].fwd # None =>
         \/ is_device_paired(conn[c].d) \/ conn[c].fwd < revision[conn[c].d]
         \/ conn[c].d \in Telling

\* Device d holds token t in the map, and on disk unless its row has just been
\* erased.
HoldsAt(d, t) ==
  /\ is_device_paired(d) /\ devices[d].token = t
  /\ d \in Going \/ (rows[d] # None /\ rows[d].token = t)

\* The steps of a removal that has taken out the entry.
AfterEntry == {"revoke", "unregister"}

\* A token the dispatcher has is that of an entry, or of a removal that has
\* taken the entry out; of a row, when the daemon does not run.
TokenInv ==
  \A t \in pushed \ leaked :
    /\ up => \/ \E d \in Devices : HoldsAt(d, t)
             \/ \E who \in Conns \cup {None} : Pc(who) \in AfterEntry /\ taken[who] = t
    /\ ~up => \E d \in Devices : rows[d] # None /\ rows[d].token = t

\* A process that does not run has no connections.
DownInv ==
  ~up => remover = Quiet /\ \A c \in Conns : conn[c] = Closed

IInv ==
  /\ Typed /\ DownInv
  /\ SeenInv /\ CodeInv
  /\ OnlyApproved /\ AnsweredInv /\ AskedInv /\ GrantedInv
  /\ KeptInv /\ ToldInv /\ TokenInv

-----------------------------------------------------------------------------
(***************************************************************************)
(* Records.  What a step does to a connection, field by field.             *)
(***************************************************************************)
LEMMA OpenConn ==
  ASSUME Typed, NEW c \in Conns, conn[c].pc # "closed"
  PROVE  conn[c] \in Connection /\ conn[c] # Closed
  BY DEF Typed, ConnsTyped, Connection, Closed

LEMMA ConnFields ==
  ASSUME NEW k \in Connection
  PROVE  /\ k.pc \in ConnPcs /\ k.d \in Devices /\ k.v5 \in BOOLEAN
         /\ k.permit \in BOOLEAN /\ k.paired \in BOOLEAN
         /\ k.seen \in Nat \cup {None} /\ k.fwd \in Nat \cup {None}
         /\ k.req \in RequestIds \cup {None}
         /\ k # Closed /\ k.pc # "closed"
  BY DEF Connection, ConnPcs, Closed

\* The other connections are left alone.
OnlyConn(c) ==
  /\ UNCHANGED <<up, scenario, remover>>
  /\ \A x \in Conns \ {c} : conn'[x] = conn[x]

\* Connection c goes to pc, with these values of its fields.
Turn(c, pc, paired, seen, fwd, req) ==
  /\ OnlyConn(c)
  /\ conn'[c] \in Connection /\ conn'[c].d = conn[c].d
  /\ conn'[c].pc = pc /\ conn'[c].paired = paired
  /\ conn'[c].seen = seen /\ conn'[c].fwd = fwd /\ conn'[c].req = req
  /\ ConnsTyped'

\* Connection c goes to pc, with all the other fields as they were.
Step(c, pc) ==
  Turn(c, pc, conn[c].paired, conn[c].seen, conn[c].fwd, conn[c].req)

Closes(c) == OnlyConn(c) /\ conn'[c] = Closed /\ ConnsTyped'

LEMMA MovedTurn ==
  ASSUME Typed, NEW c \in Conns, NEW k \in Connection, Moved(c, k),
         k.d = conn[c].d
  PROVE  Turn(c, k.pc, k.paired, k.seen, k.fwd, k.req)
  <1>1. conn' = [conn EXCEPT ![c] = k] /\ UNCHANGED <<up, scenario, remover>>
    BY DEF Moved
  <1>2. conn'[c] = k /\ OnlyConn(c)
    BY <1>1 DEF Typed, ConnsTyped, OnlyConn
  <1>3. ConnsTyped'
    BY <1>1 DEF Typed, ConnsTyped
  <1> QED
    BY <1>2, <1>3 DEF Turn

LEMMA GotoTurn ==
  ASSUME Typed, NEW c \in Conns, conn[c].pc # "closed", NEW pc \in ConnPcs,
         Goto(c, pc)
  PROVE  Step(c, pc)
  <1> DEFINE k == [conn[c] EXCEPT !.pc = pc]
  <1>1. /\ k \in Connection /\ k.d = conn[c].d /\ k.pc = pc
        /\ k.paired = conn[c].paired /\ k.seen = conn[c].seen
        /\ k.fwd = conn[c].fwd /\ k.req = conn[c].req
    BY OpenConn DEF Connection
  <1>2. Moved(c, k)
    BY DEF Goto
  <1> HIDE DEF k
  <1>3. Turn(c, k.pc, k.paired, k.seen, k.fwd, k.req)
    BY <1>1, <1>2, MovedTurn
  <1> QED
    BY <1>1, <1>3 DEF Step

LEMMA CloseTurn ==
  ASSUME Typed, NEW c \in Conns, Close(c)
  PROVE  Closes(c)
  BY DEF Typed, ConnsTyped, Close, Moved, Closes, OnlyConn

LEMMA AcceptTurn ==
  ASSUME Typed, NEW c \in Conns, NEW d \in scenario.phones, NEW v5 \in BOOLEAN,
         Accept(c, d, v5)
  PROVE  /\ OnlyConn(c) /\ ConnsTyped' /\ conn[c] = Closed
         /\ conn'[c] \in Connection /\ conn'[c].d = d
         /\ conn'[c].pc = "hello" /\ ~conn'[c].paired
         /\ conn'[c].seen = None /\ conn'[c].fwd = None
  <1>1. Opened(d, v5) \in Connection
    BY DEF Typed, ConnsTyped, Scenario, Opened, Connection, ConnPcs
  <1>2. conn' = [conn EXCEPT ![c] = Opened(d, v5)]
    BY DEF Accept, Moved
  <1>3. conn[c] = Closed
    BY DEF Accept, At, Typed, ConnsTyped, Connection, ConnPcs, Closed
  <1>4. conn'[c] = Opened(d, v5) /\ OnlyConn(c)
    BY <1>2 DEF Typed, ConnsTyped, OnlyConn, Accept, Moved
  <1>5. ConnsTyped'
    BY <1>1, <1>2 DEF Typed, ConnsTyped, Accept, Moved
  <1> QED
    BY <1>1, <1>3, <1>4, <1>5 DEF Opened

LEMMA HelloTurn ==
  ASSUME Typed, NEW c \in Conns, Hello(c)
  PROVE  \/ Closes(c)
         \/ is_device_paired(conn[c].d) /\
            Turn(c, "watch", TRUE, conn[c].seen, conn[c].fwd, conn[c].req)
         \/ ~is_device_paired(conn[c].d) /\
            Turn(c, "loop", FALSE, conn[c].seen, conn[c].fwd, conn[c].req)
  <1> DEFINE p == is_device_paired(conn[c].d)
             k == [conn[c] EXCEPT !.paired = p, !.pc = IF p THEN "watch" ELSE "loop"]
  <1>0. conn[c] \in Connection
    BY OpenConn DEF Hello, At
  <1>1. p \in BOOLEAN
    BY DEF is_device_paired
  <1>2. Close(c) \/ Moved(c, k)
    BY DEF Hello
  <1> HIDE DEF p
  <1>3. /\ k \in Connection /\ k.d = conn[c].d /\ k.paired = p
        /\ k.pc = (IF p THEN "watch" ELSE "loop")
        /\ k.seen = conn[c].seen /\ k.fwd = conn[c].fwd /\ k.req = conn[c].req
    BY <1>0, <1>1 DEF Connection, ConnPcs
  <1> HIDE DEF k
  <1>4. CASE Moved(c, k)
    <2>1. Turn(c, k.pc, k.paired, k.seen, k.fwd, k.req)
      BY <1>3, <1>4, MovedTurn
    <2> QED
      BY <1>1, <1>3, <2>1 DEF p
  <1> QED
    BY <1>2, <1>4, CloseTurn

LEMMA WatchTurn ==
  ASSUME Typed, NEW c \in Conns, Watch(c)
  PROVE  Turn(c, IF conn[c].pc = "watch" THEN "mark" ELSE "loop", TRUE,
              revision[conn[c].d], conn[c].fwd, conn[c].req)
  <1> DEFINE k == [conn[c] EXCEPT !.seen = revision[conn[c].d], !.permit = FALSE,
                     !.paired = TRUE,
                     !.pc = IF @ = "watch" THEN "mark" ELSE "loop"]
  <1>0. conn[c] \in Connection
    BY OpenConn DEF Watch, At
  <1>9. revision[conn[c].d] \in Nat
    BY <1>0, ConnFields DEF Typed, RegistryTyped
  <1>1. /\ k \in Connection /\ k.d = conn[c].d
        /\ <<k.pc, k.paired, k.seen, k.fwd, k.req>> = 
             <<IF conn[c].pc = "watch" THEN "mark" ELSE "loop", TRUE,
               revision[conn[c].d], conn[c].fwd, conn[c].req>>
    BY <1>0, <1>9 DEF Connection, ConnPcs
  <1>2. Moved(c, k)
    BY DEF Watch
  <1> HIDE DEF k
  <1>3. Turn(c, k.pc, k.paired, k.seen, k.fwd, k.req)
    BY <1>1, <1>2, MovedTurn
  <1> QED
    BY <1>1, <1>3

LEMMA StartForwarderTurn ==
  ASSUME Typed, NEW c \in Conns, StartForwarder(c)
  PROVE  Turn(c, "loop", conn[c].paired, conn[c].seen, conn[c].seen, conn[c].req)
  <1> DEFINE k == [conn[c] EXCEPT !.pc = "loop", !.fwd = conn[c].seen]
  <1>0. conn[c] \in Connection
    BY OpenConn DEF StartForwarder, At
  <1>1. /\ k \in Connection /\ k.d = conn[c].d
        /\ <<k.pc, k.paired, k.seen, k.fwd, k.req>> = 
             <<"loop", conn[c].paired, conn[c].seen, conn[c].seen, conn[c].req>>
    BY <1>0 DEF Connection, ConnPcs
  <1>2. Moved(c, k)
    BY DEF StartForwarder
  <1> HIDE DEF k
  <1>3. Turn(c, k.pc, k.paired, k.seen, k.fwd, k.req)
    BY <1>1, <1>2, MovedTurn
  <1> QED
    BY <1>1, <1>3

LEMMA StopForwarderTurn ==
  ASSUME Typed, NEW c \in Conns, StopForwarder(c)
  PROVE  Turn(c, conn[c].pc, conn[c].paired, conn[c].seen, None, conn[c].req)
  <1> DEFINE k == [conn[c] EXCEPT !.fwd = None]
  <1>0. conn[c] \in Connection
    BY DEF StopForwarder, Typed, ConnsTyped
  <1>1. /\ k \in Connection /\ k.d = conn[c].d
        /\ <<k.pc, k.paired, k.seen, k.fwd, k.req>> = 
             <<conn[c].pc, conn[c].paired, conn[c].seen, None, conn[c].req>>
    BY <1>0 DEF Connection, ConnPcs
  <1>2. Moved(c, k)
    BY DEF StopForwarder
  <1> HIDE DEF k
  <1>3. Turn(c, k.pc, k.paired, k.seen, k.fwd, k.req)
    BY <1>1, <1>2, MovedTurn
  <1> QED
    BY <1>1, <1>3

LEMMA Unpaired ==
  ASSUME Typed, NEW c \in Conns, conn[c].pc # "closed", NEW k,
         k = [conn[c] EXCEPT !.pc = "loop", !.paired = FALSE, !.seen = None]
  PROVE  /\ k \in Connection /\ k.d = conn[c].d
         /\ <<k.pc, k.paired, k.seen, k.fwd, k.req>> =
              <<"loop", FALSE, None, conn[c].fwd, conn[c].req>>
  <1>1. conn[c] \in Connection
    BY OpenConn
  <1> QED
    BY <1>1 DEF Connection, ConnPcs

LEMMA UnpairSelfTurn ==
  ASSUME Typed, NEW c \in Conns, UnpairSelf(c)
  PROVE  \/ is_device_paired(conn[c].d) /\ Step(c, "erase")
         \/ ~is_device_paired(conn[c].d) /\
            Turn(c, "loop", FALSE, None, conn[c].fwd, conn[c].req)
  <1>1. conn[c].pc # "closed"
    BY DEF UnpairSelf, At
  <1>2. CASE is_device_paired(conn[c].d)
    BY <1>1, <1>2, GotoTurn DEF UnpairSelf, ConnPcs
  <1>3. CASE ~is_device_paired(conn[c].d)
    <2> DEFINE k == [conn[c] EXCEPT !.pc = "loop", !.paired = FALSE, !.seen = None]
    <2>1. Moved(c, k)
      BY <1>3 DEF UnpairSelf
    <2>2. /\ k \in Connection /\ k.d = conn[c].d
          /\ <<k.pc, k.paired, k.seen, k.fwd, k.req>> =
               <<"loop", FALSE, None, conn[c].fwd, conn[c].req>>
      BY <1>1, Unpaired
    <2> HIDE DEF k
    <2>3. Turn(c, k.pc, k.paired, k.seen, k.fwd, k.req)
      BY <2>1, <2>2, MovedTurn
    <2> QED
      BY <1>3, <2>2, <2>3
  <1> QED
    BY <1>2, <1>3

LEMMA ReqTurn ==
  ASSUME Typed, NEW c \in Conns, conn[c].pc # "closed", NEW pc \in ConnPcs,
         NEW i \in RequestIds \cup {None},
         Moved(c, [conn[c] EXCEPT !.pc = pc, !.req = i])
  PROVE  Turn(c, pc, conn[c].paired, conn[c].seen, conn[c].fwd, i)
  <1> DEFINE k == [conn[c] EXCEPT !.pc = pc, !.req = i]
  <1>1. conn[c] \in Connection
    BY OpenConn
  <1>2. /\ k \in Connection /\ k.d = conn[c].d
        /\ <<k.pc, k.paired, k.seen, k.fwd, k.req>> =
             <<pc, conn[c].paired, conn[c].seen, conn[c].fwd, i>>
    BY <1>1 DEF Connection
  <1>3. Moved(c, k)
    OBVIOUS
  <1> HIDE DEF k
  <1>4. Turn(c, k.pc, k.paired, k.seen, k.fwd, k.req)
    BY <1>2, <1>3, MovedTurn
  <1> QED
    BY <1>2, <1>4

LEMMA RightCodeTurn ==
  ASSUME Typed, NEW c \in Conns, RightCode(c)
  PROVE  \/ /\ approvals' = approvals \cup {Len(requests) + 1}
            /\ prompts' = prompts \cup {Len(requests) + 1}
            /\ Turn(c, "wait", conn[c].paired, conn[c].seen, conn[c].fwd,
                    Len(requests) + 1)
         \/ /\ UNCHANGED <<approvals, prompts>>
            /\ Turn(c, "loop", conn[c].paired, conn[c].seen, conn[c].fwd, None)
  <1> DEFINE i == Len(requests) + 1
             asked == code.id \notin lapsed /\ code.open
  <1>1. conn[c].pc # "closed" /\ i \in RequestIds
    BY AccessAssumption DEF RightCode, At, Typed, ManagerTyped, RequestIds
  <1>2. CASE asked
    <2>1. Moved(c, [conn[c] EXCEPT !.pc = "wait", !.req = i])
      BY <1>2 DEF RightCode
    <2>2. Turn(c, "wait", conn[c].paired, conn[c].seen, conn[c].fwd, i)
      BY <1>1, <2>1, ReqTurn DEF ConnPcs
    <2> QED
      BY <1>2, <2>2 DEF RightCode
  <1>3. CASE ~asked
    <2>1. Moved(c, [conn[c] EXCEPT !.pc = "loop", !.req = None])
      BY <1>3 DEF RightCode
    <2>2. Turn(c, "loop", conn[c].paired, conn[c].seen, conn[c].fwd, None)
      BY <1>1, <2>1, ReqTurn DEF ConnPcs
    <2> QED
      BY <1>3, <2>2 DEF RightCode
  <1> QED
    BY <1>2, <1>3

LEMMA WaitTurn ==
  ASSUME Typed, NEW c \in Conns, Wait(c)
  PROVE  \/ /\ answers[conn[c].req] # None /\ answers[conn[c].req]
            /\ UNCHANGED approvals
            /\ Turn(c, "save", conn[c].paired, conn[c].seen, conn[c].fwd,
                    conn[c].req)
         \/ /\ approvals' \subseteq approvals
            /\ Turn(c, "loop", conn[c].paired, conn[c].seen, conn[c].fwd, None)
  <1> DEFINE i == conn[c].req
  <1>1. conn[c].pc # "closed"
    BY DEF Wait, At
  <1>2. i \in RequestIds \cup {None}
    BY <1>1, OpenConn, ConnFields
  <1>3. CASE answers[i] # None /\ answers[i] /\ UNCHANGED approvals
             /\ Moved(c, [conn[c] EXCEPT !.pc = "save", !.req = i])
    BY <1>1, <1>2, <1>3, ReqTurn DEF ConnPcs
  <1>4. CASE approvals' \subseteq approvals
             /\ Moved(c, [conn[c] EXCEPT !.pc = "loop", !.req = None])
    BY <1>1, <1>4, ReqTurn DEF ConnPcs
  <1> QED
    BY <1>3, <1>4 DEF Wait, Agreed

LEMMA InsertDeviceTurn ==
  ASSUME Typed, NEW c \in Conns, InsertDevice(c)
  PROVE  Turn(c, "completed", conn[c].paired, conn[c].seen, conn[c].fwd, None)
  <1>1. conn[c].pc # "closed"
    BY DEF InsertDevice, At
  <1> QED
    BY <1>1, ReqTurn DEF InsertDevice, ConnPcs

LEMMA ReceiveTurn ==
  ASSUME Typed, NEW c \in Conns, NEW pc \in scenario.asks, Receive(c, pc)
  PROVE  \/ Closes(c)
         \/ StillPaired(c) /\ Allowed(c, pc) /\ pc \in Requests /\ Step(c, pc)
  <1>1. conn[c].pc # "closed"
    BY DEF Receive, At
  <1>2. pc \in Requests /\ pc \in ConnPcs
    BY DEF Typed, ConnsTyped, Scenario, Requests, ConnPcs
  <1> QED
    BY <1>1, <1>2, GotoTurn, CloseTurn DEF Receive

\* The row goes, or the removal is given up.
LEMMA EraseRowTurn ==
  ASSUME Typed, NEW who \in Conns \cup {None}, EraseRow(who)
  PROVE  \/ /\ who = None /\ remover \in Removal /\ remover.pc = "erase"
            /\ UNCHANGED <<conn, scenario, up>> /\ ConnsTyped'
            /\ \/ /\ rows' = [rows EXCEPT ![remover.d] = None]
                  /\ remover' \in Removal
                  /\ remover'.pc = "forget" /\ remover'.d = remover.d
               \/ UNCHANGED rows /\ remover' = Quiet
         \/ /\ who \in Conns /\ conn[who].pc = "erase"
            /\ \/ /\ rows' = [rows EXCEPT ![conn[who].d] = None]
                  /\ Step(who, "forget")
               \/ UNCHANGED rows /\ Step(who, "loop")
  <1>1. CASE who = None
    <2>1. remover \in Removal /\ remover.pc = "erase"
      BY <1>1 DEF EraseRow, Pc, Typed, ConnsTyped, Quiet
    <2>2. /\ [remover EXCEPT !.pc = "forget"] \in Removal
          /\ [remover EXCEPT !.pc = "forget"].pc = "forget"
          /\ [remover EXCEPT !.pc = "forget"].d = remover.d
      BY <2>1 DEF Removal
    <2>3. \/ /\ rows' = [rows EXCEPT ![remover.d] = None]
             /\ remover' = [remover EXCEPT !.pc = "forget"]
          \/ UNCHANGED rows /\ remover' = Quiet
      BY <1>1 DEF EraseRow, DeviceOf, Advance
    <2>4. UNCHANGED <<conn, scenario, up>>
      BY <1>1 DEF EraseRow, Advance
    <2>5. ConnsTyped'
      BY <2>2, <2>3, <2>4 DEF Typed, ConnsTyped
    <2> QED
      BY <1>1, <2>1, <2>2, <2>3, <2>4, <2>5
  <1>2. CASE who \in Conns
    <2>1. conn[who].pc = "erase" /\ who # None
      BY <1>2, AccessAssumption DEF EraseRow, Pc
    <2>2. /\ \/ rows' = [rows EXCEPT ![conn[who].d] = None] /\ Advance(who, "forget")
             \/ UNCHANGED rows /\ Advance(who, "loop")
          /\ UNCHANGED <<up, crashes, scenario>>
      BY <2>1 DEF EraseRow, DeviceOf
    <2>3. ASSUME NEW pc \in {"forget", "loop"}, Advance(who, pc) PROVE Step(who, pc)
      <3>1. conn' = [conn EXCEPT ![who].pc = pc] /\ UNCHANGED remover
        BY <2>1, <2>3 DEF Advance
      <3>2. Goto(who, pc)
        BY <2>2, <3>1 DEF Goto, Moved
      <3> QED
        BY <1>2, <2>1, <3>2, GotoTurn DEF ConnPcs
    <2> QED
      BY <1>2, <2>1, <2>2, <2>3
  <1> QED
    BY <1>1, <1>2

\* A removal goes from a step to the next one.
Proceeds(who, from, to) ==
  /\ DeviceOf(who) \in Devices
  /\ \/ /\ who = None /\ remover \in Removal /\ remover.pc = from
        /\ DeviceOf(who) = remover.d
        /\ UNCHANGED <<conn, scenario, up>> /\ ConnsTyped'
        /\ remover' \in Removal /\ remover'.pc = to /\ remover'.d = remover.d
     \/ /\ who \in Conns /\ conn[who].pc = from
        /\ DeviceOf(who) = conn[who].d /\ Step(who, to)

\* A removal that was at a step is done.
Ends(who, from) ==
  /\ DeviceOf(who) \in Devices
  /\ \/ /\ who = None /\ remover \in Removal /\ remover.pc = from
        /\ DeviceOf(who) = remover.d
        /\ UNCHANGED <<conn, scenario, up>> /\ ConnsTyped'
        /\ remover' = Quiet
     \/ /\ who \in Conns /\ conn[who].pc = from
        /\ DeviceOf(who) = conn[who].d
        /\ Turn(who, "loop", FALSE, None, conn[who].fwd, conn[who].req)

RemovalPcs == {"erase", "forget", "revoke", "unregister"}

LEMMA ProceedsTurn ==
  ASSUME Typed, NEW who \in Conns \cup {None}, NEW from \in RemovalPcs,
         NEW to \in RemovalPcs, Pc(who) = from, Advance(who, to),
         UNCHANGED <<up, crashes, scenario>>
  PROVE  Proceeds(who, from, to)
  <1>1. CASE who = None
    <2>1. remover \in Removal /\ remover.pc = from
      BY <1>1 DEF RemovalPcs, Pc, Typed, ConnsTyped, Quiet
    <2>2. /\ [remover EXCEPT !.pc = to] \in Removal
          /\ [remover EXCEPT !.pc = to].pc = to
          /\ [remover EXCEPT !.pc = to].d = remover.d
      BY <2>1 DEF Removal, RemovalPcs
    <2>3. remover' = [remover EXCEPT !.pc = to] /\ UNCHANGED conn
      BY <1>1 DEF Advance, RemovalPcs
    <2>4. ConnsTyped'
      BY <2>2, <2>3 DEF Typed, ConnsTyped
    <2> QED
      BY <1>1, <2>1, <2>2, <2>3, <2>4 DEF DeviceOf, Removal, Proceeds
  <1>2. CASE who \in Conns
    <2>1. conn[who].pc = from /\ who # None
      BY <1>2, AccessAssumption DEF Pc
    <2>2. Goto(who, to) /\ from # "closed" /\ to \in ConnPcs
      BY <2>1 DEF Advance, Goto, Moved, RemovalPcs, ConnPcs
    <2>3. Step(who, to)
      BY <1>2, <2>1, <2>2, GotoTurn
    <2>4. conn[who].d \in Devices
      BY <1>2, <2>1, <2>2, OpenConn, ConnFields
    <2> QED
      BY <1>2, <2>1, <2>3, <2>4 DEF DeviceOf, Proceeds
  <1> QED
    BY <1>1, <1>2

LEMMA EndsTurn ==
  ASSUME Typed, NEW who \in Conns \cup {None}, NEW from \in RemovalPcs,
         Pc(who) = from, Removed(who), UNCHANGED <<up, crashes, scenario>>
  PROVE  Ends(who, from)
  <1>1. CASE who = None
    <2>1. remover \in Removal /\ remover.pc = from
      BY <1>1 DEF RemovalPcs, Pc, Typed, ConnsTyped, Quiet
    <2>2. UNCHANGED conn /\ remover' = Quiet
      BY <1>1 DEF Removed
    <2>3. ConnsTyped'
      BY <2>2 DEF Typed, ConnsTyped
    <2> QED
      BY <1>1, <2>1, <2>2, <2>3 DEF DeviceOf, Removal, Ends
  <1>2. CASE who \in Conns
    <2> DEFINE k == [conn[who] EXCEPT !.pc = "loop", !.paired = FALSE, !.seen = None]
    <2>1. conn[who].pc = from /\ who # None /\ from # "closed"
      BY <1>2, AccessAssumption DEF Pc, RemovalPcs
    <2>2. Moved(who, k)
      BY <2>1 DEF Removed, Moved
    <2>3. /\ k \in Connection /\ k.d = conn[who].d
          /\ <<k.pc, k.paired, k.seen, k.fwd, k.req>> =
               <<"loop", FALSE, None, conn[who].fwd, conn[who].req>>
      BY <1>2, <2>1, Unpaired
    <2> HIDE DEF k
    <2>4. Turn(who, k.pc, k.paired, k.seen, k.fwd, k.req)
      BY <1>2, <2>2, <2>3, MovedTurn
    <2>5. conn[who].d \in Devices
      BY <1>2, <2>1, OpenConn, ConnFields
    <2> QED
      BY <1>2, <2>1, <2>3, <2>4, <2>5 DEF DeviceOf, Ends
  <1> QED
    BY <1>1, <1>2

LEMMA ForgetDeviceTurn ==
  ASSUME Typed, NEW who \in Conns \cup {None}, ForgetDevice(who)
  PROVE  \/ /\ Proceeds(who, "forget", "revoke")
            /\ is_device_paired(DeviceOf(who))
            /\ taken' = [taken EXCEPT ![who] = devices[DeviceOf(who)].token]
         \/ /\ Ends(who, "forget") /\ UNCHANGED taken
            /\ ~is_device_paired(DeviceOf(who))
  <1>1. Pc(who) = "forget" /\ UNCHANGED <<up, crashes, scenario>>
    BY DEF ForgetDevice
  <1> QED
    BY <1>1, ProceedsTurn, EndsTurn DEF ForgetDevice, RemovalPcs

LEMMA RevokeConnectionsTurn ==
  ASSUME Typed, NEW who \in Conns \cup {None}, RevokeConnections(who)
  PROVE  \/ Proceeds(who, "revoke", "unregister")
         \/ Ends(who, "revoke") /\ taken[who] = None
  <1>1. Pc(who) = "revoke" /\ UNCHANGED <<up, crashes, scenario>>
    BY DEF RevokeConnections
  <1> QED
    BY <1>1, ProceedsTurn, EndsTurn DEF RevokeConnections, RemovalPcs

LEMMA UnregisterTokenTurn ==
  ASSUME Typed, NEW who \in Conns \cup {None}, UnregisterToken(who)
  PROVE  Ends(who, "unregister")
  <1>1. Pc(who) = "unregister" /\ UNCHANGED <<up, crashes, scenario>>
    BY DEF UnregisterToken
  <1> QED
    BY <1>1, EndsTurn DEF UnregisterToken, RemovalPcs

LEMMA mark_device_seenTurn ==
  ASSUME Typed, NEW c \in Conns, mark_device_seen(c)
  PROVE  Step(c, "recheck")
  <1>1. conn[c].pc # "closed"
    BY DEF mark_device_seen, At
  <1> QED
    BY <1>1, GotoTurn, CloseTurn DEF mark_device_seen, ConnPcs

LEMMA RecheckTurn ==
  ASSUME Typed, NEW c \in Conns, Recheck(c)
  PROVE  Closes(c) \/ (is_device_paired(conn[c].d) /\ Step(c, "loop"))
  <1>1. conn[c].pc # "closed"
    BY DEF Recheck, At
  <1> QED
    BY <1>1, GotoTurn, CloseTurn DEF Recheck, ConnPcs

LEMMA NoticeRevocationTurn ==
  ASSUME Typed, NEW c \in Conns, NoticeRevocation(c)
  PROVE  Closes(c)
  <1>1. conn[c].pc # "closed"
    BY DEF NoticeRevocation, At
  <1> QED
    BY <1>1, GotoTurn, CloseTurn DEF NoticeRevocation, ConnPcs

LEMMA HangUpTurn ==
  ASSUME Typed, NEW c \in Conns, HangUp(c)
  PROVE  Closes(c)
  <1>1. conn[c].pc # "closed"
    BY DEF HangUp, At
  <1> QED
    BY <1>1, GotoTurn, CloseTurn DEF HangUp, ConnPcs

LEMMA update_device_pushTurn ==
  ASSUME Typed, NEW c \in Conns, NEW t, update_device_push(c, t)
  PROVE  Step(c, "loop")
  <1>1. conn[c].pc # "closed"
    BY DEF update_device_push, At
  <1> QED
    BY <1>1, GotoTurn, CloseTurn DEF update_device_push, ConnPcs

LEMMA clear_device_pushTurn ==
  ASSUME Typed, NEW c \in Conns, NEW t, clear_device_push(c, t)
  PROVE  Step(c, "loop")
  <1>1. conn[c].pc # "closed"
    BY DEF clear_device_push, At
  <1> QED
    BY <1>1, GotoTurn, CloseTurn DEF clear_device_push, ConnPcs

LEMMA WrongCodeTurn ==
  ASSUME Typed, NEW c \in Conns, WrongCode(c)
  PROVE  Step(c, "loop")
  <1>1. conn[c].pc # "closed"
    BY DEF WrongCode, At
  <1> QED
    BY <1>1, GotoTurn, CloseTurn DEF WrongCode, ConnPcs

LEMMA SaveRowTurn ==
  ASSUME Typed, NEW c \in Conns, SaveRow(c)
  PROVE  Closes(c) \/ Step(c, "insert")
  <1>1. conn[c].pc # "closed"
    BY DEF SaveRow, At
  <1> QED
    BY <1>1, GotoTurn, CloseTurn DEF SaveRow, ConnPcs

\* A removal is the desktop's or a connection's.
LEMMA LeavingIs ==
  /\ Leaving = {d \in Devices :
       \/ remover.pc \in {"erase", "forget"} /\ remover.d = d
       \/ \E c \in Conns : conn[c].pc \in {"erase", "forget"} /\ conn[c].d = d}
  /\ Leaving' = {d \in Devices :
       \/ remover'.pc \in {"erase", "forget"} /\ remover'.d = d
       \/ \E c \in Conns : conn'[c].pc \in {"erase", "forget"} /\ conn'[c].d = d}
  BY AccessAssumption DEF Leaving, Removing, RemovalAt, Pc, DeviceOf

LEMMA GoingIs ==
  /\ Going = {d \in Devices :
       \/ remover.pc = "forget" /\ remover.d = d
       \/ \E c \in Conns : conn[c].pc = "forget" /\ conn[c].d = d}
  /\ Going' = {d \in Devices :
       \/ remover'.pc = "forget" /\ remover'.d = d
       \/ \E c \in Conns : conn'[c].pc = "forget" /\ conn'[c].d = d}
  BY AccessAssumption DEF Going, RemovalAt, Pc, DeviceOf

LEMMA TellingIs ==
  /\ Telling = {d \in Devices :
       \/ remover.pc = "revoke" /\ remover.d = d
       \/ \E c \in Conns : conn[c].pc = "revoke" /\ conn[c].d = d}
  /\ Telling' = {d \in Devices :
       \/ remover'.pc = "revoke" /\ remover'.d = d
       \/ \E c \in Conns : conn'[c].pc = "revoke" /\ conn'[c].d = d}
  BY AccessAssumption DEF Telling, RemovalAt, Pc, DeviceOf

-----------------------------------------------------------------------------
(***************************************************************************)
(* Type correctness.                                                       *)
(***************************************************************************)
LEMMA ManagerStep ==
  ASSUME Typed, AskedInv, [Next]_vars
  PROVE  ManagerTyped'
  <1> USE DEF vars, manager, registry, history
  <1>1. ASSUME begin_pairing PROVE ManagerTyped'
    <2>1. codes + 1 \in CodeIds
      BY <1>1, AccessAssumption DEF begin_pairing, Typed, ManagerTyped, ConnsTyped,
         Scenario, CodeIds
    <2>2. code' \in ActiveCode
      BY <1>1, <2>1 DEF begin_pairing, ActiveCode
    <2> QED
      BY <1>1, <2>1, <2>2 DEF begin_pairing, Typed, ManagerTyped, CodeIds
  <1>2. ASSUME DesktopLeaves PROVE ManagerTyped'
    BY <1>2, Typed DEF DesktopLeaves, Typed, ManagerTyped, ActiveCode,
       PairingRequest, CodeIds, RequestIds
  <1>3. ASSUME NEW i \in RequestIds, NEW yes \in BOOLEAN, approve(i, yes)
        PROVE  ManagerTyped'
    BY <1>3, Typed DEF approve, Typed, ManagerTyped, ActiveCode,
       PairingRequest, CodeIds, RequestIds
  <1>4. ASSUME NEW c \in Conns, RightCode(c) PROVE ManagerTyped'
    <2>1. conn[c].d \in Devices /\ code.id \in CodeIds
      BY <1>4, OpenConn, ConnFields
      DEF RightCode, At, Typed, ManagerTyped, ActiveCode
    <2>2. [d |-> conn[c].d, k |-> code.id] \in PairingRequest
      BY <2>1 DEF PairingRequest
    <2>3. /\ requests' \in Seq(PairingRequest)
          /\ Len(requests') = Len(requests) + 1 /\ Len(requests') <= MaxRequests
      BY <1>4, <2>2, AccessAssumption DEF RightCode, Typed, ManagerTyped
    <2>4. /\ approvals' \subseteq approvals \cup {Len(requests) + 1}
          /\ prompts' \subseteq prompts \cup {Len(requests) + 1}
      BY <1>4 DEF RightCode
    <2> QED
      BY <1>4, <2>3, <2>4 DEF RightCode, Consumed, Typed, ManagerTyped
  <1>5. ASSUME NEW c \in Conns, WrongCode(c) PROVE ManagerTyped'
    <2>1. CASE code = None
      BY <1>5, <2>1 DEF WrongCode, Typed, ManagerTyped
    <2>2. CASE code # None
      <3>1. [code EXCEPT !.attempts = code.attempts + 1] \in ActiveCode /\ code.id \in CodeIds
        BY <2>2 DEF Typed, ManagerTyped, ActiveCode
      <3>2. code' \in ActiveCode \cup {None}
        BY <1>5, <2>2, <3>1 DEF WrongCode
      <3>3. wrong' \in [CodeIds -> Nat]
        BY <1>5, <2>2, <3>1 DEF WrongCode, Typed, ManagerTyped
      <3> QED
        BY <1>5, <3>2, <3>3 DEF WrongCode, Typed, ManagerTyped
    <2> QED
      BY <2>1, <2>2
  <1>6. ASSUME NEW c \in Conns, Wait(c) PROVE ManagerTyped'
    BY <1>6, Typed DEF Wait, Typed, ManagerTyped, ActiveCode, PairingRequest,
       CodeIds, RequestIds
  <1>7. ASSUME NEW c \in Conns, InsertDevice(c) PROVE ManagerTyped'
    <2>1. conn[c].d \in Devices /\ conn[c].req \in 1 .. Len(requests)
      BY <1>7, AskedInv, OpenConn, ConnFields DEF InsertDevice, At, AskedInv
    <2>2. granted' \in [CodeIds -> SUBSET Devices]
      BY <1>7, <2>1 DEF InsertDevice, Typed, ManagerTyped, PairingRequest
    <2> QED
      BY <1>7, <2>2 DEF InsertDevice, Typed, ManagerTyped
  <1>8. ASSUME Crash PROVE ManagerTyped'
    BY <1>8, Typed DEF Crash, Typed, ManagerTyped, ActiveCode, PairingRequest,
       CodeIds, RequestIds
  <1>9. ASSUME UNCHANGED <<code, codes, requests, approvals, prompts,
                           approved, answers, wrong, granted>>
        PROVE  ManagerTyped'
    BY <1>9 DEF Typed, ManagerTyped, ActiveCode, PairingRequest, CodeIds,
       RequestIds
  <1>10. ASSUME CodeLapses \/ Restart PROVE ManagerTyped'
    BY <1>10, <1>9 DEF Moved, Goto, Close, At, Advance, BeginRemoval,
       CodeLapses, Restart
  <1>11. ASSUME NEW d \in Devices,
               RemoveDevice(d)
         PROVE  ManagerTyped'
    BY <1>11, <1>9 DEF Moved, Goto, Close, At, Advance, BeginRemoval,
       RemoveDevice
  <1>12. ASSUME NEW c \in Conns, NEW d \in scenario.phones, NEW v5 \in BOOLEAN,
               Accept(c, d, v5)
         PROVE  ManagerTyped'
    BY <1>12, <1>9 DEF Moved, Goto, Close, At, Advance, BeginRemoval, Accept
  <1>13. ASSUME NEW c \in Conns,
               Hello(c) \/ Watch(c) \/ mark_device_seen(c) \/ Recheck(c) \/
               NoticeRevocation(c) \/ HangUp(c) \/ StartForwarder(c) \/
               StopForwarder(c) \/
               (\E t \in scenario.tokens : update_device_push(c, t) \/ clear_device_push(c, t)) \/
               UnpairSelf(c) \/ SaveRow(c)
         PROVE  ManagerTyped'
    BY <1>13, <1>9 DEF Moved, Goto, Close, At, Advance, BeginRemoval, Hello,
       Watch, mark_device_seen, Recheck, NoticeRevocation, HangUp,
       StartForwarder, StopForwarder, update_device_push, clear_device_push,
       UnpairSelf, SaveRow
  <1>14. ASSUME NEW c \in Conns, NEW pc \in scenario.asks,
               Receive(c, pc)
         PROVE  ManagerTyped'
    BY <1>14, <1>9 DEF Moved, Goto, Close, At, Advance, BeginRemoval, Receive
  <1>15. ASSUME NEW who \in Conns \cup {None},
               EraseRow(who) \/ ForgetDevice(who) \/
              RevokeConnections(who) \/ UnregisterToken(who)
         PROVE  ManagerTyped'
    BY <1>15, <1>9 DEF Moved, Goto, Close, At, Advance, BeginRemoval,
       EraseRow, Removed, ForgetDevice, RevokeConnections, UnregisterToken
  <1> QED
    BY <1>1, <1>2, <1>3, <1>4, <1>5, <1>6, <1>7, <1>8, <1>9, <1>10, <1>11,
       <1>12, <1>13, <1>14, <1>15 DEF Next, Desktop, Phone

LEMMA RegistryStep ==
  ASSUME Typed, [Next]_vars
  PROVE  RegistryTyped'
  <1> USE DEF vars, manager, registry, history
  <1>1. ASSUME NEW c \in Conns, mark_device_seen(c) PROVE RegistryTyped'
    BY <1>1, Typed, AccessAssumption DEF mark_device_seen, Typed,
       RegistryTyped, ConnsTyped, Connection, Closed, Removal, Quiet,
       StoredDevice, Stored, Saved, Unnotified, is_device_paired,
       Pc, DeviceOf, At, load_devices
  <1>2. ASSUME NEW c \in Conns, NEW t \in scenario.tokens,
               update_device_push(c, t)
        PROVE  RegistryTyped'
    <2>1. conn[c].d \in Devices /\ t \in Tokens
      BY <1>2, OpenConn, ConnFields DEF update_device_push, At, Typed, ConnsTyped, Scenario
    <2>2. CASE UNCHANGED registry
      BY <2>2 DEF Typed, RegistryTyped
    <2>3. CASE is_device_paired(conn[c].d) /\ UNCHANGED <<revision, taken>>
      <3>1. /\ [devices[conn[c].d] EXCEPT !.token = t] \in StoredDevice
            /\ [token |-> t] \in StoredDevice
        BY <2>1, <2>3 DEF Typed, RegistryTyped, StoredDevice, Unnotified, is_device_paired
      <3>2. \/ UNCHANGED devices
            \/ devices' = [devices EXCEPT ![conn[c].d] =
                             [devices[conn[c].d] EXCEPT !.token = t]]
        BY <1>2 DEF update_device_push
      <3>3. devices' \in [Devices -> StoredDevice \cup {None}]
        BY <3>1, <3>2 DEF Typed, RegistryTyped
      <3>4. rows' \in [Devices -> StoredDevice \cup {None}]
        BY <1>2, <3>1 DEF update_device_push, Typed, RegistryTyped, Stored
      <3>5. pushed' \subseteq Tokens
        BY <1>2, <2>1 DEF update_device_push, Typed, RegistryTyped
      <3> QED
        BY <2>3, <3>3, <3>4, <3>5 DEF Typed, RegistryTyped
    <2> QED
      BY <1>2, <2>2, <2>3 DEF update_device_push
  <1>3. ASSUME NEW c \in Conns, NEW t \in scenario.tokens,
               clear_device_push(c, t)
        PROVE  RegistryTyped'
    <2>1. conn[c].d \in Devices /\ t \in Tokens
      BY <1>3, OpenConn, ConnFields DEF clear_device_push, At, Typed, ConnsTyped, Scenario
    <2>2. CASE UNCHANGED registry
      BY <2>2 DEF Typed, RegistryTyped
    <2>3. CASE is_device_paired(conn[c].d) /\ UNCHANGED <<revision, taken>>
      <3>1. /\ [devices[conn[c].d] EXCEPT !.token = None] \in StoredDevice
            /\ Unnotified \in StoredDevice
        BY <2>1, <2>3 DEF Typed, RegistryTyped, StoredDevice, Unnotified, is_device_paired
      <3>2. \/ UNCHANGED devices
            \/ devices' = [devices EXCEPT ![conn[c].d] =
                             [devices[conn[c].d] EXCEPT !.token = None]]
        BY <1>3 DEF clear_device_push
      <3>3. devices' \in [Devices -> StoredDevice \cup {None}]
        BY <3>1, <3>2 DEF Typed, RegistryTyped
      <3>4. rows' \in [Devices -> StoredDevice \cup {None}]
        BY <1>3, <3>1 DEF clear_device_push, Typed, RegistryTyped, Stored
      <3>5. pushed' \subseteq Tokens
        BY <1>3, <2>1 DEF clear_device_push, Typed, RegistryTyped
      <3> QED
        BY <2>3, <3>3, <3>4, <3>5 DEF Typed, RegistryTyped
    <2> QED
      BY <1>3, <2>2, <2>3 DEF clear_device_push, TokenOf
  <1>4. ASSUME NEW c \in Conns, SaveRow(c) PROVE RegistryTyped'
    <2>1. Unnotified \in StoredDevice
      BY DEF StoredDevice, Unnotified
    <2> QED
      BY <1>4, <2>1 DEF SaveRow, Stored, Typed, RegistryTyped
  <1>5. ASSUME NEW c \in Conns, InsertDevice(c) PROVE RegistryTyped'
    <2>1. Unnotified \in StoredDevice
      BY DEF StoredDevice, Unnotified
    <2> QED
      BY <1>5, <2>1 DEF InsertDevice, Typed, RegistryTyped
  <1>6. ASSUME NEW who \in Conns \cup {None}, EraseRow(who)
        PROVE  RegistryTyped'
    BY <1>6, Typed, AccessAssumption DEF EraseRow, Typed, RegistryTyped,
       ConnsTyped, Connection, Closed, Removal, Quiet, StoredDevice, Stored,
       Saved, Unnotified, is_device_paired, Pc, DeviceOf, At,
       load_devices
  <1>7. ASSUME NEW who \in Conns \cup {None},
               ForgetDevice(who) \/ RevokeConnections(who) \/ UnregisterToken(who)
        PROVE  RegistryTyped'
    <2>1. CASE ForgetDevice(who)
      <3>1. /\ DeviceOf(who) \in Devices
            /\ \/ UNCHANGED taken
               \/ /\ is_device_paired(DeviceOf(who))
                  /\ taken' = [taken EXCEPT ![who] = devices[DeviceOf(who)].token]
        BY <2>1, ForgetDeviceTurn DEF Proceeds, Ends
      <3>2. is_device_paired(DeviceOf(who)) =>
              devices[DeviceOf(who)].token \in Tokens \cup {None}
        BY <3>1 DEF Typed, RegistryTyped, is_device_paired, StoredDevice
      <3>3. taken' \in [Conns \cup {None} -> Tokens \cup {None}]
        BY <3>1, <3>2 DEF Typed, RegistryTyped
      <3> QED
        BY <2>1, <3>3 DEF ForgetDevice, Typed, RegistryTyped
    <2>2. CASE RevokeConnections(who)
      <3>1. DeviceOf(who) \in Devices
        BY <2>2, RevokeConnectionsTurn DEF Proceeds, Ends
      <3>2. revision' = [revision EXCEPT ![DeviceOf(who)] = @ + 1]
        BY <2>2 DEF RevokeConnections, Revoked
      <3>3. revision' \in [Devices -> Nat]
        BY <3>1, <3>2 DEF Typed, RegistryTyped
      <3> QED
        BY <2>2, <3>3 DEF RevokeConnections, Typed, RegistryTyped
    <2>3. CASE UnregisterToken(who)
      BY <2>3 DEF UnregisterToken, Unregistered, Typed, RegistryTyped
    <2> QED
      BY <1>7, <2>1, <2>2, <2>3
  <1>8. ASSUME Crash PROVE RegistryTyped'
    BY <1>8, Typed, AccessAssumption DEF Crash, Typed, RegistryTyped,
       ConnsTyped, Connection, Closed, Removal, Quiet, StoredDevice, Stored,
       Saved, Unnotified, is_device_paired, Pc, DeviceOf, At,
       load_devices
  <1>9. ASSUME Restart PROVE RegistryTyped'
    BY <1>9, Typed, AccessAssumption DEF Restart, Typed, RegistryTyped,
       ConnsTyped, Connection, Closed, Removal, Quiet, StoredDevice, Stored,
       Saved, Unnotified, is_device_paired, Pc, DeviceOf, At,
       load_devices
  <1>10. ASSUME UNCHANGED <<devices, rows, revision, pushed, taken>>
         PROVE  RegistryTyped'
    BY <1>10 DEF Typed, RegistryTyped, ConnsTyped, Connection, Closed,
       Removal, Quiet, StoredDevice, Stored, Saved, Unnotified,
       is_device_paired, Pc, DeviceOf, At, load_devices
  <1>11. ASSUME begin_pairing \/ DesktopLeaves \/ CodeLapses PROVE RegistryTyped'
    BY <1>11, <1>10 DEF Moved, Goto, Close, At, Advance, BeginRemoval,
       begin_pairing, DesktopLeaves, CodeLapses
  <1>12. ASSUME NEW i \in RequestIds, NEW yes \in BOOLEAN,
               approve(i, yes)
         PROVE  RegistryTyped'
    BY <1>12, <1>10 DEF Moved, Goto, Close, At, Advance, BeginRemoval, approve
  <1>13. ASSUME NEW d \in Devices,
               RemoveDevice(d)
         PROVE  RegistryTyped'
    BY <1>13, <1>10 DEF Moved, Goto, Close, At, Advance, BeginRemoval,
       RemoveDevice
  <1>14. ASSUME NEW c \in Conns, NEW d \in scenario.phones, NEW v5 \in BOOLEAN,
               Accept(c, d, v5)
         PROVE  RegistryTyped'
    BY <1>14, <1>10 DEF Moved, Goto, Close, At, Advance, BeginRemoval, Accept
  <1>15. ASSUME NEW c \in Conns,
               Hello(c) \/ Watch(c) \/ Recheck(c) \/ NoticeRevocation(c) \/
               HangUp(c) \/ StartForwarder(c) \/ StopForwarder(c) \/
               UnpairSelf(c) \/ RightCode(c) \/ WrongCode(c) \/ Wait(c)
         PROVE  RegistryTyped'
    BY <1>15, <1>10 DEF Moved, Goto, Close, At, Advance, BeginRemoval, Hello,
       Watch, Recheck, NoticeRevocation, HangUp, StartForwarder,
       StopForwarder, UnpairSelf, RightCode, WrongCode, Wait
  <1>16. ASSUME NEW c \in Conns, NEW pc \in scenario.asks,
               Receive(c, pc)
         PROVE  RegistryTyped'
    BY <1>16, <1>10 DEF Moved, Goto, Close, At, Advance, BeginRemoval, Receive
  <1> QED
    BY <1>1, <1>2, <1>3, <1>4, <1>5, <1>6, <1>7, <1>8, <1>9, <1>10, <1>11,
       <1>12, <1>13, <1>14, <1>15, <1>16 DEF Next, Desktop, Phone

LEMMA ConnsStep ==
  ASSUME Typed, [Next]_vars
  PROVE  ConnsTyped'
  <1> USE DEF vars, manager, registry, history
  <1>1. ASSUME NEW d \in Devices, RemoveDevice(d) PROVE ConnsTyped'
    BY <1>1 DEF RemoveDevice, Typed, ConnsTyped, Removal
  <1>2. ASSUME NEW c \in Conns, NEW d \in scenario.phones, NEW v5 \in BOOLEAN,
               Accept(c, d, v5)
        PROVE  ConnsTyped'
    BY <1>2, AcceptTurn DEF Turn, Step, Closes
  <1>3. ASSUME NEW c \in Conns, Hello(c) PROVE ConnsTyped'
    BY <1>3, HelloTurn DEF Turn, Step, Closes
  <1>4. ASSUME NEW c \in Conns, Watch(c) PROVE ConnsTyped'
    BY <1>4, WatchTurn DEF Turn, Step, Closes
  <1>5. ASSUME NEW c \in Conns, mark_device_seen(c) PROVE ConnsTyped'
    BY <1>5, mark_device_seenTurn DEF Turn, Step, Closes
  <1>6. ASSUME NEW c \in Conns, Recheck(c) PROVE ConnsTyped'
    BY <1>6, RecheckTurn DEF Turn, Step, Closes
  <1>7. ASSUME NEW c \in Conns, NoticeRevocation(c) PROVE ConnsTyped'
    BY <1>7, NoticeRevocationTurn DEF Turn, Step, Closes
  <1>8. ASSUME NEW c \in Conns, HangUp(c) PROVE ConnsTyped'
    BY <1>8, HangUpTurn DEF Turn, Step, Closes
  <1>9. ASSUME NEW c \in Conns, NEW pc \in scenario.asks, Receive(c, pc)
        PROVE  ConnsTyped'
    BY <1>9, ReceiveTurn DEF Turn, Step, Closes
  <1>10. ASSUME NEW c \in Conns, StartForwarder(c) PROVE ConnsTyped'
    BY <1>10, StartForwarderTurn DEF Turn, Step, Closes
  <1>11. ASSUME NEW c \in Conns, StopForwarder(c) PROVE ConnsTyped'
    BY <1>11, StopForwarderTurn DEF Turn, Step, Closes
  <1>12. ASSUME NEW c \in Conns, NEW t \in scenario.tokens,
               update_device_push(c, t) PROVE ConnsTyped'
    BY <1>12, update_device_pushTurn DEF Turn, Step, Closes
  <1>13. ASSUME NEW c \in Conns, NEW t \in scenario.tokens,
               clear_device_push(c, t) PROVE ConnsTyped'
    BY <1>13, clear_device_pushTurn DEF Turn, Step, Closes
  <1>14. ASSUME NEW c \in Conns, UnpairSelf(c) PROVE ConnsTyped'
    BY <1>14, UnpairSelfTurn DEF Turn, Step, Closes
  <1>15. ASSUME NEW c \in Conns, RightCode(c) PROVE ConnsTyped'
    BY <1>15, RightCodeTurn DEF Turn, Step, Closes
  <1>16. ASSUME NEW c \in Conns, WrongCode(c) PROVE ConnsTyped'
    BY <1>16, WrongCodeTurn DEF Turn, Step, Closes
  <1>17. ASSUME NEW c \in Conns, Wait(c) PROVE ConnsTyped'
    BY <1>17, WaitTurn DEF Turn, Step, Closes
  <1>18. ASSUME NEW c \in Conns, SaveRow(c) PROVE ConnsTyped'
    BY <1>18, SaveRowTurn DEF Turn, Step, Closes
  <1>19. ASSUME NEW c \in Conns, InsertDevice(c) PROVE ConnsTyped'
    BY <1>19, InsertDeviceTurn DEF Turn, Step, Closes
  <1>20. ASSUME NEW who \in Conns \cup {None}, EraseRow(who) PROVE ConnsTyped'
    BY <1>20, EraseRowTurn DEF Turn, Step, Closes
  <1>21. ASSUME NEW who \in Conns \cup {None},
                ForgetDevice(who) \/ RevokeConnections(who) \/ UnregisterToken(who)
         PROVE  ConnsTyped'
    BY <1>21, ForgetDeviceTurn, RevokeConnectionsTurn, UnregisterTokenTurn
       DEF Proceeds, Ends, Turn, Step
  <1>22. ASSUME Crash PROVE ConnsTyped'
    BY <1>22 DEF Crash, Typed, ConnsTyped
  <1>23. ASSUME UNCHANGED <<scenario, remover, conn>> PROVE ConnsTyped'
    BY <1>23 DEF Typed, ConnsTyped
  <1>24. ASSUME begin_pairing \/ DesktopLeaves \/ CodeLapses \/ Restart PROVE ConnsTyped'
    BY <1>24, <1>23 DEF Moved, Goto, Close, At, Advance, BeginRemoval,
       begin_pairing, DesktopLeaves, CodeLapses, Restart
  <1>25. ASSUME NEW i \in RequestIds, NEW yes \in BOOLEAN,
               approve(i, yes)
         PROVE  ConnsTyped'
    BY <1>25, <1>23 DEF Moved, Goto, Close, At, Advance, BeginRemoval, approve
  <1> QED
    BY <1>1, <1>2, <1>3, <1>4, <1>5, <1>6, <1>7, <1>8, <1>9, <1>10, <1>11,
       <1>12, <1>13, <1>14, <1>15, <1>16, <1>17, <1>18, <1>19, <1>20, <1>21,
       <1>22, <1>23, <1>24, <1>25 DEF Next, Desktop, Phone

-----------------------------------------------------------------------------
(***************************************************************************)
(* A daemon that does not run has no connections.                          *)
(***************************************************************************)
LEMMA DownStep ==
  ASSUME Typed, DownInv, [Next]_vars
  PROVE  DownInv'
  <1> USE DEF vars, manager, registry, history
  <1>1. ASSUME begin_pairing PROVE DownInv'
    BY <1>1 DEF begin_pairing, At, Moved, Goto, Close, DownInv
  <1>2. ASSUME DesktopLeaves PROVE DownInv'
    BY <1>2 DEF DesktopLeaves, At, Moved, Goto, Close, DownInv
  <1>3. ASSUME NEW i \in RequestIds, NEW yes \in BOOLEAN, approve(i, yes)
        PROVE  DownInv'
    BY <1>3 DEF approve, At, Moved, Goto, Close, DownInv
  <1>4. ASSUME NEW d \in Devices, RemoveDevice(d) PROVE DownInv'
    BY <1>4 DEF RemoveDevice, At, Moved, Goto, Close, DownInv
  <1>5. ASSUME NEW c \in Conns, NEW d \in scenario.phones, NEW v5 \in BOOLEAN,
               Accept(c, d, v5)
        PROVE  DownInv'
    BY <1>5 DEF Accept, At, Moved, Goto, Close, DownInv
  <1>6. ASSUME NEW c \in Conns, Hello(c) PROVE DownInv'
    BY <1>6 DEF Hello, At, Moved, Goto, Close, DownInv
  <1>7. ASSUME NEW c \in Conns, Watch(c) PROVE DownInv'
    BY <1>7 DEF Watch, At, Moved, Goto, Close, DownInv
  <1>8. ASSUME NEW c \in Conns, mark_device_seen(c) PROVE DownInv'
    BY <1>8 DEF mark_device_seen, At, Moved, Goto, Close, DownInv
  <1>9. ASSUME NEW c \in Conns, Recheck(c) PROVE DownInv'
    BY <1>9 DEF Recheck, At, Moved, Goto, Close, DownInv
  <1>10. ASSUME NEW c \in Conns, NoticeRevocation(c) PROVE DownInv'
    BY <1>10 DEF NoticeRevocation, At, Moved, Goto, Close, DownInv
  <1>11. ASSUME NEW c \in Conns, HangUp(c) PROVE DownInv'
    BY <1>11 DEF HangUp, At, Moved, Goto, Close, DownInv
  <1>12. ASSUME NEW c \in Conns, NEW pc \in scenario.asks, Receive(c, pc)
         PROVE  DownInv'
    BY <1>12 DEF Receive, At, Moved, Goto, Close, DownInv
  <1>13. ASSUME NEW c \in Conns, StartForwarder(c) PROVE DownInv'
    BY <1>13 DEF StartForwarder, At, Moved, Goto, Close, DownInv
  <1>14. ASSUME NEW c \in Conns, StopForwarder(c) PROVE DownInv'
    BY <1>14 DEF StopForwarder, At, Moved, Goto, Close, DownInv
  <1>15. ASSUME NEW c \in Conns, NEW t \in scenario.tokens,
               update_device_push(c, t) PROVE DownInv'
    BY <1>15 DEF update_device_push, At, Moved, Goto, Close, DownInv
  <1>16. ASSUME NEW c \in Conns, NEW t \in scenario.tokens,
               clear_device_push(c, t) PROVE DownInv'
    BY <1>16 DEF clear_device_push, At, Moved, Goto, Close, DownInv
  <1>17. ASSUME NEW c \in Conns, UnpairSelf(c) PROVE DownInv'
    BY <1>17 DEF UnpairSelf, At, Moved, Goto, Close, DownInv
  <1>18. ASSUME NEW c \in Conns, RightCode(c) PROVE DownInv'
    BY <1>18 DEF RightCode, At, Moved, Goto, Close, DownInv
  <1>19. ASSUME NEW c \in Conns, WrongCode(c) PROVE DownInv'
    BY <1>19 DEF WrongCode, At, Moved, Goto, Close, DownInv
  <1>20. ASSUME NEW c \in Conns, Wait(c) PROVE DownInv'
    BY <1>20 DEF Wait, At, Moved, Goto, Close, DownInv
  <1>21. ASSUME NEW c \in Conns, SaveRow(c) PROVE DownInv'
    BY <1>21 DEF SaveRow, At, Moved, Goto, Close, DownInv
  <1>22. ASSUME NEW c \in Conns, InsertDevice(c) PROVE DownInv'
    BY <1>22 DEF InsertDevice, At, Moved, Goto, Close, DownInv
  <1>23. ASSUME NEW who \in Conns \cup {None}, EraseRow(who) PROVE DownInv'
    BY <1>23 DEF EraseRow, At, Moved, Goto, Close, DownInv
  <1>24. ASSUME NEW who \in Conns \cup {None},
                ForgetDevice(who) \/ RevokeConnections(who) \/ UnregisterToken(who)
         PROVE  DownInv'
    BY <1>24 DEF ForgetDevice, RevokeConnections, UnregisterToken, DownInv
  <1>25. ASSUME Crash PROVE DownInv'
    BY <1>25 DEF Crash, DownInv
  <1>26. ASSUME Restart PROVE DownInv'
    BY <1>26 DEF Restart, DownInv
  <1>27. ASSUME UNCHANGED <<up, remover, conn>> PROVE DownInv'
    BY <1>27 DEF DownInv
  <1>28. ASSUME CodeLapses PROVE DownInv'
    BY <1>28, <1>27 DEF Moved, Goto, Close, At, Advance, BeginRemoval,
       CodeLapses
  <1> QED
    BY <1>1, <1>2, <1>3, <1>4, <1>5, <1>6, <1>7, <1>8, <1>9, <1>10, <1>11,
       <1>12, <1>13, <1>14, <1>15, <1>16, <1>17, <1>18, <1>19, <1>20, <1>21,
       <1>22, <1>23, <1>24, <1>25, <1>26, <1>27, <1>28 DEF Next, Desktop,
       Phone

-----------------------------------------------------------------------------
(***************************************************************************)
(* What connections watch for.                                             *)
(***************************************************************************)
LEMMA SeenTurn ==
  ASSUME Typed, SeenInv, NEW c \in Conns, NEW pc, NEW paired, NEW seen, NEW fwd,
         NEW req, Turn(c, pc, paired, seen, fwd, req), UNCHANGED revision,
         seen \in {None} \cup 0 .. revision[conn[c].d],
         fwd \in {None} \cup 0 .. revision[conn[c].d],
         paired /\ pc \notin {"watch", "completed"} => seen # None
  PROVE  SeenInv'
  <1> SUFFICES ASSUME NEW x \in Conns, conn'[x] # Closed
               PROVE  /\ conn'[x].seen \in {None} \cup 0 .. revision[conn'[x].d]
                      /\ conn'[x].fwd \in {None} \cup 0 .. revision[conn'[x].d]
                      /\ conn'[x].paired /\ conn'[x].pc \notin {"watch", "completed"}
                           => conn'[x].seen # None
    BY DEF SeenInv
  <1>1. CASE x = c
    BY <1>1 DEF Turn
  <1>2. CASE x # c
    <2>1. conn'[x] = conn[x]
      BY <1>2 DEF Turn, OnlyConn
    <2> QED
      BY <2>1 DEF SeenInv
  <1> QED
    BY <1>1, <1>2

LEMMA SeenMove ==
  ASSUME Typed, SeenInv, NEW c \in Conns, NEW pc, Step(c, pc),
         UNCHANGED revision, conn[c].pc # "closed",
         conn[c].pc \notin {"watch", "completed"}
  PROVE  SeenInv'
  <1>1. conn[c] # Closed
    BY DEF Closed
  <1>2. /\ conn[c].seen \in {None} \cup 0 .. revision[conn[c].d]
        /\ conn[c].fwd \in {None} \cup 0 .. revision[conn[c].d]
        /\ conn[c].paired => conn[c].seen # None
    BY <1>1 DEF SeenInv
  <1> QED
    BY <1>2, SeenTurn DEF Step

LEMMA SeenClose ==
  ASSUME SeenInv, NEW c \in Conns, Closes(c), UNCHANGED revision
  PROVE  SeenInv'
  BY DEF SeenInv, Closes, OnlyConn

LEMMA SeenStep ==
  ASSUME Typed, SeenInv, [Next]_vars
  PROVE  SeenInv'
  <1> USE DEF vars, manager, registry, history
  <1>1. ASSUME NEW c \in Conns, NEW d \in scenario.phones, NEW v5 \in BOOLEAN,
               Accept(c, d, v5)
        PROVE  SeenInv'
    <2>1. /\ OnlyConn(c) /\ ConnsTyped' /\ conn[c] = Closed
          /\ conn'[c] \in Connection /\ conn'[c].d = d
          /\ conn'[c].pc = "hello" /\ ~conn'[c].paired
          /\ conn'[c].seen = None /\ conn'[c].fwd = None
      BY <1>1, AcceptTurn
    <2> QED
      BY <1>1, <2>1 DEF Accept, SeenInv, OnlyConn
  <1>2. ASSUME NEW c \in Conns, Hello(c) PROVE SeenInv'
    <2>1. \/ Closes(c)
          \/ is_device_paired(conn[c].d) /\
             Turn(c, "watch", TRUE, conn[c].seen, conn[c].fwd, conn[c].req)
          \/ ~is_device_paired(conn[c].d) /\
             Turn(c, "loop", FALSE, conn[c].seen, conn[c].fwd, conn[c].req)
      BY <1>2, HelloTurn
    <2>2. UNCHANGED revision
      BY <1>2 DEF Hello
    <2>3. conn[c] # Closed /\ conn[c].pc # "closed" /\ conn[c] \in Connection
      BY <1>2, OpenConn DEF Hello, At
    <2>4. /\ conn[c].seen \in {None} \cup 0 .. revision[conn[c].d]
          /\ conn[c].fwd \in {None} \cup 0 .. revision[conn[c].d]
          /\ conn[c].paired /\ conn[c].pc \notin {"watch", "completed"} =>
               conn[c].seen # None
      BY <2>3 DEF SeenInv
    <2> QED
      BY <1>2, <2>1, <2>2, <2>3, <2>4, SeenTurn, SeenClose DEF Hello, At, Step,
         Requests
  <1>3. ASSUME NEW c \in Conns, Watch(c) PROVE SeenInv'
    <2>1. Turn(c, IF conn[c].pc = "watch" THEN "mark" ELSE "loop", TRUE,
               revision[conn[c].d], conn[c].fwd, conn[c].req)
      BY <1>3, WatchTurn
    <2>2. UNCHANGED revision
      BY <1>3 DEF Watch
    <2>3. conn[c] # Closed /\ conn[c].pc # "closed" /\ conn[c] \in Connection
      BY <1>3, OpenConn DEF Watch, At
    <2>4. /\ conn[c].seen \in {None} \cup 0 .. revision[conn[c].d]
          /\ conn[c].fwd \in {None} \cup 0 .. revision[conn[c].d]
          /\ conn[c].paired /\ conn[c].pc \notin {"watch", "completed"} =>
               conn[c].seen # None
      BY <2>3 DEF SeenInv
    <2>5. revision[conn[c].d] \in Nat
      BY <2>3, ConnFields DEF Typed, RegistryTyped
    <2>6. revision[conn[c].d] \in 0 .. revision[conn[c].d] /\ revision[conn[c].d] # None
      BY <2>5, AccessAssumption
    <2> QED
      BY <2>1, <2>2, <2>4, <2>6, SeenTurn
  <1>4. ASSUME NEW c \in Conns, mark_device_seen(c) PROVE SeenInv'
    <2>1. Step(c, "recheck")
      BY <1>4, mark_device_seenTurn
    <2> QED
      BY <1>4, <2>1, SeenMove DEF mark_device_seen, At
  <1>5. ASSUME NEW c \in Conns, Recheck(c) PROVE SeenInv'
    <2>1. Closes(c) \/ (is_device_paired(conn[c].d) /\ Step(c, "loop"))
      BY <1>5, RecheckTurn
    <2> QED
      BY <1>5, <2>1, SeenMove, SeenClose DEF Recheck, At
  <1>6. ASSUME NEW c \in Conns, NoticeRevocation(c) PROVE SeenInv'
    <2>1. Closes(c)
      BY <1>6, NoticeRevocationTurn
    <2> QED
      BY <1>6, <2>1, SeenClose DEF NoticeRevocation
  <1>7. ASSUME NEW c \in Conns, HangUp(c) PROVE SeenInv'
    <2>1. Closes(c)
      BY <1>7, HangUpTurn
    <2> QED
      BY <1>7, <2>1, SeenClose DEF HangUp
  <1>8. ASSUME NEW c \in Conns, NEW pc \in scenario.asks, Receive(c, pc)
        PROVE  SeenInv'
    <2>1. \/ Closes(c)
          \/ StillPaired(c) /\ Allowed(c, pc) /\ pc \in Requests /\ Step(c, pc)
      BY <1>8, ReceiveTurn
    <2> QED
      BY <1>8, <2>1, SeenMove, SeenClose DEF Receive, At
  <1>9. ASSUME NEW c \in Conns, StartForwarder(c) PROVE SeenInv'
    <2>1. Turn(c, "loop", conn[c].paired, conn[c].seen, conn[c].seen,
               conn[c].req)
      BY <1>9, StartForwarderTurn
    <2>2. UNCHANGED revision
      BY <1>9 DEF StartForwarder
    <2>3. conn[c] # Closed /\ conn[c].pc # "closed" /\ conn[c] \in Connection
      BY <1>9, OpenConn DEF StartForwarder, At
    <2>4. /\ conn[c].seen \in {None} \cup 0 .. revision[conn[c].d]
          /\ conn[c].fwd \in {None} \cup 0 .. revision[conn[c].d]
          /\ conn[c].paired /\ conn[c].pc \notin {"watch", "completed"} =>
               conn[c].seen # None
      BY <2>3 DEF SeenInv
    <2> QED
      BY <1>9, <2>1, <2>2, <2>3, <2>4, SeenTurn, SeenClose DEF StartForwarder,
         At, Step, Requests
  <1>10. ASSUME NEW c \in Conns, StopForwarder(c) PROVE SeenInv'
    <2>1. Turn(c, conn[c].pc, conn[c].paired, conn[c].seen, None, conn[c].req)
      BY <1>10, StopForwarderTurn
    <2>2. UNCHANGED revision
      BY <1>10 DEF StopForwarder
    <2>3. conn[c] # Closed /\ conn[c].pc # "closed" /\ conn[c] \in Connection
      BY <1>10 DEF StopForwarder, Typed, ConnsTyped, Connection, ConnPcs, Closed
    <2>4. /\ conn[c].seen \in {None} \cup 0 .. revision[conn[c].d]
          /\ conn[c].fwd \in {None} \cup 0 .. revision[conn[c].d]
          /\ conn[c].paired /\ conn[c].pc \notin {"watch", "completed"} =>
               conn[c].seen # None
      BY <2>3 DEF SeenInv
    <2> QED
      BY <1>10, <2>1, <2>2, <2>3, <2>4, SeenTurn, SeenClose DEF StopForwarder, At,
         Step, Requests
  <1>11. ASSUME NEW c \in Conns, NEW t \in scenario.tokens,
               update_device_push(c, t) PROVE SeenInv'
    <2>1. Step(c, "loop")
      BY <1>11, update_device_pushTurn
    <2> QED
      BY <1>11, <2>1, SeenMove DEF update_device_push, At
  <1>12. ASSUME NEW c \in Conns, NEW t \in scenario.tokens,
               clear_device_push(c, t) PROVE SeenInv'
    <2>1. Step(c, "loop")
      BY <1>12, clear_device_pushTurn
    <2> QED
      BY <1>12, <2>1, SeenMove DEF clear_device_push, At
  <1>13. ASSUME NEW c \in Conns, UnpairSelf(c) PROVE SeenInv'
    <2>1. \/ is_device_paired(conn[c].d) /\ Step(c, "erase")
          \/ ~is_device_paired(conn[c].d) /\
             Turn(c, "loop", FALSE, None, conn[c].fwd, conn[c].req)
      BY <1>13, UnpairSelfTurn
    <2>2. UNCHANGED revision
      BY <1>13 DEF UnpairSelf
    <2>3. conn[c] # Closed /\ conn[c].pc # "closed" /\ conn[c] \in Connection
      BY <1>13, OpenConn DEF UnpairSelf, At
    <2>4. /\ conn[c].seen \in {None} \cup 0 .. revision[conn[c].d]
          /\ conn[c].fwd \in {None} \cup 0 .. revision[conn[c].d]
          /\ conn[c].paired /\ conn[c].pc \notin {"watch", "completed"} =>
               conn[c].seen # None
      BY <2>3 DEF SeenInv
    <2> QED
      BY <1>13, <2>1, <2>2, <2>3, <2>4, SeenTurn, SeenClose DEF UnpairSelf, At,
         Step, Requests
  <1>14. ASSUME NEW c \in Conns, RightCode(c) PROVE SeenInv'
    <2>1. \/ /\ approvals' = approvals \cup {Len(requests) + 1}
             /\ prompts' = prompts \cup {Len(requests) + 1}
             /\ Turn(c, "wait", conn[c].paired, conn[c].seen, conn[c].fwd,
                     Len(requests) + 1)
          \/ /\ UNCHANGED <<approvals, prompts>>
             /\ Turn(c, "loop", conn[c].paired, conn[c].seen, conn[c].fwd, None)
      BY <1>14, RightCodeTurn
    <2>2. UNCHANGED revision
      BY <1>14 DEF RightCode
    <2>3. conn[c] # Closed /\ conn[c].pc # "closed" /\ conn[c] \in Connection
      BY <1>14, OpenConn DEF RightCode, At
    <2>4. /\ conn[c].seen \in {None} \cup 0 .. revision[conn[c].d]
          /\ conn[c].fwd \in {None} \cup 0 .. revision[conn[c].d]
          /\ conn[c].paired /\ conn[c].pc \notin {"watch", "completed"} =>
               conn[c].seen # None
      BY <2>3 DEF SeenInv
    <2> QED
      BY <1>14, <2>1, <2>2, <2>3, <2>4, SeenTurn, SeenClose DEF RightCode, At,
         Step, Requests
  <1>15. ASSUME NEW c \in Conns, WrongCode(c) PROVE SeenInv'
    <2>1. Step(c, "loop")
      BY <1>15, WrongCodeTurn
    <2> QED
      BY <1>15, <2>1, SeenMove DEF WrongCode, At
  <1>16. ASSUME NEW c \in Conns, Wait(c) PROVE SeenInv'
    <2>1. \/ /\ answers[conn[c].req] # None /\ answers[conn[c].req]
             /\ UNCHANGED approvals
             /\ Turn(c, "save", conn[c].paired, conn[c].seen, conn[c].fwd,
                     conn[c].req)
          \/ /\ approvals' \subseteq approvals
             /\ Turn(c, "loop", conn[c].paired, conn[c].seen, conn[c].fwd, None)
      BY <1>16, WaitTurn
    <2>2. UNCHANGED revision
      BY <1>16 DEF Wait
    <2>3. conn[c] # Closed /\ conn[c].pc # "closed" /\ conn[c] \in Connection
      BY <1>16, OpenConn DEF Wait, At
    <2>4. /\ conn[c].seen \in {None} \cup 0 .. revision[conn[c].d]
          /\ conn[c].fwd \in {None} \cup 0 .. revision[conn[c].d]
          /\ conn[c].paired /\ conn[c].pc \notin {"watch", "completed"} =>
               conn[c].seen # None
      BY <2>3 DEF SeenInv
    <2> QED
      BY <1>16, <2>1, <2>2, <2>3, <2>4, SeenTurn, SeenClose DEF Wait, At, Step,
         Requests
  <1>17. ASSUME NEW c \in Conns, SaveRow(c) PROVE SeenInv'
    <2>1. Closes(c) \/ Step(c, "insert")
      BY <1>17, SaveRowTurn
    <2> QED
      BY <1>17, <2>1, SeenMove, SeenClose DEF SaveRow, At
  <1>18. ASSUME NEW c \in Conns, InsertDevice(c) PROVE SeenInv'
    <2>1. Turn(c, "completed", conn[c].paired, conn[c].seen, conn[c].fwd, None)
      BY <1>18, InsertDeviceTurn
    <2>2. UNCHANGED revision
      BY <1>18 DEF InsertDevice
    <2>3. conn[c] # Closed /\ conn[c].pc # "closed" /\ conn[c] \in Connection
      BY <1>18, OpenConn DEF InsertDevice, At
    <2>4. /\ conn[c].seen \in {None} \cup 0 .. revision[conn[c].d]
          /\ conn[c].fwd \in {None} \cup 0 .. revision[conn[c].d]
          /\ conn[c].paired /\ conn[c].pc \notin {"watch", "completed"} =>
               conn[c].seen # None
      BY <2>3 DEF SeenInv
    <2> QED
      BY <1>18, <2>1, <2>2, <2>3, <2>4, SeenTurn, SeenClose DEF InsertDevice, At,
         Step, Requests
  <1>19. ASSUME NEW who \in Conns \cup {None}, EraseRow(who) PROVE SeenInv'
    <2>1. \/ /\ who = None /\ remover \in Removal /\ remover.pc = "erase"
             /\ UNCHANGED <<conn, scenario, up>> /\ ConnsTyped'
             /\ \/ /\ rows' = [rows EXCEPT ![remover.d] = None]
                   /\ remover' \in Removal
                   /\ remover'.pc = "forget" /\ remover'.d = remover.d
                \/ UNCHANGED rows /\ remover' = Quiet
          \/ /\ who \in Conns /\ conn[who].pc = "erase"
             /\ \/ /\ rows' = [rows EXCEPT ![conn[who].d] = None]
                   /\ Step(who, "forget")
                \/ UNCHANGED rows /\ Step(who, "loop")
      BY <1>19, EraseRowTurn
    <2>2. UNCHANGED revision
      BY <1>19 DEF EraseRow
    <2>3. CASE UNCHANGED conn
      BY <2>2, <2>3 DEF SeenInv
    <2> QED
      BY <2>1, <2>2, <2>3, SeenMove
  <1>20. ASSUME NEW who \in Conns \cup {None},
                ForgetDevice(who) \/ RevokeConnections(who) \/ UnregisterToken(who)
         PROVE  SeenInv'
    <2>1. PICK from \in {"forget", "revoke", "unregister"} :
            \/ \E to \in {"revoke", "unregister"} : Proceeds(who, from, to)
            \/ Ends(who, from)
      BY <1>20, ForgetDeviceTurn, RevokeConnectionsTurn, UnregisterTokenTurn
    <2>2. \A d \in Devices : /\ revision[d] \in Nat /\ revision'[d] \in Nat
                             /\ revision[d] <= revision'[d]
      BY <1>20, <2>1 DEF ForgetDevice, RevokeConnections, UnregisterToken, Revoked, Typed,
         RegistryTyped, Proceeds, Ends
    <2> SUFFICES ASSUME NEW x \in Conns, conn'[x] # Closed
                 PROVE  /\ conn'[x].seen \in {None} \cup 0 .. revision'[conn'[x].d]
                        /\ conn'[x].fwd \in {None} \cup 0 .. revision'[conn'[x].d]
                        /\ conn'[x].paired /\ conn'[x].pc \notin {"watch", "completed"}
                             => conn'[x].seen # None
      BY DEF SeenInv
    <2>3. CASE conn'[x] = conn[x]
      <3>1. conn[x].d \in Devices
        BY <2>3, ConnFields DEF Typed, ConnsTyped
      <3>2. \A v \in {None} \cup 0 .. revision[conn[x].d] :
              v \in {None} \cup 0 .. revision'[conn[x].d]
        BY <2>2, <3>1
      <3> QED
        BY <2>3, <3>2 DEF SeenInv
    <2>4. CASE conn'[x] # conn[x]
      <3>1. /\ x = who /\ conn[x].pc = from /\ conn'[x].d = conn[x].d
            /\ conn'[x].fwd = conn[x].fwd
            /\ \/ conn'[x].seen = None /\ ~conn'[x].paired
               \/ conn'[x].seen = conn[x].seen /\ conn'[x].paired = conn[x].paired
        BY <2>1, <2>4 DEF Proceeds, Ends, Step, Turn, OnlyConn
      <3>2. conn[x].d \in Devices /\ conn[x] # Closed
        BY <3>1, OpenConn, ConnFields
      <3>3. /\ conn[x].fwd \in {None} \cup 0 .. revision[conn[x].d]
            /\ conn[x].seen \in {None} \cup 0 .. revision[conn[x].d]
            /\ conn[x].paired => conn[x].seen # None
        BY <3>1, <3>2 DEF SeenInv
      <3>4. \A v \in {None} \cup 0 .. revision[conn[x].d] :
              v \in {None} \cup 0 .. revision'[conn[x].d]
        BY <2>2, <3>2
      <3> QED
        BY <3>1, <3>3, <3>4
    <2> QED
      BY <2>3, <2>4
  <1>21. ASSUME Crash PROVE SeenInv'
    BY <1>21 DEF Crash, SeenInv
  <1>22. ASSUME UNCHANGED <<conn, revision>> PROVE SeenInv'
    BY <1>22 DEF SeenInv
  <1>23. ASSUME begin_pairing \/ DesktopLeaves \/ CodeLapses \/ Restart PROVE SeenInv'
    BY <1>23, <1>22 DEF Moved, Goto, Close, At, Advance, BeginRemoval,
       begin_pairing, DesktopLeaves, CodeLapses, Restart
  <1>24. ASSUME NEW i \in RequestIds, NEW yes \in BOOLEAN,
               approve(i, yes)
         PROVE  SeenInv'
    BY <1>24, <1>22 DEF Moved, Goto, Close, At, Advance, BeginRemoval, approve
  <1>25. ASSUME NEW d \in Devices,
               RemoveDevice(d)
         PROVE  SeenInv'
    BY <1>25, <1>22 DEF Moved, Goto, Close, At, Advance, BeginRemoval,
       RemoveDevice
  <1> QED
    BY <1>1, <1>2, <1>3, <1>4, <1>5, <1>6, <1>7, <1>8, <1>9, <1>10, <1>11,
       <1>12, <1>13, <1>14, <1>15, <1>16, <1>17, <1>18, <1>19, <1>20, <1>21,
       <1>22, <1>23, <1>24, <1>25 DEF Next, Desktop, Phone

-----------------------------------------------------------------------------
(***************************************************************************)
(* Codes and requests.                                                     *)
(***************************************************************************)
LEMMA RequestEnters ==
  ASSUME Typed, NEW c \in Conns, RightCode(c)
  PROVE  /\ code \in ActiveCode /\ code # None
         /\ Len(requests') = Len(requests) + 1 /\ Len(requests) \in Nat
         /\ \A i \in 1 .. Len(requests) : requests'[i] = requests[i]
         /\ requests'[Len(requests) + 1].d = conn[c].d
         /\ requests'[Len(requests) + 1].k = code.id
  BY DEF RightCode, Typed, ManagerTyped

LEMMA CodeStep ==
  ASSUME Typed, CodeInv, [Next]_vars
  PROVE  CodeInv'
  <1> USE DEF vars, manager, registry, history
  <1>1. ASSUME begin_pairing PROVE CodeInv'
    <2>1. codes + 1 \in CodeIds /\ codes \in Nat
      BY <1>1, AccessAssumption DEF begin_pairing, Typed, ManagerTyped, ConnsTyped,
         Scenario, CodeIds
    <2>2. /\ code' # None /\ code'.id = codes + 1 /\ code'.attempts = 0
          /\ codes' = codes + 1 /\ UNCHANGED <<wrong, requests>>
      <3>1. code' \in ActiveCode
        BY <1>1, <2>1 DEF begin_pairing, ActiveCode
      <3> QED
        BY <1>1, <3>1, AccessAssumption DEF begin_pairing
    <2>3. \A i \in 1 .. Len(requests) : requests[i].k \in CodeIds
      <3>1. ASSUME NEW i \in 1 .. Len(requests) PROVE requests[i] \in PairingRequest
        BY DEF Typed, ManagerTyped
      <3> QED
        BY <3>1 DEF PairingRequest
    <2> QED
      BY <2>1, <2>2, <2>3, AccessAssumption DEF CodeInv, CodeIds
  <1>2. ASSUME DesktopLeaves PROVE CodeInv'
    <2>1. /\ code' # None /\ code'.id = code.id /\ code'.attempts = code.attempts
          /\ code # None /\ UNCHANGED <<codes, wrong, requests>>
      BY <1>2, AccessAssumption DEF DesktopLeaves, Typed, ManagerTyped, ActiveCode
    <2> QED
      BY <2>1 DEF CodeInv
  <1>3. ASSUME NEW c \in Conns, RightCode(c) PROVE CodeInv'
    <2>1. code' = None /\ UNCHANGED <<codes, wrong>>
      BY <1>3 DEF RightCode, Consumed
    <2> QED
      BY <1>3, <2>1, RequestEnters DEF CodeInv
  <1>4. ASSUME NEW c \in Conns, WrongCode(c) PROVE CodeInv'
    <2>1. CASE code = None
      BY <1>4, <2>1 DEF WrongCode, CodeInv
    <2>2. CASE code # None
      <3>1. code.id \in CodeIds /\ code.attempts \in Nat /\ code.id <= codes
        BY <2>2 DEF Typed, ManagerTyped, ActiveCode, CodeInv
      <3>2. /\ UNCHANGED <<codes, requests>>
            /\ wrong' = [wrong EXCEPT ![code.id] = wrong[code.id] + 1]
            /\ \/ code' = None
               \/ /\ code'.id = code.id /\ code'.attempts = code.attempts + 1
                  /\ code.attempts + 1 < MaxAttempts
        BY <1>4, <2>2, AccessAssumption
        DEF WrongCode, TriesLeft, Typed, ManagerTyped, ActiveCode
      <3>3. \A k \in CodeIds : wrong'[k] = IF k = code.id THEN wrong[k] + 1 ELSE wrong[k]
        BY <3>2 DEF Typed, ManagerTyped
      <3>4. codes \in Nat /\ \A k \in CodeIds : k \in Nat
        BY AccessAssumption DEF Typed, ManagerTyped, CodeIds
      <3> QED
        BY <2>2, <3>1, <3>2, <3>3, <3>4 DEF CodeInv
    <2> QED
      BY <2>1, <2>2
  <1>5. ASSUME Crash PROVE CodeInv'
    BY <1>5 DEF Crash, CodeInv
  <1>6. ASSUME UNCHANGED <<code, codes, wrong, requests>> PROVE CodeInv'
    BY <1>6 DEF CodeInv
  <1>7. ASSUME CodeLapses \/ Restart PROVE CodeInv'
    BY <1>7, <1>6 DEF Moved, Goto, Close, At, Advance, BeginRemoval,
       CodeLapses, Restart
  <1>8. ASSUME NEW i \in RequestIds, NEW yes \in BOOLEAN,
              approve(i, yes)
        PROVE  CodeInv'
    BY <1>8, <1>6 DEF Moved, Goto, Close, At, Advance, BeginRemoval, approve
  <1>9. ASSUME NEW d \in Devices,
              RemoveDevice(d)
        PROVE  CodeInv'
    BY <1>9, <1>6 DEF Moved, Goto, Close, At, Advance, BeginRemoval,
       RemoveDevice
  <1>10. ASSUME NEW c \in Conns, NEW d \in scenario.phones, NEW v5 \in BOOLEAN,
               Accept(c, d, v5)
         PROVE  CodeInv'
    BY <1>10, <1>6 DEF Moved, Goto, Close, At, Advance, BeginRemoval, Accept
  <1>11. ASSUME NEW c \in Conns,
               Hello(c) \/ Watch(c) \/ mark_device_seen(c) \/ Recheck(c) \/
               NoticeRevocation(c) \/ HangUp(c) \/ StartForwarder(c) \/
               StopForwarder(c) \/
               (\E t \in scenario.tokens : update_device_push(c, t) \/ clear_device_push(c, t)) \/
               UnpairSelf(c) \/ Wait(c) \/ SaveRow(c)
               \/ InsertDevice(c)
         PROVE  CodeInv'
    BY <1>11, <1>6 DEF Moved, Goto, Close, At, Advance, BeginRemoval, Hello,
       Watch, mark_device_seen, Recheck, NoticeRevocation, HangUp,
       StartForwarder, StopForwarder, update_device_push, clear_device_push,
       UnpairSelf, Wait, SaveRow, InsertDevice
  <1>12. ASSUME NEW c \in Conns, NEW pc \in scenario.asks,
               Receive(c, pc)
         PROVE  CodeInv'
    BY <1>12, <1>6 DEF Moved, Goto, Close, At, Advance, BeginRemoval, Receive
  <1>13. ASSUME NEW who \in Conns \cup {None},
               EraseRow(who) \/ ForgetDevice(who) \/
              RevokeConnections(who) \/ UnregisterToken(who)
         PROVE  CodeInv'
    BY <1>13, <1>6 DEF Moved, Goto, Close, At, Advance, BeginRemoval,
       EraseRow, Removed, ForgetDevice, RevokeConnections, UnregisterToken
  <1> QED
    BY <1>1, <1>2, <1>3, <1>4, <1>5, <1>6, <1>7, <1>8, <1>9, <1>10, <1>11,
       <1>12, <1>13 DEF Next, Desktop, Phone

-----------------------------------------------------------------------------
(***************************************************************************)
(* Approval.                                                               *)
(***************************************************************************)
LEMMA AnsweredStep ==
  ASSUME Typed, AnsweredInv, [Next]_vars
  PROVE  AnsweredInv'
  <1> USE DEF vars, manager, registry, history
  <1>1. ASSUME NEW i \in RequestIds, NEW yes \in BOOLEAN, approve(i, yes)
        PROVE  AnsweredInv'
    BY <1>1 DEF approve, AnsweredInv, Typed, ManagerTyped
  <1>2. ASSUME Crash PROVE AnsweredInv'
    BY <1>2, AccessAssumption DEF Crash, AnsweredInv
  <1>3. ASSUME UNCHANGED <<answers, approved>> PROVE AnsweredInv'
    BY <1>3 DEF AnsweredInv
  <1>4. ASSUME begin_pairing \/ DesktopLeaves \/ CodeLapses \/ Restart PROVE AnsweredInv'
    BY <1>4, <1>3 DEF Moved, Goto, Close, At, Advance, BeginRemoval,
       begin_pairing, DesktopLeaves, CodeLapses, Restart
  <1>5. ASSUME NEW d \in Devices,
              RemoveDevice(d)
        PROVE  AnsweredInv'
    BY <1>5, <1>3 DEF Moved, Goto, Close, At, Advance, BeginRemoval,
       RemoveDevice
  <1>6. ASSUME NEW c \in Conns, NEW d \in scenario.phones, NEW v5 \in BOOLEAN,
              Accept(c, d, v5)
        PROVE  AnsweredInv'
    BY <1>6, <1>3 DEF Moved, Goto, Close, At, Advance, BeginRemoval, Accept
  <1>7. ASSUME NEW c \in Conns,
              Hello(c) \/ Watch(c) \/ mark_device_seen(c) \/ Recheck(c) \/
              NoticeRevocation(c) \/ HangUp(c) \/ StartForwarder(c) \/
              StopForwarder(c) \/
              (\E t \in scenario.tokens : update_device_push(c, t) \/ clear_device_push(c, t)) \/
              UnpairSelf(c) \/ RightCode(c) \/
              WrongCode(c) \/ Wait(c) \/ SaveRow(c) \/ InsertDevice(c)
        PROVE  AnsweredInv'
    BY <1>7, <1>3 DEF Moved, Goto, Close, At, Advance, BeginRemoval, Hello,
       Watch, mark_device_seen, Recheck, NoticeRevocation, HangUp,
       StartForwarder, StopForwarder, update_device_push, clear_device_push,
       UnpairSelf, RightCode, WrongCode, Wait, SaveRow, InsertDevice
  <1>8. ASSUME NEW c \in Conns, NEW pc \in scenario.asks,
              Receive(c, pc)
        PROVE  AnsweredInv'
    BY <1>8, <1>3 DEF Moved, Goto, Close, At, Advance, BeginRemoval, Receive
  <1>9. ASSUME NEW who \in Conns \cup {None},
              EraseRow(who) \/ ForgetDevice(who) \/
              RevokeConnections(who) \/ UnregisterToken(who)
        PROVE  AnsweredInv'
    BY <1>9, <1>3 DEF Moved, Goto, Close, At, Advance, BeginRemoval,
       EraseRow, Removed, ForgetDevice, RevokeConnections, UnregisterToken
  <1> QED
    BY <1>1, <1>2, <1>3, <1>4, <1>5, <1>6, <1>7, <1>8, <1>9 DEF Next, Desktop,
       Phone

LEMMA AskedTurn ==
  ASSUME AskedInv, NEW c \in Conns, OnlyConn(c), UNCHANGED <<requests, approved>>,
         conn'[c].pc \notin {"wait", "save", "insert"}
  PROVE  AskedInv'
  BY DEF AskedInv, OnlyConn

LEMMA AskedStep ==
  ASSUME Typed, AnsweredInv, AskedInv, [Next]_vars
  PROVE  AskedInv'
  <1> USE DEF vars, manager, registry, history
  <1>1. ASSUME NEW i \in RequestIds, NEW yes \in BOOLEAN, approve(i, yes)
        PROVE  AskedInv'
    BY <1>1 DEF approve, AskedInv
  <1>2. ASSUME NEW c \in Conns, NEW d \in scenario.phones, NEW v5 \in BOOLEAN,
               Accept(c, d, v5)
        PROVE  AskedInv'
    <2>1. /\ OnlyConn(c) /\ ConnsTyped' /\ conn[c] = Closed
          /\ conn'[c] \in Connection /\ conn'[c].d = d
          /\ conn'[c].pc = "hello" /\ ~conn'[c].paired
          /\ conn'[c].seen = None /\ conn'[c].fwd = None
      BY <1>2, AcceptTurn
    <2> QED
      BY <1>2, <2>1, AskedTurn DEF Accept, Turn, Step, Closes, OnlyConn, Closed, Requests
  <1>3. ASSUME NEW c \in Conns, Hello(c) PROVE AskedInv'
    <2>1. \/ Closes(c)
          \/ is_device_paired(conn[c].d) /\
             Turn(c, "watch", TRUE, conn[c].seen, conn[c].fwd, conn[c].req)
          \/ ~is_device_paired(conn[c].d) /\
             Turn(c, "loop", FALSE, conn[c].seen, conn[c].fwd, conn[c].req)
      BY <1>3, HelloTurn
    <2> QED
      BY <1>3, <2>1, AskedTurn DEF Hello, Turn, Step, Closes, OnlyConn, Closed, Requests
  <1>4. ASSUME NEW c \in Conns, Watch(c) PROVE AskedInv'
    <2>1. Turn(c, IF conn[c].pc = "watch" THEN "mark" ELSE "loop", TRUE,
               revision[conn[c].d], conn[c].fwd, conn[c].req)
      BY <1>4, WatchTurn
    <2> QED
      BY <1>4, <2>1, AskedTurn DEF Watch, Turn, Step, Closes, OnlyConn, Closed, Requests
  <1>5. ASSUME NEW c \in Conns, mark_device_seen(c) PROVE AskedInv'
    <2>1. Step(c, "recheck")
      BY <1>5, mark_device_seenTurn
    <2> QED
      BY <1>5, <2>1, AskedTurn DEF mark_device_seen, Turn, Step, Closes, OnlyConn, Closed, Requests
  <1>6. ASSUME NEW c \in Conns, Recheck(c) PROVE AskedInv'
    <2>1. Closes(c) \/ (is_device_paired(conn[c].d) /\ Step(c, "loop"))
      BY <1>6, RecheckTurn
    <2> QED
      BY <1>6, <2>1, AskedTurn DEF Recheck, Turn, Step, Closes, OnlyConn, Closed, Requests
  <1>7. ASSUME NEW c \in Conns, NoticeRevocation(c) PROVE AskedInv'
    <2>1. Closes(c)
      BY <1>7, NoticeRevocationTurn
    <2> QED
      BY <1>7, <2>1, AskedTurn DEF NoticeRevocation, Turn, Step, Closes, OnlyConn, Closed, Requests
  <1>8. ASSUME NEW c \in Conns, HangUp(c) PROVE AskedInv'
    <2>1. Closes(c)
      BY <1>8, HangUpTurn
    <2> QED
      BY <1>8, <2>1, AskedTurn DEF HangUp, Turn, Step, Closes, OnlyConn, Closed, Requests
  <1>9. ASSUME NEW c \in Conns, NEW pc \in scenario.asks, Receive(c, pc)
        PROVE  AskedInv'
    <2>1. \/ Closes(c)
          \/ StillPaired(c) /\ Allowed(c, pc) /\ pc \in Requests /\ Step(c, pc)
      BY <1>9, ReceiveTurn
    <2> QED
      BY <1>9, <2>1, AskedTurn DEF Receive, Turn, Step, Closes, OnlyConn, Closed, Requests
  <1>10. ASSUME NEW c \in Conns, StartForwarder(c) PROVE AskedInv'
    <2>1. Turn(c, "loop", conn[c].paired, conn[c].seen, conn[c].seen,
               conn[c].req)
      BY <1>10, StartForwarderTurn
    <2> QED
      BY <1>10, <2>1, AskedTurn DEF StartForwarder, Turn, Step, Closes, OnlyConn, Closed, Requests
  <1>11. ASSUME NEW c \in Conns, StopForwarder(c) PROVE AskedInv'
    <2>1. Turn(c, conn[c].pc, conn[c].paired, conn[c].seen, None, conn[c].req)
      BY <1>11, StopForwarderTurn
    <2>2. UNCHANGED <<requests, approved>>
      BY <1>11 DEF StopForwarder
    <2> QED
      BY <2>1, <2>2 DEF Turn, OnlyConn, AskedInv
  <1>12. ASSUME NEW c \in Conns, NEW t \in scenario.tokens,
               update_device_push(c, t) PROVE AskedInv'
    <2>1. Step(c, "loop")
      BY <1>12, update_device_pushTurn
    <2> QED
      BY <1>12, <2>1, AskedTurn DEF update_device_push, Turn, Step, Closes, OnlyConn, Closed, Requests
  <1>13. ASSUME NEW c \in Conns, NEW t \in scenario.tokens,
               clear_device_push(c, t) PROVE AskedInv'
    <2>1. Step(c, "loop")
      BY <1>13, clear_device_pushTurn
    <2> QED
      BY <1>13, <2>1, AskedTurn DEF clear_device_push, Turn, Step, Closes, OnlyConn, Closed, Requests
  <1>14. ASSUME NEW c \in Conns, UnpairSelf(c) PROVE AskedInv'
    <2>1. \/ is_device_paired(conn[c].d) /\ Step(c, "erase")
          \/ ~is_device_paired(conn[c].d) /\
             Turn(c, "loop", FALSE, None, conn[c].fwd, conn[c].req)
      BY <1>14, UnpairSelfTurn
    <2> QED
      BY <1>14, <2>1, AskedTurn DEF UnpairSelf, BeginRemoval, Turn, Step, Closes, OnlyConn, Closed, Requests
  <1>15. ASSUME NEW c \in Conns, RightCode(c) PROVE AskedInv'
    <2>1. \/ /\ approvals' = approvals \cup {Len(requests) + 1}
             /\ prompts' = prompts \cup {Len(requests) + 1}
             /\ Turn(c, "wait", conn[c].paired, conn[c].seen, conn[c].fwd,
                     Len(requests) + 1)
          \/ /\ UNCHANGED <<approvals, prompts>>
             /\ Turn(c, "loop", conn[c].paired, conn[c].seen, conn[c].fwd, None)
      BY <1>15, RightCodeTurn
    <2>2. UNCHANGED approved
      BY <1>15 DEF RightCode
    <2> QED
      BY <1>15, <2>1, <2>2, RequestEnters DEF Turn, OnlyConn, AskedInv
  <1>16. ASSUME NEW c \in Conns, WrongCode(c) PROVE AskedInv'
    <2>1. Step(c, "loop")
      BY <1>16, WrongCodeTurn
    <2> QED
      BY <1>16, <2>1, AskedTurn DEF WrongCode, Turn, Step, Closes, OnlyConn, Closed, Requests
  <1>17. ASSUME NEW c \in Conns, Wait(c) PROVE AskedInv'
    <2>1. \/ /\ answers[conn[c].req] # None /\ answers[conn[c].req]
             /\ UNCHANGED approvals
             /\ Turn(c, "save", conn[c].paired, conn[c].seen, conn[c].fwd,
                     conn[c].req)
          \/ /\ approvals' \subseteq approvals
             /\ Turn(c, "loop", conn[c].paired, conn[c].seen, conn[c].fwd, None)
      BY <1>17, WaitTurn
    <2>2. conn[c].pc = "wait" /\ UNCHANGED <<requests, approved>>
      BY <1>17 DEF Wait, At
    <2>3. conn[c].req \in 1 .. Len(requests) /\ requests[conn[c].req].d = conn[c].d
      BY <2>2 DEF AskedInv
    <2>4. answers[conn[c].req] \in BOOLEAN \cup {None} /\ conn[c].req \in RequestIds
      BY <2>3, AccessAssumption DEF Typed, ManagerTyped, RequestIds
    <2>5. answers[conn[c].req] # None /\ answers[conn[c].req]
            => conn[c].req \in approved
      BY <2>4 DEF AnsweredInv
    <2> QED
      BY <2>1, <2>2, <2>3, <2>5 DEF Turn, OnlyConn, AskedInv
  <1>18. ASSUME NEW c \in Conns, SaveRow(c) PROVE AskedInv'
    <2>1. Closes(c) \/ Step(c, "insert")
      BY <1>18, SaveRowTurn
    <2>2. conn[c].pc = "save" /\ UNCHANGED <<requests, approved>>
      BY <1>18 DEF SaveRow, At
    <2> QED
      BY <2>1, <2>2, AskedTurn DEF Turn, Step, Closes, OnlyConn, Closed, AskedInv
  <1>19. ASSUME NEW c \in Conns, InsertDevice(c) PROVE AskedInv'
    <2>1. Turn(c, "completed", conn[c].paired, conn[c].seen, conn[c].fwd, None)
      BY <1>19, InsertDeviceTurn
    <2> QED
      BY <1>19, <2>1, AskedTurn DEF InsertDevice, Turn, Step, Closes, OnlyConn, Closed, Requests
  <1>20. ASSUME NEW who \in Conns \cup {None}, EraseRow(who) PROVE AskedInv'
    <2>1. \/ /\ who = None /\ remover \in Removal /\ remover.pc = "erase"
             /\ UNCHANGED <<conn, scenario, up>> /\ ConnsTyped'
             /\ \/ /\ rows' = [rows EXCEPT ![remover.d] = None]
                   /\ remover' \in Removal
                   /\ remover'.pc = "forget" /\ remover'.d = remover.d
                \/ UNCHANGED rows /\ remover' = Quiet
          \/ /\ who \in Conns /\ conn[who].pc = "erase"
             /\ \/ /\ rows' = [rows EXCEPT ![conn[who].d] = None]
                   /\ Step(who, "forget")
                \/ UNCHANGED rows /\ Step(who, "loop")
      BY <1>20, EraseRowTurn
    <2>2. UNCHANGED <<requests, approved>>
      BY <1>20 DEF EraseRow
    <2> QED
      BY <2>1, <2>2 DEF Turn, Step, Closes, OnlyConn, AskedInv
  <1>21. ASSUME NEW who \in Conns \cup {None},
                ForgetDevice(who) \/ RevokeConnections(who) \/ UnregisterToken(who)
         PROVE  AskedInv'
    <2>1. UNCHANGED conn \/ (who \in Conns /\ OnlyConn(who)
                            /\ conn'[who].pc \in {"revoke", "unregister", "loop"})
      BY <1>21, ForgetDeviceTurn, RevokeConnectionsTurn, UnregisterTokenTurn
         DEF Proceeds, Ends, Step, Turn
    <2>2. UNCHANGED <<requests, approved>>
      BY <1>21 DEF ForgetDevice, RevokeConnections, UnregisterToken
    <2> QED
      BY <2>1, <2>2, AskedTurn DEF AskedInv
  <1>22. ASSUME Crash PROVE AskedInv'
    BY <1>22 DEF Crash, AskedInv, Closed
  <1>23. ASSUME UNCHANGED <<conn, requests, approved>> PROVE AskedInv'
    BY <1>23 DEF AskedInv
  <1>24. ASSUME begin_pairing \/ DesktopLeaves \/ CodeLapses \/ Restart PROVE AskedInv'
    BY <1>24, <1>23 DEF Moved, Goto, Close, At, Advance, BeginRemoval,
       begin_pairing, DesktopLeaves, CodeLapses, Restart
  <1>25. ASSUME NEW d \in Devices,
               RemoveDevice(d)
         PROVE  AskedInv'
    BY <1>25, <1>23 DEF Moved, Goto, Close, At, Advance, BeginRemoval,
       RemoveDevice
  <1> QED
    BY <1>1, <1>2, <1>3, <1>4, <1>5, <1>6, <1>7, <1>8, <1>9, <1>10, <1>11,
       <1>12, <1>13, <1>14, <1>15, <1>16, <1>17, <1>18, <1>19, <1>20, <1>21,
       <1>22, <1>23, <1>24, <1>25 DEF Next, Desktop, Phone

LEMMA GrantedStep ==
  ASSUME Typed, AskedInv, GrantedInv, [Next]_vars
  PROVE  GrantedInv'
  <1> USE DEF vars, manager, registry, history
  <1>1. ASSUME NEW c \in Conns, RightCode(c) PROVE GrantedInv'
    <2>1. UNCHANGED granted
      BY <1>1 DEF RightCode
    <2> QED
      BY <1>1, <2>1, RequestEnters DEF GrantedInv
  <1>2. ASSUME NEW c \in Conns, InsertDevice(c) PROVE GrantedInv'
    <2>1. /\ conn[c].req \in 1 .. Len(requests)
          /\ requests[conn[c].req].d = conn[c].d
      BY <1>2 DEF InsertDevice, At, AskedInv
    <2>2. /\ UNCHANGED requests
          /\ granted' = [granted EXCEPT ![requests[conn[c].req].k] =
                           granted[requests[conn[c].req].k] \cup {conn[c].d}]
      BY <1>2 DEF InsertDevice
    <2>3. \A k \in CodeIds : \A d \in granted'[k] :
            \/ d \in granted[k]
            \/ d = conn[c].d /\ k = requests[conn[c].req].k
      BY <2>2 DEF Typed, ManagerTyped
    <2> QED
      BY <2>1, <2>2, <2>3 DEF GrantedInv
  <1>3. ASSUME UNCHANGED <<granted, requests>> PROVE GrantedInv'
    BY <1>3 DEF GrantedInv
  <1>4. ASSUME begin_pairing \/ DesktopLeaves \/ CodeLapses \/ Crash \/ Restart PROVE GrantedInv'
    BY <1>4, <1>3 DEF Moved, Goto, Close, At, Advance, BeginRemoval,
       begin_pairing, DesktopLeaves, CodeLapses, Crash, Restart
  <1>5. ASSUME NEW i \in RequestIds, NEW yes \in BOOLEAN,
              approve(i, yes)
        PROVE  GrantedInv'
    BY <1>5, <1>3 DEF Moved, Goto, Close, At, Advance, BeginRemoval, approve
  <1>6. ASSUME NEW d \in Devices,
              RemoveDevice(d)
        PROVE  GrantedInv'
    BY <1>6, <1>3 DEF Moved, Goto, Close, At, Advance, BeginRemoval,
       RemoveDevice
  <1>7. ASSUME NEW c \in Conns, NEW d \in scenario.phones, NEW v5 \in BOOLEAN,
              Accept(c, d, v5)
        PROVE  GrantedInv'
    BY <1>7, <1>3 DEF Moved, Goto, Close, At, Advance, BeginRemoval, Accept
  <1>8. ASSUME NEW c \in Conns,
              Hello(c) \/ Watch(c) \/ mark_device_seen(c) \/ Recheck(c) \/
              NoticeRevocation(c) \/ HangUp(c) \/ StartForwarder(c) \/
              StopForwarder(c) \/
              (\E t \in scenario.tokens : update_device_push(c, t) \/ clear_device_push(c, t)) \/
              UnpairSelf(c) \/ WrongCode(c) \/ Wait(c)
              \/ SaveRow(c)
        PROVE  GrantedInv'
    BY <1>8, <1>3 DEF Moved, Goto, Close, At, Advance, BeginRemoval, Hello,
       Watch, mark_device_seen, Recheck, NoticeRevocation, HangUp,
       StartForwarder, StopForwarder, update_device_push, clear_device_push,
       UnpairSelf, WrongCode, Wait, SaveRow
  <1>9. ASSUME NEW c \in Conns, NEW pc \in scenario.asks,
              Receive(c, pc)
        PROVE  GrantedInv'
    BY <1>9, <1>3 DEF Moved, Goto, Close, At, Advance, BeginRemoval, Receive
  <1>10. ASSUME NEW who \in Conns \cup {None},
               EraseRow(who) \/ ForgetDevice(who) \/
              RevokeConnections(who) \/ UnregisterToken(who)
         PROVE  GrantedInv'
    BY <1>10, <1>3 DEF Moved, Goto, Close, At, Advance, BeginRemoval,
       EraseRow, Removed, ForgetDevice, RevokeConnections, UnregisterToken
  <1> QED
    BY <1>1, <1>2, <1>3, <1>4, <1>5, <1>6, <1>7, <1>8, <1>9, <1>10 DEF Next,
       Desktop, Phone

\* Who is paired after a step was so before it, or was just approved.
LEMMA OnlyFrame ==
  ASSUME Typed, OnlyApproved, UNCHANGED scenario, approved \subseteq approved',
         \A i \in 1 .. Len(requests) : requests'[i] = requests[i],
         \A d \in Devices : devices'[d] # None \/ rows'[d] # None =>
           \/ devices[d] # None \/ rows[d] # None
           \/ \E i \in approved : requests[i].d = d
  PROVE  OnlyApproved'
  <1> SUFFICES ASSUME NEW d \in Devices, devices'[d] # None \/ rows'[d] # None
               PROVE  d \in scenario.paired \cup {requests'[i].d : i \in approved'}
    BY DEF OnlyApproved
  <1>1. d \in scenario.paired \/ \E i \in approved : requests[i].d = d
    BY DEF OnlyApproved
  <1>2. \A i \in approved : i \in approved' /\ requests'[i].d = requests[i].d
    BY DEF Typed, ManagerTyped
  <1> QED
    BY <1>1, <1>2

LEMMA OnlyStep ==
  ASSUME Typed, AskedInv, OnlyApproved, [Next]_vars
  PROVE  OnlyApproved'
  <1> USE DEF vars, manager, registry, history
  <1>1. ASSUME NEW i \in RequestIds, NEW yes \in BOOLEAN, approve(i, yes)
        PROVE  OnlyApproved'
    BY <1>1, OnlyFrame DEF approve
  <1>2. ASSUME NEW c \in Conns, mark_device_seen(c) PROVE OnlyApproved'
    <2>1. UNCHANGED <<scenario, approved, requests>>
      BY <1>2 DEF mark_device_seen, Goto, Moved
    <2>2. \A d \in Devices : devices'[d] # None \/ rows'[d] # None =>
            devices[d] # None \/ rows[d] # None
      BY <1>2 DEF mark_device_seen, Saved, Stored, is_device_paired, Typed, RegistryTyped
    <2> QED
      BY <2>1, <2>2, OnlyFrame
  <1>3. ASSUME NEW c \in Conns, NEW t \in scenario.tokens,
               update_device_push(c, t) PROVE OnlyApproved'
    <2>1. UNCHANGED <<scenario, approved, requests>>
      BY <1>3 DEF update_device_push, Goto, Moved
    <2>2. \A d \in Devices : devices'[d] # None \/ rows'[d] # None =>
            devices[d] # None \/ rows[d] # None
      BY <1>3 DEF update_device_push, Saved, Stored, is_device_paired, Typed, RegistryTyped
    <2> QED
      BY <2>1, <2>2, OnlyFrame
  <1>4. ASSUME NEW c \in Conns, NEW t \in scenario.tokens,
               clear_device_push(c, t) PROVE OnlyApproved'
    <2>1. UNCHANGED <<scenario, approved, requests>>
      BY <1>4 DEF clear_device_push, Goto, Moved
    <2>2. \A d \in Devices : devices'[d] # None \/ rows'[d] # None =>
            devices[d] # None \/ rows[d] # None
      BY <1>4 DEF clear_device_push, TokenOf, Stored, is_device_paired, Typed, RegistryTyped
    <2> QED
      BY <2>1, <2>2, OnlyFrame
  <1>5. ASSUME NEW c \in Conns, RightCode(c) PROVE OnlyApproved'
    <2>1. UNCHANGED <<scenario, approved, devices, rows>>
      BY <1>5 DEF RightCode, Moved
    <2> QED
      BY <1>5, <2>1, RequestEnters, OnlyFrame
  <1>6. ASSUME NEW c \in Conns, SaveRow(c) PROVE OnlyApproved'
    <2>1. UNCHANGED <<scenario, approved, requests>>
      BY <1>6 DEF SaveRow, Goto, Moved, Close
    <2>2. conn[c].req \in approved /\ requests[conn[c].req].d = conn[c].d
      BY <1>6 DEF SaveRow, At, AskedInv
    <2>3. \A d \in Devices : devices'[d] # None \/ rows'[d] # None =>
            devices[d] # None \/ rows[d] # None \/ d = conn[c].d
      BY <1>6 DEF SaveRow, Stored, Typed, RegistryTyped
    <2> QED
      BY <2>1, <2>2, <2>3, OnlyFrame
  <1>7. ASSUME NEW c \in Conns, InsertDevice(c) PROVE OnlyApproved'
    <2>1. UNCHANGED <<scenario, approved, requests>>
      BY <1>7 DEF InsertDevice, Goto, Moved, Close
    <2>2. conn[c].req \in approved /\ requests[conn[c].req].d = conn[c].d
      BY <1>7 DEF InsertDevice, At, AskedInv
    <2>3. \A d \in Devices : devices'[d] # None \/ rows'[d] # None =>
            devices[d] # None \/ rows[d] # None \/ d = conn[c].d
      BY <1>7 DEF InsertDevice, Stored, Typed, RegistryTyped
    <2> QED
      BY <2>1, <2>2, <2>3, OnlyFrame
  <1>8. ASSUME NEW who \in Conns \cup {None}, EraseRow(who)
        PROVE  OnlyApproved'
    <2>1. UNCHANGED <<scenario, approved, requests, devices>>
      BY <1>8 DEF EraseRow, Advance
    <2>2. \A d \in Devices : rows'[d] # None => rows[d] # None
      BY <1>8 DEF EraseRow, Typed, RegistryTyped
    <2> QED
      BY <2>1, <2>2, OnlyFrame
  <1>9. ASSUME NEW who \in Conns \cup {None},
               ForgetDevice(who) \/ RevokeConnections(who) \/ UnregisterToken(who)
        PROVE  OnlyApproved'
    <2>1. UNCHANGED <<scenario, approved, requests, rows>>
      BY <1>9 DEF ForgetDevice, RevokeConnections, UnregisterToken
    <2>2. \A d \in Devices : devices'[d] # None => devices[d] # None
      BY <1>9 DEF ForgetDevice, RevokeConnections, UnregisterToken, Typed, RegistryTyped
    <2> QED
      BY <2>1, <2>2, OnlyFrame
  <1>10. ASSUME Crash PROVE OnlyApproved'
    BY <1>10, OnlyFrame DEF Crash
  <1>11. ASSUME Restart PROVE OnlyApproved'
    BY <1>11, OnlyFrame DEF Restart, load_devices
  <1>12. ASSUME UNCHANGED <<scenario, devices, rows, requests, approved>>
         PROVE  OnlyApproved'
    BY <1>12 DEF OnlyApproved
  <1>13. ASSUME begin_pairing \/ DesktopLeaves \/ CodeLapses PROVE OnlyApproved'
    BY <1>13, <1>12 DEF Moved, Goto, Close, At, Advance, BeginRemoval,
       begin_pairing, DesktopLeaves, CodeLapses
  <1>14. ASSUME NEW d \in Devices,
               RemoveDevice(d)
         PROVE  OnlyApproved'
    BY <1>14, <1>12 DEF Moved, Goto, Close, At, Advance, BeginRemoval,
       RemoveDevice
  <1>15. ASSUME NEW c \in Conns, NEW d \in scenario.phones, NEW v5 \in BOOLEAN,
               Accept(c, d, v5)
         PROVE  OnlyApproved'
    BY <1>15, <1>12 DEF Moved, Goto, Close, At, Advance, BeginRemoval, Accept
  <1>16. ASSUME NEW c \in Conns,
               Hello(c) \/ Watch(c) \/ Recheck(c) \/ NoticeRevocation(c) \/
               HangUp(c) \/ StartForwarder(c) \/ StopForwarder(c) \/
               UnpairSelf(c) \/ WrongCode(c) \/ Wait(c)
         PROVE  OnlyApproved'
    BY <1>16, <1>12 DEF Moved, Goto, Close, At, Advance, BeginRemoval, Hello,
       Watch, Recheck, NoticeRevocation, HangUp, StartForwarder,
       StopForwarder, UnpairSelf, WrongCode, Wait
  <1>17. ASSUME NEW c \in Conns, NEW pc \in scenario.asks,
               Receive(c, pc)
         PROVE  OnlyApproved'
    BY <1>17, <1>12 DEF Moved, Goto, Close, At, Advance, BeginRemoval, Receive
  <1> QED
    BY <1>1, <1>2, <1>3, <1>4, <1>5, <1>6, <1>7, <1>8, <1>9, <1>10, <1>11,
       <1>12, <1>13, <1>14, <1>15, <1>16, <1>17 DEF Next, Desktop, Phone

-----------------------------------------------------------------------------
(***************************************************************************)
(* Forwarders are told of a removal.                                       *)
(***************************************************************************)
\* Telling of a token, or its end, and pairing leave the entries of the map.
LEMMA EntriesStay ==
  ASSUME Typed, NEW c \in Conns, NEW t \in Tokens,
         update_device_push(c, t) \/ clear_device_push(c, t)
  PROVE  \A d \in Devices : devices[d] # None => devices'[d] # None
  <1>1. ASSUME NEW e \in StoredDevice, NEW b \in Tokens \cup {None}
        PROVE  [e EXCEPT !.token = b] \in StoredDevice
    BY DEF StoredDevice
  <1>2. ASSUME NEW b \in Tokens \cup {None}, is_device_paired(conn[c].d),
               devices' = [devices EXCEPT ![conn[c].d].token = b]
        PROVE  \A d \in Devices : devices[d] # None => devices'[d] # None
    <2>1. CASE conn[c].d \notin Devices
      BY <1>2, <2>1 DEF Typed, RegistryTyped
    <2>2. CASE conn[c].d \in Devices
      <3>1. devices[conn[c].d] \in StoredDevice
        BY <1>2, <2>2 DEF is_device_paired, Typed, RegistryTyped
      <3>2. [devices[conn[c].d] EXCEPT !.token = b] \in StoredDevice
        BY <1>1, <3>1
      <3> QED
        BY <1>2, <2>2, <3>2, AccessAssumption DEF Typed, RegistryTyped
    <2> QED
      BY <2>1, <2>2
  <1>3. CASE update_device_push(c, t)
    BY <1>2, <1>3 DEF update_device_push, registry
  <1>4. CASE clear_device_push(c, t)
    BY <1>2, <1>4 DEF clear_device_push, TokenOf, registry
  <1> QED
    BY <1>3, <1>4

LEMMA EntryIsMade ==
  ASSUME Typed, NEW c \in Conns, InsertDevice(c)
  PROVE  \A d \in Devices : devices[d] # None => devices'[d] # None
  <1>1. Unnotified \in StoredDevice
    BY DEF StoredDevice, Unnotified
  <1> QED
    BY <1>1, AccessAssumption DEF InsertDevice, Typed, RegistryTyped

\* What ToldInv says of one connection, in the state after a step.
Told(x) ==
  /\ conn[x].pc = "forward" => conn[x].paired
  /\ conn[x].pc = "forward" =>
       \/ is_device_paired(conn[x].d)
       \/ conn[x].seen # None /\ conn[x].seen < revision[conn[x].d]
       \/ conn[x].d \in Telling
  /\ conn[x] # Closed /\ conn[x].fwd # None =>
       \/ is_device_paired(conn[x].d) \/ conn[x].fwd < revision[conn[x].d]
       \/ conn[x].d \in Telling

\* A connection that is not the one that is about to tell the others.
StaysTelling(c) ==
  conn[c].pc = "revoke" => conn'[c].pc = "revoke" /\ conn'[c].d = conn[c].d

LEMMA TellingTurn ==
  ASSUME NEW c \in Conns, OnlyConn(c), StaysTelling(c)
  PROVE  Telling \subseteq Telling'
  BY TellingIs DEF OnlyConn, StaysTelling

LEMMA ToldTurn ==
  ASSUME Typed, ToldInv, NEW c \in Conns, up, OnlyConn(c), UNCHANGED revision,
         StaysTelling(c),
         \A d \in Devices : devices[d] # None => devices'[d] # None,
         Told(c)'
  PROVE  ToldInv'
  <1> SUFFICES ASSUME NEW x \in Conns PROVE Told(x)'
    BY DEF ToldInv, Told
  <1>0. Telling \subseteq Telling'
    BY TellingTurn
  <1>1. CASE x = c
    BY <1>1
  <1>2. CASE x # c
    <2>1. conn'[x] = conn[x] /\ Told(x)
      BY <1>2 DEF OnlyConn, ToldInv, Told
    <2>2. CASE conn[x] = Closed
      BY <2>1, <2>2 DEF Told, Closed
    <2>3. CASE conn[x] # Closed
      <3>1. conn[x].d \in Devices
        BY <2>3, ConnFields DEF Typed, ConnsTyped
      <3> QED
        BY <1>0, <2>1, <3>1 DEF Told, is_device_paired
    <2> QED
      BY <2>2, <2>3
  <1> QED
    BY <1>1, <1>2

LEMMA ToldMove ==
  ASSUME Typed, ToldInv, NEW c \in Conns, up, conn[c] # Closed,
         conn[c].pc # "revoke", NEW pc, NEW paired, NEW seen, NEW fwd, NEW req,
         Turn(c, pc, paired, seen, fwd, req), UNCHANGED revision,
         \A d \in Devices : devices[d] # None => devices'[d] # None,
         pc # "forward", fwd \in {None, conn[c].fwd}
  PROVE  ToldInv'
  <1>1. conn[c].d \in Devices
    BY ConnFields DEF Typed, ConnsTyped
  <1>2. fwd # None => \/ is_device_paired(conn[c].d) \/ fwd < revision[conn[c].d]
                      \/ conn[c].d \in Telling
    BY DEF ToldInv
  <1>3. StaysTelling(c) /\ Telling \subseteq Telling'
    BY TellingTurn DEF StaysTelling, Turn
  <1>4. Told(c)'
    BY <1>1, <1>2, <1>3 DEF Turn, Told, is_device_paired
  <1> QED
    BY <1>3, <1>4, ToldTurn DEF Turn

LEMMA ToldClose ==
  ASSUME Typed, ToldInv, NEW c \in Conns, up, Closes(c), UNCHANGED <<revision, devices>>,
         conn[c].pc # "revoke"
  PROVE  ToldInv'
  <1>1. Told(c)'
    BY DEF Closes, Told, Closed
  <1> QED
    BY <1>1, ToldTurn DEF Closes, StaysTelling

LEMMA ToldStep ==
  ASSUME Typed, DownInv, SeenInv, ToldInv, [Next]_vars
  PROVE  ToldInv'
  <1> USE DEF vars, manager, registry, history
  <1>1. ASSUME NEW d \in Devices, RemoveDevice(d) PROVE ToldInv'
    <2>1. /\ remover = Quiet /\ UNCHANGED <<up, conn, revision, devices>>
      BY <1>1 DEF RemoveDevice
    <2>2. Telling \subseteq Telling'
      BY <2>1, TellingIs DEF Quiet
    <2> QED
      BY <2>1, <2>2 DEF ToldInv, is_device_paired
  <1>2. ASSUME NEW c \in Conns, NEW d \in scenario.phones, NEW v5 \in BOOLEAN,
               Accept(c, d, v5)
        PROVE  ToldInv'
    <2>1. /\ OnlyConn(c) /\ ConnsTyped' /\ conn[c] = Closed
          /\ conn'[c] \in Connection /\ conn'[c].d = d
          /\ conn'[c].pc = "hello" /\ ~conn'[c].paired
          /\ conn'[c].seen = None /\ conn'[c].fwd = None
      BY <1>2, AcceptTurn
    <2>2. up /\ UNCHANGED <<revision, devices>>
      BY <1>2 DEF Accept, At
    <2>3. Told(c)'
      BY <2>1, <2>2 DEF Told
    <2> QED
      BY <2>1, <2>2, <2>3, ToldTurn DEF StaysTelling, Closed
  <1>3. ASSUME NEW c \in Conns, Hello(c) PROVE ToldInv'
    <2>1. \/ Closes(c)
          \/ is_device_paired(conn[c].d) /\
             Turn(c, "watch", TRUE, conn[c].seen, conn[c].fwd, conn[c].req)
          \/ ~is_device_paired(conn[c].d) /\
             Turn(c, "loop", FALSE, conn[c].seen, conn[c].fwd, conn[c].req)
      BY <1>3, HelloTurn
    <2>2. /\ up /\ UNCHANGED revision /\ conn[c] # Closed /\ conn[c].pc # "revoke"
          /\ \A d \in Devices : devices[d] # None => devices'[d] # None
      BY <1>3 DEF Hello, At, Closed, Typed, RegistryTyped
    <2>3. UNCHANGED devices
      BY <1>3 DEF Hello
    <2> QED
      BY <2>1, <2>2, <2>3, ToldMove, ToldClose DEF Step
  <1>4. ASSUME NEW c \in Conns, Watch(c) PROVE ToldInv'
    <2>1. Turn(c, IF conn[c].pc = "watch" THEN "mark" ELSE "loop", TRUE,
               revision[conn[c].d], conn[c].fwd, conn[c].req)
      BY <1>4, WatchTurn
    <2>2. /\ up /\ UNCHANGED revision /\ conn[c] # Closed /\ conn[c].pc # "revoke"
          /\ \A d \in Devices : devices[d] # None => devices'[d] # None
      BY <1>4 DEF Watch, At, Closed, Typed, RegistryTyped
    <2> QED
      BY <2>1, <2>2, ToldMove DEF Step
  <1>5. ASSUME NEW c \in Conns, mark_device_seen(c) PROVE ToldInv'
    <2>1. Step(c, "recheck")
      BY <1>5, mark_device_seenTurn
    <2>2. /\ up /\ UNCHANGED revision /\ conn[c] # Closed /\ conn[c].pc # "revoke"
          /\ \A d \in Devices : devices[d] # None => devices'[d] # None
      BY <1>5 DEF mark_device_seen, At, Closed, Typed, RegistryTyped
    <2> QED
      BY <2>1, <2>2, ToldMove DEF Step
  <1>6. ASSUME NEW c \in Conns, Recheck(c) PROVE ToldInv'
    <2>1. Closes(c) \/ (is_device_paired(conn[c].d) /\ Step(c, "loop"))
      BY <1>6, RecheckTurn
    <2>2. /\ up /\ UNCHANGED revision /\ conn[c] # Closed /\ conn[c].pc # "revoke"
          /\ \A d \in Devices : devices[d] # None => devices'[d] # None
      BY <1>6 DEF Recheck, At, Closed, Typed, RegistryTyped
    <2>3. UNCHANGED devices
      BY <1>6 DEF Recheck
    <2> QED
      BY <2>1, <2>2, <2>3, ToldMove, ToldClose DEF Step
  <1>7. ASSUME NEW c \in Conns, NoticeRevocation(c) PROVE ToldInv'
    <2>1. Closes(c)
      BY <1>7, NoticeRevocationTurn
    <2> QED
      BY <1>7, <2>1, ToldClose DEF NoticeRevocation, At, Closed
  <1>8. ASSUME NEW c \in Conns, HangUp(c) PROVE ToldInv'
    <2>1. Closes(c)
      BY <1>8, HangUpTurn
    <2> QED
      BY <1>8, <2>1, ToldClose DEF HangUp, At, Closed
  <1>9. ASSUME NEW c \in Conns, NEW pc \in scenario.asks, Receive(c, pc)
        PROVE  ToldInv'
    <2>1. \/ Closes(c)
          \/ StillPaired(c) /\ Allowed(c, pc) /\ pc \in Requests /\ Step(c, pc)
      BY <1>9, ReceiveTurn
    <2>2. up /\ conn[c] # Closed /\ conn[c].pc = "loop" /\ UNCHANGED <<revision, devices>>
      BY <1>9 DEF Receive, At, Closed
    <2>3. CASE Closes(c)
      BY <2>2, <2>3, ToldClose
    <2>4. CASE Step(c, pc) /\ pc # "forward"
      BY <2>2, <2>4, ToldMove DEF Step
    <2>5. CASE /\ StillPaired(c) /\ Allowed(c, "forward")
               /\ Step(c, "forward") /\ pc = "forward"
      <3>1. is_device_paired(conn[c].d) /\ conn[c].paired
        BY <2>5 DEF StillPaired, Allowed
      <3>2. Told(c)'
        BY <2>2, <2>5, <3>1 DEF Step, Turn, Told, is_device_paired
      <3> QED
        BY <2>2, <2>5, <3>2, ToldTurn DEF Step, Turn, StaysTelling
    <2> QED
      BY <2>1, <2>3, <2>4, <2>5
  <1>10. ASSUME NEW c \in Conns, StartForwarder(c) PROVE ToldInv'
    <2>1. Turn(c, "loop", conn[c].paired, conn[c].seen, conn[c].seen,
               conn[c].req)
      BY <1>10, StartForwarderTurn
    <2>2. up /\ conn[c].pc = "forward" /\ UNCHANGED <<revision, devices>>
      BY <1>10 DEF StartForwarder, At
    <2>3. StaysTelling(c) /\ Telling \subseteq Telling'
      BY <2>1, <2>2, TellingTurn DEF StaysTelling, Turn
    <2>4. Told(c)'
      BY <2>1, <2>2, <2>3 DEF Turn, ToldInv, Told, is_device_paired
    <2> QED
      BY <2>1, <2>2, <2>3, <2>4, ToldTurn DEF Turn
  <1>11. ASSUME NEW c \in Conns, StopForwarder(c) PROVE ToldInv'
    <2>1. Turn(c, conn[c].pc, conn[c].paired, conn[c].seen, None, conn[c].req)
      BY <1>11, StopForwarderTurn
    <2>2. up /\ UNCHANGED <<revision, devices>>
      BY <1>11 DEF StopForwarder
    <2>3. StaysTelling(c) /\ Telling \subseteq Telling'
      BY <2>1, <2>2, TellingTurn DEF StaysTelling, Turn
    <2>4. Told(c)'
      BY <2>1, <2>2, <2>3 DEF Turn, ToldInv, Told, is_device_paired
    <2> QED
      BY <2>1, <2>2, <2>3, <2>4, ToldTurn DEF Turn
  <1>12. ASSUME NEW c \in Conns, NEW t \in scenario.tokens,
               update_device_push(c, t) PROVE ToldInv'
    <2>1. Step(c, "loop")
      BY <1>12, update_device_pushTurn
    <2>2. up /\ UNCHANGED revision /\ conn[c] # Closed /\ conn[c].pc # "revoke"
      BY <1>12 DEF update_device_push, At, Closed
    <2>3. t \in Tokens
      BY <1>12 DEF Typed, ConnsTyped, Scenario
    <2> QED
      BY <1>12, <2>1, <2>2, <2>3, ToldMove, EntriesStay DEF Step
  <1>13. ASSUME NEW c \in Conns, NEW t \in scenario.tokens,
               clear_device_push(c, t) PROVE ToldInv'
    <2>1. Step(c, "loop")
      BY <1>13, clear_device_pushTurn
    <2>2. up /\ UNCHANGED revision /\ conn[c] # Closed /\ conn[c].pc # "revoke"
      BY <1>13 DEF clear_device_push, At, Closed
    <2>3. t \in Tokens
      BY <1>13 DEF Typed, ConnsTyped, Scenario
    <2> QED
      BY <1>13, <2>1, <2>2, <2>3, ToldMove, EntriesStay DEF Step
  <1>14. ASSUME NEW c \in Conns, UnpairSelf(c) PROVE ToldInv'
    <2>1. \/ is_device_paired(conn[c].d) /\ Step(c, "erase")
          \/ ~is_device_paired(conn[c].d) /\
             Turn(c, "loop", FALSE, None, conn[c].fwd, conn[c].req)
      BY <1>14, UnpairSelfTurn
    <2>2. /\ up /\ UNCHANGED revision /\ conn[c] # Closed /\ conn[c].pc # "revoke"
          /\ \A d \in Devices : devices[d] # None => devices'[d] # None
      BY <1>14 DEF UnpairSelf, At, Closed, Typed, RegistryTyped
    <2> QED
      BY <2>1, <2>2, ToldMove DEF Step
  <1>15. ASSUME NEW c \in Conns, RightCode(c) PROVE ToldInv'
    <2>1. \/ /\ approvals' = approvals \cup {Len(requests) + 1}
             /\ prompts' = prompts \cup {Len(requests) + 1}
             /\ Turn(c, "wait", conn[c].paired, conn[c].seen, conn[c].fwd,
                     Len(requests) + 1)
          \/ /\ UNCHANGED <<approvals, prompts>>
             /\ Turn(c, "loop", conn[c].paired, conn[c].seen, conn[c].fwd, None)
      BY <1>15, RightCodeTurn
    <2>2. /\ up /\ UNCHANGED revision /\ conn[c] # Closed /\ conn[c].pc # "revoke"
          /\ \A d \in Devices : devices[d] # None => devices'[d] # None
      BY <1>15 DEF RightCode, At, Closed, Typed, RegistryTyped
    <2> QED
      BY <2>1, <2>2, ToldMove DEF Step
  <1>16. ASSUME NEW c \in Conns, WrongCode(c) PROVE ToldInv'
    <2>1. Step(c, "loop")
      BY <1>16, WrongCodeTurn
    <2>2. /\ up /\ UNCHANGED revision /\ conn[c] # Closed /\ conn[c].pc # "revoke"
          /\ \A d \in Devices : devices[d] # None => devices'[d] # None
      BY <1>16 DEF WrongCode, At, Closed, Typed, RegistryTyped
    <2> QED
      BY <2>1, <2>2, ToldMove DEF Step
  <1>17. ASSUME NEW c \in Conns, Wait(c) PROVE ToldInv'
    <2>1. \/ /\ answers[conn[c].req] # None /\ answers[conn[c].req]
             /\ UNCHANGED approvals
             /\ Turn(c, "save", conn[c].paired, conn[c].seen, conn[c].fwd,
                     conn[c].req)
          \/ /\ approvals' \subseteq approvals
             /\ Turn(c, "loop", conn[c].paired, conn[c].seen, conn[c].fwd, None)
      BY <1>17, WaitTurn
    <2>2. /\ up /\ UNCHANGED revision /\ conn[c] # Closed /\ conn[c].pc # "revoke"
          /\ \A d \in Devices : devices[d] # None => devices'[d] # None
      BY <1>17 DEF Wait, At, Closed, Typed, RegistryTyped
    <2> QED
      BY <2>1, <2>2, ToldMove DEF Step
  <1>18. ASSUME NEW c \in Conns, SaveRow(c) PROVE ToldInv'
    <2>1. Closes(c) \/ Step(c, "insert")
      BY <1>18, SaveRowTurn
    <2>2. /\ up /\ UNCHANGED revision /\ conn[c] # Closed /\ conn[c].pc # "revoke"
          /\ \A d \in Devices : devices[d] # None => devices'[d] # None
      BY <1>18 DEF SaveRow, At, Closed, Typed, RegistryTyped
    <2>3. UNCHANGED devices
      BY <1>18 DEF SaveRow
    <2> QED
      BY <2>1, <2>2, <2>3, ToldMove, ToldClose DEF Step
  <1>19. ASSUME NEW c \in Conns, InsertDevice(c) PROVE ToldInv'
    <2>1. Turn(c, "completed", conn[c].paired, conn[c].seen, conn[c].fwd, None)
      BY <1>19, InsertDeviceTurn
    <2>2. up /\ UNCHANGED revision /\ conn[c] # Closed /\ conn[c].pc # "revoke"
      BY <1>19 DEF InsertDevice, At, Closed
    <2> QED
      BY <1>19, <2>1, <2>2, ToldMove, EntryIsMade DEF Step
  <1>20. ASSUME NEW who \in Conns \cup {None}, EraseRow(who) PROVE ToldInv'
    <2>1. \/ /\ who = None /\ remover \in Removal /\ remover.pc = "erase"
             /\ UNCHANGED <<conn, scenario, up>> /\ ConnsTyped'
             /\ \/ /\ rows' = [rows EXCEPT ![remover.d] = None]
                   /\ remover' \in Removal
                   /\ remover'.pc = "forget" /\ remover'.d = remover.d
                \/ UNCHANGED rows /\ remover' = Quiet
          \/ /\ who \in Conns /\ conn[who].pc = "erase"
             /\ \/ /\ rows' = [rows EXCEPT ![conn[who].d] = None]
                   /\ Step(who, "forget")
                \/ UNCHANGED rows /\ Step(who, "loop")
      BY <1>20, EraseRowTurn
    <2>2. up /\ UNCHANGED <<revision, devices>>
      BY <1>20 DEF EraseRow
    <2>3. CASE who = None
      <3>1. /\ UNCHANGED <<conn, up>> /\ remover.pc = "erase"
        BY <2>1, <2>3, AccessAssumption
      <3>2. Telling \subseteq Telling'
        BY <3>1, TellingIs
      <3> QED
        BY <2>2, <3>1, <3>2 DEF ToldInv, is_device_paired
    <2>4. conn[who].pc = "erase" => conn[who] # Closed
      BY DEF Closed
    <2> QED
      BY <2>1, <2>2, <2>3, <2>4, ToldMove DEF Step
  <1>21. ASSUME NEW who \in Conns \cup {None}, ForgetDevice(who) PROVE ToldInv'
    <2> DEFINE d == DeviceOf(who)
    <2>1. /\ up /\ UNCHANGED <<up, revision>> /\ devices' = [devices EXCEPT ![d] = None]
      BY <1>21 DEF ForgetDevice
    <2>2. d \in Devices
      BY <1>21, ForgetDeviceTurn DEF Proceeds, Ends
    <2>3. \A x \in Conns :
            \/ conn'[x] = conn[x]
            \/ /\ conn'[x].pc \in {"loop", "revoke"} /\ conn'[x].d = conn[x].d
               /\ conn'[x].fwd = conn[x].fwd /\ conn[x].pc = "forget"
      BY <1>21, ForgetDeviceTurn DEF Proceeds, Ends, Step, Turn, OnlyConn
    <2>4. remover' = remover \/ remover.pc = "forget"
      BY <1>21, ForgetDeviceTurn DEF Proceeds, Ends, Step, Turn, OnlyConn
    <2>5. Telling \subseteq Telling'
      BY <2>3, <2>4, TellingIs
    <2>6. is_device_paired(d) => d \in Telling'
      <3>1. CASE Proceeds(who, "forget", "revoke")
        BY <2>2, <3>1, TellingIs DEF Proceeds, Step, Turn, d
      <3> QED
        BY <1>21, <3>1, ForgetDeviceTurn
    <2> HIDE DEF d
    <2>7. \A e \in Devices : devices'[e] = devices[e] \/ e = d
      BY <2>1 DEF Typed, RegistryTyped
    <2> SUFFICES ASSUME NEW x \in Conns PROVE Told(x)'
      BY DEF ToldInv, Told
    <2>8. CASE conn[x] = Closed
      BY <2>3, <2>8 DEF Told, Closed
    <2>9. CASE conn[x] # Closed
      <3>1. conn[x].d \in Devices /\ Told(x)
        BY <2>1, <2>9, ConnFields DEF Typed, ConnsTyped, ToldInv, Told
      <3>2. devices[conn[x].d] # None =>
              devices'[conn[x].d] # None \/ conn[x].d = d
        BY <2>7, <3>1
      <3>3. devices[conn[x].d] # None /\ conn[x].d = d => d \in Telling'
        BY <2>6 DEF is_device_paired
      <3>4. conn'[x].d = conn[x].d
        BY <2>3
      <3> QED
        BY <2>1, <2>3, <2>5, <2>9, <3>1, <3>2, <3>3, <3>4 DEF Told, is_device_paired
    <2> QED
      BY <2>8, <2>9
  <1>27. ASSUME NEW who \in Conns \cup {None}, RevokeConnections(who) PROVE ToldInv'
    <2> DEFINE d == DeviceOf(who)
    <2>1. /\ up /\ UNCHANGED <<up, devices>> /\ revision' = [revision EXCEPT ![d] = @ + 1]
      BY <1>27 DEF RevokeConnections, Revoked
    <2>2. d \in Devices
      BY <1>27, RevokeConnectionsTurn DEF Proceeds, Ends
    <2>3. \A x \in Conns :
            \/ conn'[x] = conn[x]
            \/ /\ conn'[x].pc \in {"loop", "unregister"} /\ conn'[x].d = conn[x].d
               /\ conn'[x].fwd = conn[x].fwd /\ conn[x].pc = "revoke" /\ conn[x].d = d
      BY <1>27, RevokeConnectionsTurn DEF Proceeds, Ends, Step, Turn, OnlyConn
    <2>4. remover' = remover \/ (remover.pc = "revoke" /\ remover.d = d)
      BY <1>27, RevokeConnectionsTurn DEF Proceeds, Ends, Step, Turn, OnlyConn
    <2>5. Telling \ {d} \subseteq Telling'
      BY <2>3, <2>4, TellingIs
    <2> HIDE DEF d
    <2>6. /\ \A e \in Devices \ {d} : revision'[e] = revision[e]
          /\ revision'[d] = revision[d] + 1 /\ revision[d] \in Nat
      BY <2>1, <2>2 DEF Typed, RegistryTyped
    <2> SUFFICES ASSUME NEW x \in Conns PROVE Told(x)'
      BY DEF ToldInv, Told
    <2>7. CASE conn[x] = Closed
      BY <2>3, <2>7 DEF Told, Closed
    <2>8. CASE conn[x] # Closed
      <3>1. conn[x].d \in Devices /\ Told(x)
        BY <2>1, <2>8, ConnFields DEF Typed, ConnsTyped, ToldInv, Told
      <3>2. /\ conn[x].seen \in {None} \cup 0 .. revision[conn[x].d]
            /\ conn[x].fwd \in {None} \cup 0 .. revision[conn[x].d]
            /\ conn[x].pc = "forward" => conn[x].seen # None
        BY <2>8, <3>1 DEF SeenInv, Told
      <3>3. CASE conn[x].d # d
        BY <2>1, <2>3, <2>5, <2>6, <2>8, <3>1, <3>3 DEF Told, is_device_paired
      <3>4. CASE conn[x].d = d
        BY <2>3, <2>6, <2>8, <3>1, <3>2, <3>4 DEF Told
      <3> QED
        BY <3>3, <3>4
    <2> QED
      BY <2>7, <2>8
  <1>28. ASSUME NEW who \in Conns \cup {None}, UnregisterToken(who) PROVE ToldInv'
    <2>1. up /\ UNCHANGED <<up, devices, revision>>
      BY <1>28 DEF UnregisterToken
    <2>2. CASE who = None
      <3>1. UNCHANGED conn /\ remover.pc = "unregister"
        BY <1>28, <2>2, UnregisterTokenTurn, AccessAssumption DEF Ends
      <3>2. Telling \subseteq Telling'
        BY <3>1, TellingIs
      <3> QED
        BY <2>1, <3>1, <3>2 DEF ToldInv, is_device_paired
    <2>3. CASE who \in Conns
      <3>1. /\ conn[who].pc = "unregister"
            /\ Turn(who, "loop", FALSE, None, conn[who].fwd, conn[who].req)
        BY <1>28, <2>3, UnregisterTokenTurn, AccessAssumption DEF Ends
      <3>2. conn[who] # Closed
        BY <3>1 DEF Closed
      <3>3. \A d \in Devices : devices[d] # None => devices'[d] # None
        BY <2>1
      <3> QED
        BY <2>1, <2>3, <3>1, <3>2, <3>3, ToldMove
    <2> QED
      BY <2>2, <2>3
  <1>22. ASSUME Crash PROVE ToldInv'
    BY <1>22 DEF Crash, ToldInv
  <1>23. ASSUME Restart PROVE ToldInv'
    BY <1>23, DownInv DEF Restart, ToldInv, DownInv, Closed
  <1>24. ASSUME UNCHANGED <<up, conn, remover, revision, devices>> PROVE ToldInv'
    BY <1>24, TellingIs DEF ToldInv, is_device_paired
  <1>25. ASSUME begin_pairing \/ DesktopLeaves \/ CodeLapses PROVE ToldInv'
    BY <1>25, <1>24 DEF Moved, Goto, Close, At, Advance, BeginRemoval,
       begin_pairing, DesktopLeaves, CodeLapses
  <1>26. ASSUME NEW i \in RequestIds, NEW yes \in BOOLEAN,
               approve(i, yes)
         PROVE  ToldInv'
    BY <1>26, <1>24 DEF Moved, Goto, Close, At, Advance, BeginRemoval, approve
  <1> QED
    BY <1>1, <1>2, <1>3, <1>4, <1>5, <1>6, <1>7, <1>8, <1>9, <1>10, <1>11,
       <1>12, <1>13, <1>14, <1>15, <1>16, <1>17, <1>18, <1>19, <1>20, <1>21,
       <1>22, <1>23, <1>24, <1>25, <1>26, <1>27, <1>28 DEF Next, Desktop, Phone

-----------------------------------------------------------------------------
(***************************************************************************)
(* A completed pairing is kept.                                            *)
(***************************************************************************)
LEMMA LeavingTurn ==
  ASSUME Typed, NEW c \in Conns, OnlyConn(c),
         \/ conn'[c].pc \notin {"erase", "forget"}
         \/ conn[c].pc \in {"erase", "forget"} /\ conn'[c].d = conn[c].d
  PROVE  Leaving' \subseteq Leaving
  BY LeavingIs DEF OnlyConn

LEMMA NewRecord ==
  ASSUME NEW b \in Tokens \cup {None}
  PROVE  [token |-> b] \in StoredDevice /\ [token |-> b] # None
  <1>1. [token |-> b] \in StoredDevice
    BY DEF StoredDevice
  <1> QED
    BY <1>1, AccessAssumption

\* A step of a running daemon that begins no removal.
LEMMA KeptBy ==
  ASSUME KeptInv, up' => up, Leaving' \subseteq Leaving,
         \A d \in settled' :
           /\ d \in Devices
           /\ \/ d \in settled
              \/ d \notin Leaving /\ rows'[d] # None /\ devices'[d] # None,
         \A x \in calm' :
           /\ x \in Conns /\ conn'[x].pc = "insert" /\ conn'[x].d = conn[x].d
           /\ conn[x].d \in Devices
           /\ x \in calm \/ (conn[x].d \notin Leaving /\ rows'[conn[x].d] # None),
         \A d \in Devices \ Leaving :
           /\ rows[d] # None => rows'[d] # None
           /\ devices[d] # None => devices'[d] # None
  PROVE  KeptInv'
  <1>1. ASSUME NEW d \in settled'
        PROVE  /\ rows'[d] # None /\ (up' => devices'[d] # None)
               /\ d \in Devices /\ d \notin Leaving'
    BY <1>1 DEF KeptInv, PairingIsKept
  <1>2. ASSUME NEW x \in calm'
        PROVE  /\ x \in Conns /\ conn'[x].pc = "insert"
               /\ rows'[conn'[x].d] # None /\ conn'[x].d \notin Leaving'
    BY <1>2 DEF KeptInv
  <1> QED
    BY <1>1, <1>2 DEF KeptInv, PairingIsKept

\* A step of a connection that neither begins a removal nor ends a pairing.
LEMMA KeptTurn ==
  ASSUME Typed, KeptInv, NEW c \in Conns, OnlyConn(c), conn[c].pc # "insert",
         \/ conn'[c].pc \notin {"erase", "forget"}
         \/ conn[c].pc \in {"erase", "forget"} /\ conn'[c].d = conn[c].d,
         UNCHANGED <<settled, calm>>,
         \A d \in Devices \ Leaving :
           /\ rows[d] # None => rows'[d] # None
           /\ devices[d] # None => devices'[d] # None
  PROVE  KeptInv'
  <1>1. Leaving' \subseteq Leaving
    BY LeavingTurn
  <1>2. ASSUME NEW x \in calm'
        PROVE  /\ x \in Conns /\ conn'[x].pc = "insert" /\ conn'[x].d = conn[x].d
               /\ conn[x].d \in Devices /\ x \in calm
    <2>1. x \in Conns /\ conn[x].pc = "insert" /\ x \in calm
      BY <1>2 DEF KeptInv
    <2>2. conn[x].d \in Devices
      BY <2>1, OpenConn, ConnFields
    <2> QED
      BY <2>1, <2>2 DEF OnlyConn
  <1>3. \A d \in settled' : d \in Devices /\ d \in settled
    BY DEF KeptInv
  <1>4. up' => up
    BY DEF OnlyConn
  <1> QED
    BY <1>1, <1>2, <1>3, <1>4, KeptBy

\* A removal begins.
LEMMA KeptBegin ==
  ASSUME Typed, KeptInv, NEW d \in Devices, up, BeginRemoval(d),
         Leaving' \subseteq Leaving \cup {d}, UNCHANGED <<rows, devices>>,
         \A x \in Conns : conn[x].pc = "insert" => conn'[x] = conn[x]
  PROVE  KeptInv'
  <1>1. ASSUME NEW x \in calm'
        PROVE  /\ x \in Conns /\ conn'[x].pc = "insert" /\ conn'[x].d = conn[x].d
               /\ conn[x].d \in Devices \ {d} /\ x \in calm
    <2>1. x \in Conns /\ conn[x].pc = "insert" /\ x \in calm /\ conn[x].d # d
      BY <1>1 DEF KeptInv, BeginRemoval
    <2>2. conn[x].d \in Devices
      BY <2>1, OpenConn, ConnFields
    <2> QED
      BY <2>1, <2>2
  <1>2. \A e \in settled' : e \in Devices \ {d} /\ e \in settled
    BY DEF KeptInv, BeginRemoval
  <1>3. ASSUME NEW e \in settled'
        PROVE  rows'[e] # None /\ (up' => devices'[e] # None) /\ e \notin Leaving'
    BY <1>2, <1>3 DEF KeptInv, PairingIsKept
  <1>4. ASSUME NEW x \in calm'
        PROVE  rows'[conn'[x].d] # None /\ conn'[x].d \notin Leaving'
    BY <1>1, <1>4 DEF KeptInv
  <1> QED
    BY <1>1, <1>2, <1>3, <1>4 DEF KeptInv, PairingIsKept

LEMMA KeptStep ==
  ASSUME Typed, KeptInv, [Next]_vars
  PROVE  KeptInv'
  <1> USE DEF vars, manager, registry, history
  <1>1. ASSUME NEW d \in Devices, RemoveDevice(d) PROVE KeptInv'
    <2>1. /\ up /\ remover = Quiet /\ remover' = [pc |-> "erase", d |-> d]
          /\ BeginRemoval(d) /\ UNCHANGED <<conn, rows, devices>>
      BY <1>1 DEF RemoveDevice
    <2>2. Leaving' \subseteq Leaving \cup {d}
      BY <2>1, LeavingIs
    <2> QED
      BY <2>1, <2>2, KeptBegin
  <1>2. ASSUME NEW c \in Conns, NEW d \in scenario.phones, NEW v5 \in BOOLEAN,
               Accept(c, d, v5)
        PROVE  KeptInv'
    <2>1. /\ OnlyConn(c) /\ ConnsTyped' /\ conn[c] = Closed
          /\ conn'[c] \in Connection /\ conn'[c].d = d
          /\ conn'[c].pc = "hello" /\ ~conn'[c].paired
          /\ conn'[c].seen = None /\ conn'[c].fwd = None
      BY <1>2, AcceptTurn
    <2>2. /\ conn[c].pc # "insert" /\ UNCHANGED <<settled, calm, rows, devices>>
      BY <1>2 DEF Accept, At
    <2> QED
      BY <2>1, <2>2, KeptTurn DEF Step, Turn, Closes, Closed
  <1>3. ASSUME NEW c \in Conns, Hello(c) PROVE KeptInv'
    <2>1. \/ Closes(c)
          \/ is_device_paired(conn[c].d) /\
             Turn(c, "watch", TRUE, conn[c].seen, conn[c].fwd, conn[c].req)
          \/ ~is_device_paired(conn[c].d) /\
             Turn(c, "loop", FALSE, conn[c].seen, conn[c].fwd, conn[c].req)
      BY <1>3, HelloTurn
    <2>2. /\ conn[c].pc # "insert" /\ UNCHANGED <<settled, calm, rows, devices>>
      BY <1>3 DEF Hello, At
    <2> QED
      BY <2>1, <2>2, KeptTurn DEF Step, Turn, Closes, Closed
  <1>4. ASSUME NEW c \in Conns, Watch(c) PROVE KeptInv'
    <2>1. Turn(c, IF conn[c].pc = "watch" THEN "mark" ELSE "loop", TRUE,
               revision[conn[c].d], conn[c].fwd, conn[c].req)
      BY <1>4, WatchTurn
    <2>2. /\ conn[c].pc # "insert" /\ UNCHANGED <<settled, calm, rows, devices>>
      BY <1>4 DEF Watch, At
    <2> QED
      BY <2>1, <2>2, KeptTurn DEF Step, Turn, Closes, Closed
  <1>5. ASSUME NEW c \in Conns, mark_device_seen(c) PROVE KeptInv'
    <2>1. Step(c, "recheck")
      BY <1>5, mark_device_seenTurn
    <2>2. conn[c].pc # "insert" /\ UNCHANGED <<settled, calm, devices>>
      BY <1>5 DEF mark_device_seen, At
    <2>3. \A d \in Devices : rows[d] # None => rows'[d] # None
      BY <1>5 DEF mark_device_seen, Saved, Stored, is_device_paired, Typed, RegistryTyped
    <2> QED
      BY <2>1, <2>2, <2>3, KeptTurn DEF Step, Turn
  <1>6. ASSUME NEW c \in Conns, Recheck(c) PROVE KeptInv'
    <2>1. Closes(c) \/ (is_device_paired(conn[c].d) /\ Step(c, "loop"))
      BY <1>6, RecheckTurn
    <2>2. /\ conn[c].pc # "insert" /\ UNCHANGED <<settled, calm, rows, devices>>
      BY <1>6 DEF Recheck, At
    <2> QED
      BY <2>1, <2>2, KeptTurn DEF Step, Turn, Closes, Closed
  <1>7. ASSUME NEW c \in Conns, NoticeRevocation(c) PROVE KeptInv'
    <2>1. Closes(c)
      BY <1>7, NoticeRevocationTurn
    <2>2. /\ conn[c].pc # "insert" /\ UNCHANGED <<settled, calm, rows, devices>>
      BY <1>7 DEF NoticeRevocation, At
    <2> QED
      BY <2>1, <2>2, KeptTurn DEF Step, Turn, Closes, Closed
  <1>8. ASSUME NEW c \in Conns, HangUp(c) PROVE KeptInv'
    <2>1. Closes(c)
      BY <1>8, HangUpTurn
    <2>2. /\ conn[c].pc # "insert" /\ UNCHANGED <<settled, calm, rows, devices>>
      BY <1>8 DEF HangUp, At
    <2> QED
      BY <2>1, <2>2, KeptTurn DEF Step, Turn, Closes, Closed
  <1>9. ASSUME NEW c \in Conns, NEW pc \in scenario.asks, Receive(c, pc)
        PROVE  KeptInv'
    <2>1. \/ Closes(c)
          \/ StillPaired(c) /\ Allowed(c, pc) /\ pc \in Requests /\ Step(c, pc)
      BY <1>9, ReceiveTurn
    <2>2. conn[c].pc # "insert" /\ UNCHANGED <<settled, calm, rows, devices>>
      BY <1>9 DEF Receive, At
    <2> QED
      BY <2>1, <2>2, KeptTurn DEF Step, Turn, Closes, Closed, Requests
  <1>10. ASSUME NEW c \in Conns, StartForwarder(c) PROVE KeptInv'
    <2>1. Turn(c, "loop", conn[c].paired, conn[c].seen, conn[c].seen,
               conn[c].req)
      BY <1>10, StartForwarderTurn
    <2>2. /\ conn[c].pc # "insert" /\ UNCHANGED <<settled, calm, rows, devices>>
      BY <1>10 DEF StartForwarder, At
    <2> QED
      BY <2>1, <2>2, KeptTurn DEF Step, Turn, Closes, Closed
  <1>11. ASSUME NEW c \in Conns, StopForwarder(c) PROVE KeptInv'
    <2>1. Turn(c, conn[c].pc, conn[c].paired, conn[c].seen, None, conn[c].req)
      BY <1>11, StopForwarderTurn
    <2>2. up /\ UNCHANGED <<settled, calm, rows, devices>>
      BY <1>11 DEF StopForwarder
    <2>3. /\ conn'[c].pc = conn[c].pc /\ conn'[c].d = conn[c].d
          /\ \A x \in Conns \ {c} : conn'[x] = conn[x]
      BY <2>1 DEF Turn, OnlyConn
    <2>4. Leaving' \subseteq Leaving
      BY <2>1, LeavingTurn DEF Turn
    <2>5. ASSUME NEW x \in calm'
          PROVE  /\ x \in Conns /\ conn'[x].pc = "insert" /\ conn'[x].d = conn[x].d
                 /\ conn[x].d \in Devices /\ x \in calm
      <3>1. x \in Conns /\ conn[x].pc = "insert" /\ x \in calm
        BY <2>2, <2>5 DEF KeptInv
      <3>2. conn[x].d \in Devices
        BY <3>1, OpenConn, ConnFields
      <3> QED
        BY <2>3, <3>1, <3>2
    <2>6. \A d \in settled' : d \in Devices /\ d \in settled
      BY <2>2 DEF KeptInv
    <2> QED
      BY <2>2, <2>4, <2>5, <2>6, KeptBy
  <1>12. ASSUME NEW c \in Conns, NEW t \in scenario.tokens,
               update_device_push(c, t) PROVE KeptInv'
    <2>1. Step(c, "loop")
      BY <1>12, update_device_pushTurn
    <2>2. conn[c].pc # "insert" /\ UNCHANGED <<settled, calm>>
      BY <1>12 DEF update_device_push, At
    <2>6. t \in Tokens
      BY <1>12 DEF Typed, ConnsTyped, Scenario
    <2>3. [token |-> t] # None /\ Unnotified # None
      BY <2>6, NewRecord DEF Unnotified
    <2>4. \A d \in Devices : rows[d] # None => rows'[d] # None
      BY <1>12, <2>3 DEF update_device_push, Stored, Typed, RegistryTyped
    <2>5. \A d \in Devices : devices[d] # None => devices'[d] # None
      BY <1>12, <2>6, EntriesStay
    <2> QED
      BY <2>1, <2>2, <2>4, <2>5, KeptTurn DEF Step, Turn
  <1>13. ASSUME NEW c \in Conns, NEW t \in scenario.tokens,
               clear_device_push(c, t) PROVE KeptInv'
    <2>1. Step(c, "loop")
      BY <1>13, clear_device_pushTurn
    <2>2. conn[c].pc # "insert" /\ UNCHANGED <<settled, calm>>
      BY <1>13 DEF clear_device_push, At
    <2>6. t \in Tokens
      BY <1>13 DEF Typed, ConnsTyped, Scenario
    <2>3. [token |-> t] # None /\ Unnotified # None
      BY <2>6, NewRecord DEF Unnotified
    <2>4. \A d \in Devices : rows[d] # None => rows'[d] # None
      BY <1>13, <2>3 DEF clear_device_push, Stored, Typed, RegistryTyped
    <2>5. \A d \in Devices : devices[d] # None => devices'[d] # None
      BY <1>13, <2>6, EntriesStay
    <2> QED
      BY <2>1, <2>2, <2>4, <2>5, KeptTurn DEF Step, Turn
  <1>14. ASSUME NEW c \in Conns, UnpairSelf(c) PROVE KeptInv'
    <2>1. \/ is_device_paired(conn[c].d) /\ Step(c, "erase")
          \/ ~is_device_paired(conn[c].d) /\
             Turn(c, "loop", FALSE, None, conn[c].fwd, conn[c].req)
      BY <1>14, UnpairSelfTurn
    <2>2. /\ up /\ conn[c].pc = "unpair" /\ UNCHANGED <<rows, devices>>
          /\ is_device_paired(conn[c].d) => BeginRemoval(conn[c].d)
          /\ ~is_device_paired(conn[c].d) => UNCHANGED <<settled, calm>>
      BY <1>14 DEF UnpairSelf, At
    <2>3. conn[c].d \in Devices
      BY <2>2, OpenConn, ConnFields
    <2>4. CASE is_device_paired(conn[c].d)
      <3>1. /\ \A x \in Conns \ {c} : conn'[x] = conn[x]
            /\ conn'[c].d = conn[c].d /\ UNCHANGED remover
        BY <2>1, <2>4 DEF Step, Turn, OnlyConn
      <3>2. Leaving' \subseteq Leaving \cup {conn[c].d}
        BY <3>1, LeavingIs
      <3>3. \A x \in Conns : conn[x].pc = "insert" => conn'[x] = conn[x]
        BY <2>2, <3>1
      <3> QED
        BY <2>2, <2>3, <2>4, <3>2, <3>3, KeptBegin
    <2>5. CASE ~is_device_paired(conn[c].d)
      BY <2>1, <2>2, <2>5, KeptTurn DEF Turn
    <2> QED
      BY <2>4, <2>5
  <1>15. ASSUME NEW c \in Conns, RightCode(c) PROVE KeptInv'
    <2>1. \/ /\ approvals' = approvals \cup {Len(requests) + 1}
             /\ prompts' = prompts \cup {Len(requests) + 1}
             /\ Turn(c, "wait", conn[c].paired, conn[c].seen, conn[c].fwd,
                     Len(requests) + 1)
          \/ /\ UNCHANGED <<approvals, prompts>>
             /\ Turn(c, "loop", conn[c].paired, conn[c].seen, conn[c].fwd, None)
      BY <1>15, RightCodeTurn
    <2>2. /\ conn[c].pc # "insert" /\ UNCHANGED <<settled, calm, rows, devices>>
      BY <1>15 DEF RightCode, At
    <2> QED
      BY <2>1, <2>2, KeptTurn DEF Step, Turn, Closes, Closed
  <1>16. ASSUME NEW c \in Conns, WrongCode(c) PROVE KeptInv'
    <2>1. Step(c, "loop")
      BY <1>16, WrongCodeTurn
    <2>2. /\ conn[c].pc # "insert" /\ UNCHANGED <<settled, calm, rows, devices>>
      BY <1>16 DEF WrongCode, At
    <2> QED
      BY <2>1, <2>2, KeptTurn DEF Step, Turn, Closes, Closed
  <1>17. ASSUME NEW c \in Conns, Wait(c) PROVE KeptInv'
    <2>1. \/ /\ answers[conn[c].req] # None /\ answers[conn[c].req]
             /\ UNCHANGED approvals
             /\ Turn(c, "save", conn[c].paired, conn[c].seen, conn[c].fwd,
                     conn[c].req)
          \/ /\ approvals' \subseteq approvals
             /\ Turn(c, "loop", conn[c].paired, conn[c].seen, conn[c].fwd, None)
      BY <1>17, WaitTurn
    <2>2. /\ conn[c].pc # "insert" /\ UNCHANGED <<settled, calm, rows, devices>>
      BY <1>17 DEF Wait, At
    <2> QED
      BY <2>1, <2>2, KeptTurn DEF Step, Turn, Closes, Closed
  <1>18. ASSUME NEW c \in Conns, SaveRow(c) PROVE KeptInv'
    <2>1. Closes(c) \/ Step(c, "insert")
      BY <1>18, SaveRowTurn
    <2>2. up /\ conn[c].pc = "save" /\ UNCHANGED <<settled, devices>>
      BY <1>18 DEF SaveRow, At
    <2>3. conn[c].d \in Devices
      BY <2>2, OpenConn, ConnFields
    <2>4. CASE Closes(c)
      <3>1. UNCHANGED <<rows, calm>>
        <4>1. ~Goto(c, "insert")
          BY <2>2, <2>4, GotoTurn DEF Closes, Closed, Step, Turn, ConnPcs
        <4> QED
          BY <1>18, <4>1 DEF SaveRow
      <3> QED
        BY <2>2, <2>4, <3>1, KeptTurn DEF Closes, Closed
    <2>5. CASE Step(c, "insert")
      <3>1. /\ rows' = Stored(conn[c].d, Unnotified)
            /\ calm' = IF Removing(conn[c].d) THEN calm ELSE calm \cup {c}
        <4>1. ~Close(c)
          BY <2>5, CloseTurn DEF Closes, Closed, Step, Turn
        <4> QED
          BY <1>18, <4>1 DEF SaveRow
      <3>2. /\ rows'[conn[c].d] # None
            /\ \A d \in Devices : rows[d] # None => rows'[d] # None
        <4>1. Unnotified # None
          BY NewRecord DEF Unnotified
        <4> QED
          BY <2>3, <3>1, <4>1 DEF Stored, Typed, RegistryTyped
      <3>3. Leaving' \subseteq Leaving
        BY <2>5, LeavingTurn DEF Step, Turn
      <3>4. /\ \A x \in Conns \ {c} : conn'[x] = conn[x]
            /\ conn'[c].d = conn[c].d /\ conn'[c].pc = "insert"
        BY <2>5 DEF Step, Turn, OnlyConn
      <3>5. ASSUME NEW x \in calm'
            PROVE  /\ x \in Conns /\ conn'[x].pc = "insert" /\ conn'[x].d = conn[x].d
                   /\ conn[x].d \in Devices
                   /\ \/ x \in calm
                      \/ conn[x].d \notin Leaving /\ rows'[conn[x].d] # None
        <4>1. CASE x = c
          <5>1. x \in calm \/ ~Removing(conn[c].d)
            BY <3>1, <3>5, <4>1
          <5>2. x \in calm \/ conn[c].d \notin Leaving
            BY <5>1 DEF Leaving
          <5> QED
            BY <2>3, <3>2, <3>4, <4>1, <5>2
        <4>2. CASE x # c
          <5>1. x \in calm /\ x \in Conns /\ conn[x].pc = "insert"
            BY <3>1, <3>5, <4>2 DEF KeptInv
          <5>2. conn[x].d \in Devices
            BY <5>1, OpenConn, ConnFields
          <5> QED
            BY <3>4, <4>2, <5>1, <5>2
        <4> QED
          BY <4>1, <4>2
      <3>6. \A d \in settled' : d \in Devices /\ d \in settled
        BY <2>2 DEF KeptInv
      <3> QED
        BY <2>2, <3>2, <3>3, <3>5, <3>6, KeptBy
    <2> QED
      BY <2>1, <2>4, <2>5
  <1>19. ASSUME NEW c \in Conns, InsertDevice(c) PROVE KeptInv'
    <2> DEFINE d == conn[c].d
    <2>1. Turn(c, "completed", conn[c].paired, conn[c].seen, conn[c].fwd, None)
      BY <1>19, InsertDeviceTurn
    <2>2. /\ up /\ conn[c].pc = "insert" /\ UNCHANGED rows
          /\ devices' = [devices EXCEPT ![d] = Unnotified]
          /\ settled' = IF c \in calm THEN settled \cup {d} ELSE settled
          /\ calm' = calm \ {c}
      BY <1>19 DEF InsertDevice, At
    <2>3. d \in Devices
      BY <2>2, OpenConn, ConnFields
    <2>4. Leaving' \subseteq Leaving
      BY <2>1, LeavingTurn DEF Turn
    <2>5. ASSUME NEW x \in calm'
          PROVE  /\ x \in Conns /\ conn'[x].pc = "insert" /\ conn'[x].d = conn[x].d
                 /\ conn[x].d \in Devices /\ x \in calm
      <3>1. x \in Conns \ {c} /\ conn[x].pc = "insert" /\ x \in calm
        BY <2>2, <2>5 DEF KeptInv
      <3>2. conn[x].d \in Devices
        BY <3>1, OpenConn, ConnFields
      <3> QED
        BY <2>1, <3>1, <3>2 DEF Turn, OnlyConn
    <2>6. /\ devices'[d] # None
          /\ \A e \in Devices : devices[e] # None => devices'[e] # None
      <3>1. Unnotified # None
        BY NewRecord DEF Unnotified
      <3> QED
        BY <2>2, <2>3, <3>1 DEF Typed, RegistryTyped
    <2>8. c \in calm => d \notin Leaving /\ rows'[d] # None
      BY <2>2 DEF KeptInv
    <2>9. settled \subseteq Devices
      BY DEF KeptInv
    <2> HIDE DEF d
    <2>7. \A e \in settled' :
            /\ e \in Devices
            /\ \/ e \in settled
               \/ e \notin Leaving /\ rows'[e] # None /\ devices'[e] # None
      BY <2>2, <2>3, <2>6, <2>8, <2>9
    <2> QED
      BY <2>2, <2>4, <2>5, <2>6, <2>7, KeptBy
  <1>20. ASSUME NEW who \in Conns \cup {None}, EraseRow(who) PROVE KeptInv'
    <2>1. \/ /\ who = None /\ remover \in Removal /\ remover.pc = "erase"
             /\ UNCHANGED <<conn, scenario, up>> /\ ConnsTyped'
             /\ \/ /\ rows' = [rows EXCEPT ![remover.d] = None]
                   /\ remover' \in Removal
                   /\ remover'.pc = "forget" /\ remover'.d = remover.d
                \/ UNCHANGED rows /\ remover' = Quiet
          \/ /\ who \in Conns /\ conn[who].pc = "erase"
             /\ \/ /\ rows' = [rows EXCEPT ![conn[who].d] = None]
                   /\ Step(who, "forget")
                \/ UNCHANGED rows /\ Step(who, "loop")
      BY <1>20, EraseRowTurn
    <2>2. up /\ UNCHANGED <<settled, calm, devices>>
      BY <1>20 DEF EraseRow
    <2>3. CASE who = None
      <3>1. /\ remover \in Removal /\ UNCHANGED <<conn, up>>
            /\ remover.pc = "erase"
            /\ \/ /\ rows' = [rows EXCEPT ![remover.d] = None]
                  /\ remover' \in Removal /\ remover'.d = remover.d
               \/ UNCHANGED rows /\ remover' = Quiet
        BY <2>1, <2>3, AccessAssumption
      <3>2. remover.d \in Leaving
        BY <3>1, LeavingIs DEF Removal
      <3>3. Leaving' \subseteq Leaving
        BY <3>1, LeavingIs DEF Quiet
      <3>4. \A d \in Devices \ Leaving : rows[d] # None => rows'[d] # None
        BY <3>1, <3>2 DEF Typed, RegistryTyped
      <3>5. \A d \in settled' : d \in Devices /\ d \in settled
        BY <2>2 DEF KeptInv
      <3>6. ASSUME NEW x \in calm'
            PROVE  /\ x \in Conns /\ conn'[x].pc = "insert" /\ conn'[x].d = conn[x].d
                   /\ conn[x].d \in Devices /\ x \in calm
        <4>1. x \in Conns /\ conn[x].pc = "insert" /\ x \in calm
          BY <2>2, <3>6 DEF KeptInv
        <4> QED
          BY <3>1, <4>1, OpenConn, ConnFields
      <3> QED
        BY <2>2, <3>1, <3>3, <3>4, <3>5, <3>6, KeptBy
    <2>4. CASE who \in Conns
      <3>1. /\ conn[who].pc = "erase" /\ OnlyConn(who)
            /\ conn'[who].pc \in {"forget", "loop"} /\ conn'[who].d = conn[who].d
            /\ rows' = [rows EXCEPT ![conn[who].d] = None] \/ UNCHANGED rows
        BY <2>1, <2>4, AccessAssumption DEF Step, Turn
      <3>2. conn[who].d \in Leaving
        BY <2>4, <3>1, OpenConn, ConnFields, LeavingIs
      <3>3. \A d \in Devices \ Leaving : rows[d] # None => rows'[d] # None
        BY <3>1, <3>2 DEF Typed, RegistryTyped
      <3> QED
        BY <2>2, <2>4, <3>1, <3>3, KeptTurn
    <2> QED
      BY <2>3, <2>4
  <1>21. ASSUME NEW who \in Conns \cup {None},
                ForgetDevice(who) \/ RevokeConnections(who) \/ UnregisterToken(who)
         PROVE  KeptInv'
    <2> DEFINE d == DeviceOf(who)
    <2>1. PICK from \in {"forget", "revoke", "unregister"} :
            /\ \/ \E to \in {"revoke", "unregister"} : Proceeds(who, from, to)
               \/ Ends(who, from)
            /\ ForgetDevice(who) => from = "forget"
      BY <1>21, ForgetDeviceTurn, RevokeConnectionsTurn, UnregisterTokenTurn
    <2>2. /\ up /\ UNCHANGED <<settled, calm, rows>>
          /\ \/ ForgetDevice(who) /\ devices' = [devices EXCEPT ![d] = None]
             \/ UNCHANGED devices
      BY <1>21 DEF ForgetDevice, RevokeConnections, UnregisterToken
    <2>3. ForgetDevice(who) => d \in Leaving
      BY <2>1, LeavingIs, AccessAssumption DEF Proceeds, Ends
    <2> HIDE DEF d
    <2>4. \A e \in Devices \ Leaving : devices[e] # None => devices'[e] # None
      BY <2>2, <2>3 DEF Typed, RegistryTyped
    <2>5. CASE who = None
      <3>1. /\ UNCHANGED <<conn, up>>
            /\ remover'.pc \in {"revoke", "unregister", "quiet"}
        <4>1. UNCHANGED <<conn, up>>
          BY <2>1, <2>5, AccessAssumption DEF Proceeds, Ends
        <4>2. remover'.pc \in {"revoke", "unregister"} \/ remover' = Quiet
          BY <2>1, <2>5, AccessAssumption DEF Proceeds, Ends
        <4> QED
          BY <4>1, <4>2 DEF Quiet
      <3>2. Leaving' \subseteq Leaving
        BY <3>1, LeavingIs
      <3>3. \A e \in settled' : e \in Devices /\ e \in settled
        BY <2>2 DEF KeptInv
      <3>4. ASSUME NEW x \in calm'
            PROVE  /\ x \in Conns /\ conn'[x].pc = "insert" /\ conn'[x].d = conn[x].d
                   /\ conn[x].d \in Devices /\ x \in calm
        <4>1. x \in Conns /\ conn[x].pc = "insert" /\ x \in calm
          BY <2>2, <3>4 DEF KeptInv
        <4> QED
          BY <3>1, <4>1, OpenConn, ConnFields
      <3> QED
        BY <2>2, <2>4, <3>1, <3>2, <3>3, <3>4, KeptBy
    <2>6. CASE who \in Conns
      <3>1. /\ OnlyConn(who) /\ conn[who].pc = from
            /\ conn'[who].pc \in {"loop", "revoke", "unregister"}
        BY <2>1, <2>6, AccessAssumption DEF Proceeds, Ends, Step, Turn
      <3> QED
        BY <2>2, <2>4, <2>6, <3>1, KeptTurn
    <2> QED
      BY <2>5, <2>6
  <1>22. ASSUME Crash PROVE KeptInv'
    <2>1. /\ ~up' /\ remover' = Quiet /\ calm' = {} /\ UNCHANGED <<settled, rows>>
          /\ conn' = [c \in Conns |-> Closed]
      BY <1>22 DEF Crash
    <2>2. Leaving' = {}
      BY <2>1, LeavingIs DEF Closed, Quiet
    <2> QED
      BY <2>1, <2>2 DEF KeptInv, PairingIsKept
  <1>23. ASSUME Restart PROVE KeptInv'
    <2>1. /\ devices' = rows
          /\ UNCHANGED <<settled, calm, rows, remover, conn>>
      BY <1>23 DEF Restart, load_devices
    <2>2. Leaving' = Leaving
      BY <2>1, LeavingIs
    <2> QED
      BY <2>1, <2>2 DEF KeptInv, PairingIsKept
  <1>24. ASSUME UNCHANGED <<up, conn, remover, rows, devices, settled, calm>>
         PROVE  KeptInv'
    BY <1>24, LeavingIs DEF KeptInv, PairingIsKept
  <1>25. ASSUME begin_pairing \/ DesktopLeaves \/ CodeLapses PROVE KeptInv'
    BY <1>25, <1>24 DEF Moved, Goto, Close, At, Advance, BeginRemoval,
       begin_pairing, DesktopLeaves, CodeLapses
  <1>26. ASSUME NEW i \in RequestIds, NEW yes \in BOOLEAN,
               approve(i, yes)
         PROVE  KeptInv'
    BY <1>26, <1>24 DEF Moved, Goto, Close, At, Advance, BeginRemoval, approve
  <1> QED
    BY <1>1, <1>2, <1>3, <1>4, <1>5, <1>6, <1>7, <1>8, <1>9, <1>10, <1>11,
       <1>12, <1>13, <1>14, <1>15, <1>16, <1>17, <1>18, <1>19, <1>20, <1>21,
       <1>22, <1>23, <1>24, <1>25, <1>26 DEF Next, Desktop, Phone

-----------------------------------------------------------------------------
(***************************************************************************)
(* A push token goes with its device.                                      *)
(***************************************************************************)
LEMMA GoingTurn ==
  ASSUME Typed, NEW c \in Conns, OnlyConn(c),
         conn[c].pc = "forget" => conn'[c].pc = "forget" /\ conn'[c].d = conn[c].d
  PROVE  Going \subseteq Going'
  BY GoingIs DEF OnlyConn

\* The removals that are about to unregister a token are so afterwards.
CarriersStay ==
  \A who \in Conns \cup {None} :
    Pc(who) \in AfterEntry => Pc(who)' \in AfterEntry /\ taken'[who] = taken[who]

LEMMA CarriersTurn ==
  ASSUME NEW c \in Conns, OnlyConn(c), UNCHANGED taken,
         conn[c].pc \in AfterEntry => conn'[c].pc \in AfterEntry
  PROVE  CarriersStay
  BY DEF OnlyConn, CarriersStay, Pc

\* A step of the running daemon after which a registered token is one that was
\* registered, or that some device has just got.
LEMMA TokenBy ==
  ASSUME TokenInv, up, up', CarriersStay,
         \A t \in pushed' \ leaked' :
           \/ \E d \in Devices : HoldsAt(d, t)'
           \/ /\ t \in pushed \ leaked
              /\ \A d \in Devices : HoldsAt(d, t) => HoldsAt(d, t)'
  PROVE  TokenInv'
  <1> SUFFICES ASSUME NEW t \in pushed' \ leaked'
               PROVE  \/ \E d \in Devices : HoldsAt(d, t)'
                      \/ \E who \in Conns \cup {None} :
                           Pc(who)' \in AfterEntry /\ taken'[who] = t
    BY DEF TokenInv
  <1>1. CASE /\ t \in pushed \ leaked
             /\ \A d \in Devices : HoldsAt(d, t) => HoldsAt(d, t)'
    BY <1>1 DEF TokenInv, CarriersStay
  <1> QED
    BY <1>1

LEMMA TokenFrame ==
  ASSUME TokenInv, up, up', CarriersStay, Going \subseteq Going',
         UNCHANGED <<leaked, pushed, rows, devices>>
  PROVE  TokenInv'
  BY TokenBy DEF HoldsAt, is_device_paired

LEMMA TokenTurn ==
  ASSUME Typed, TokenInv, NEW c \in Conns, up, OnlyConn(c),
         conn[c].pc \notin {"forget", "revoke", "unregister"},
         UNCHANGED <<leaked, pushed, rows, devices, taken>>
  PROVE  TokenInv'
  <1>1. Going \subseteq Going' /\ up' = up
    BY GoingTurn DEF OnlyConn
  <1>2. CarriersStay
    BY CarriersTurn DEF AfterEntry
  <1> QED
    BY <1>1, <1>2, TokenFrame

\* A step of one removal leaves the others where they are.
LEMMA OthersStay ==
  ASSUME NEW who \in Conns \cup {None}, NEW from, NEW to,
         Proceeds(who, from, to) \/ Ends(who, from)
  PROVE  \A w \in (Conns \cup {None}) \ {who} : Pc(w)' = Pc(w)
  <1>1. CASE who = None
    <2>1. UNCHANGED conn
      BY <1>1, AccessAssumption DEF Proceeds, Ends
    <2> QED
      BY <1>1, <2>1 DEF Pc
  <1>2. CASE who \in Conns
    <2>1. OnlyConn(who)
      BY <1>2, AccessAssumption DEF Proceeds, Ends, Step, Turn
    <2> QED
      BY <1>2, <2>1 DEF Pc, OnlyConn
  <1> QED
    BY <1>1, <1>2

LEMMA NextPc ==
  ASSUME NEW who \in Conns \cup {None}, NEW from, NEW to, Proceeds(who, from, to)
  PROVE  Pc(who)' = to
  BY AccessAssumption DEF Proceeds, Step, Turn, Pc

LEMMA OthersGo ==
  ASSUME NEW who \in Conns \cup {None}, NEW from, NEW to,
         Proceeds(who, from, to) \/ Ends(who, from)
  PROVE  Going \ {DeviceOf(who)} \subseteq Going'
  <1>1. CASE who = None
    <2>1. UNCHANGED conn /\ DeviceOf(who) = remover.d
      BY <1>1, AccessAssumption DEF Proceeds, Ends
    <2> QED
      BY <2>1, GoingIs
  <1>2. CASE who \in Conns
    <2>1. OnlyConn(who) /\ DeviceOf(who) = conn[who].d
      BY <1>2, AccessAssumption DEF Proceeds, Ends, Step, Turn
    <2> QED
      BY <1>2, <2>1, GoingIs DEF OnlyConn
  <1> QED
    BY <1>1, <1>2

\* Setting a token.
LEMMA TokenSet ==
  ASSUME Typed, NEW d \in Devices, NEW b \in Tokens \cup {None}, is_device_paired(d),
         devices' = [devices EXCEPT ![d].token = b]
  PROVE  /\ is_device_paired(d)' /\ devices'[d].token = b
         /\ \A e \in Devices \ {d} : devices'[e] = devices[e]
  <1>1. devices[d] \in StoredDevice
    BY DEF is_device_paired, Typed, RegistryTyped
  <1>2. /\ [devices[d] EXCEPT !.token = b] \in StoredDevice
        /\ [devices[d] EXCEPT !.token = b].token = b
    BY <1>1 DEF StoredDevice
  <1>3. devices'[d] = [devices[d] EXCEPT !.token = b]
    BY DEF Typed, RegistryTyped
  <1>4. devices'[d] # None /\ devices'[d].token = b
    BY <1>2, <1>3, AccessAssumption
  <1>5. \A e \in Devices \ {d} : devices'[e] = devices[e]
    BY DEF Typed, RegistryTyped
  <1> QED
    BY <1>4, <1>5 DEF is_device_paired

LEMMA StoredToken ==
  ASSUME Typed, NEW d \in Devices, NEW b \in Tokens \cup {None},
         rows' = Stored(d, [token |-> b])
  PROVE  /\ rows'[d] # None /\ rows'[d].token = b
         /\ \A e \in Devices \ {d} : rows'[e] = rows[e]
  <1>1. rows'[d] = [token |-> b] /\ [token |-> b].token = b /\ [token |-> b] # None
    BY NewRecord DEF Stored, Typed, RegistryTyped
  <1>2. \A e \in Devices \ {d} : rows'[e] = rows[e]
    BY DEF Stored, Typed, RegistryTyped
  <1> QED
    BY <1>1, <1>2

\* What holds of the other devices goes on holding.
LEMMA HoldsElsewhere ==
  ASSUME NEW e \in Devices, NEW t, Going \subseteq Going', devices'[e] = devices[e],
         rows'[e] = rows[e], HoldsAt(e, t)
  PROVE  HoldsAt(e, t)'
  BY DEF HoldsAt, is_device_paired

LEMMA TokenStep ==
  ASSUME Typed, TokenInv, [Next]_vars
  PROVE  TokenInv'
  <1> USE DEF vars, manager, registry, history
  <1>1. ASSUME NEW d \in Devices, RemoveDevice(d) PROVE TokenInv'
    <2>1. /\ up /\ remover = Quiet
          /\ UNCHANGED <<up, conn, rows, devices, pushed, leaked, taken>>
      BY <1>1 DEF RemoveDevice, BeginRemoval
    <2>2. Going \subseteq Going'
      BY <2>1, GoingIs DEF Quiet
    <2>3. CarriersStay
      BY <2>1 DEF CarriersStay, Pc, Quiet, AfterEntry
    <2> QED
      BY <2>1, <2>2, <2>3, TokenFrame
  <1>2. ASSUME NEW c \in Conns, NEW d \in scenario.phones, NEW v5 \in BOOLEAN,
               Accept(c, d, v5)
        PROVE  TokenInv'
    <2>1. /\ OnlyConn(c) /\ ConnsTyped' /\ conn[c] = Closed
          /\ conn'[c] \in Connection /\ conn'[c].d = d
          /\ conn'[c].pc = "hello" /\ ~conn'[c].paired
          /\ conn'[c].seen = None /\ conn'[c].fwd = None
      BY <1>2, AcceptTurn
    <2>2. /\ up /\ conn[c].pc \notin {"forget", "revoke", "unregister"}
          /\ UNCHANGED <<leaked, pushed, rows, devices, taken>>
      BY <1>2 DEF Accept, At
    <2> QED
      BY <2>1, <2>2, TokenTurn DEF Step, Turn, Closes
  <1>3. ASSUME NEW c \in Conns, Hello(c) PROVE TokenInv'
    <2>1. \/ Closes(c)
          \/ is_device_paired(conn[c].d) /\
             Turn(c, "watch", TRUE, conn[c].seen, conn[c].fwd, conn[c].req)
          \/ ~is_device_paired(conn[c].d) /\
             Turn(c, "loop", FALSE, conn[c].seen, conn[c].fwd, conn[c].req)
      BY <1>3, HelloTurn
    <2>2. /\ up /\ conn[c].pc \notin {"forget", "revoke", "unregister"}
          /\ UNCHANGED <<leaked, pushed, rows, devices, taken>>
      BY <1>3 DEF Hello, At
    <2> QED
      BY <2>1, <2>2, TokenTurn DEF Step, Turn, Closes
  <1>4. ASSUME NEW c \in Conns, Watch(c) PROVE TokenInv'
    <2>1. Turn(c, IF conn[c].pc = "watch" THEN "mark" ELSE "loop", TRUE,
               revision[conn[c].d], conn[c].fwd, conn[c].req)
      BY <1>4, WatchTurn
    <2>2. /\ up /\ conn[c].pc \notin {"forget", "revoke", "unregister"}
          /\ UNCHANGED <<leaked, pushed, rows, devices, taken>>
      BY <1>4 DEF Watch, At
    <2> QED
      BY <2>1, <2>2, TokenTurn DEF Step, Turn, Closes
  <1>5. ASSUME NEW c \in Conns, mark_device_seen(c) PROVE TokenInv'
    <2> DEFINE d == conn[c].d
    <2>1. Step(c, "recheck")
      BY <1>5, mark_device_seenTurn
    <2>2. up /\ conn[c].pc = "mark"
      BY <1>5 DEF mark_device_seen, At
    <2>3. d \in Devices
      BY <2>2, OpenConn, ConnFields
    <2>4. Going \subseteq Going' /\ up' = up
      BY <2>1, <2>2, GoingTurn DEF Step, Turn, Closes, OnlyConn
    <2>9. CarriersStay
      <3>1. UNCHANGED taken
        BY <1>5 DEF mark_device_seen
      <3> QED
        BY <2>1, <2>2, <3>1, CarriersTurn DEF Step, Turn, Closes, AfterEntry
    <2>5. /\ \/ rows' = rows
             \/ is_device_paired(d) /\ rows' = Stored(d, devices[d])
          /\ UNCHANGED <<leaked, pushed, devices>>
      BY <1>5 DEF mark_device_seen, Saved
    <2> HIDE DEF d
    <2>6. CASE rows' = rows
      BY <2>2, <2>4, <2>5, <2>6, <2>9, TokenFrame
    <2>7. CASE is_device_paired(d) /\ rows' = Stored(d, devices[d])
      <3>1. rows'[d] = devices[d] /\ \A e \in Devices \ {d} : rows'[e] = rows[e]
        BY <2>3, <2>7 DEF Stored, Typed, RegistryTyped
      <3>2. ASSUME NEW e \in Devices, NEW t, HoldsAt(e, t)
            PROVE  HoldsAt(e, t)'
        <4>1. CASE e = d
          BY <2>5, <2>7, <3>1, <3>2, <4>1 DEF HoldsAt, is_device_paired
        <4>2. CASE e # d
          BY <2>4, <2>5, <3>1, <3>2, <4>2, HoldsElsewhere
        <4> QED
          BY <4>1, <4>2
      <3> QED
        BY <2>2, <2>4, <2>5, <2>9, <3>2, TokenBy
    <2> QED
      BY <2>5, <2>6, <2>7
  <1>6. ASSUME NEW c \in Conns, Recheck(c) PROVE TokenInv'
    <2>1. Closes(c) \/ (is_device_paired(conn[c].d) /\ Step(c, "loop"))
      BY <1>6, RecheckTurn
    <2>2. /\ up /\ conn[c].pc \notin {"forget", "revoke", "unregister"}
          /\ UNCHANGED <<leaked, pushed, rows, devices, taken>>
      BY <1>6 DEF Recheck, At
    <2> QED
      BY <2>1, <2>2, TokenTurn DEF Step, Turn, Closes
  <1>7. ASSUME NEW c \in Conns, NoticeRevocation(c) PROVE TokenInv'
    <2>1. Closes(c)
      BY <1>7, NoticeRevocationTurn
    <2>2. /\ up /\ conn[c].pc \notin {"forget", "revoke", "unregister"}
          /\ UNCHANGED <<leaked, pushed, rows, devices, taken>>
      BY <1>7 DEF NoticeRevocation, At
    <2> QED
      BY <2>1, <2>2, TokenTurn DEF Step, Turn, Closes
  <1>8. ASSUME NEW c \in Conns, HangUp(c) PROVE TokenInv'
    <2>1. Closes(c)
      BY <1>8, HangUpTurn
    <2>2. /\ up /\ conn[c].pc \notin {"forget", "revoke", "unregister"}
          /\ UNCHANGED <<leaked, pushed, rows, devices, taken>>
      BY <1>8 DEF HangUp, At
    <2> QED
      BY <2>1, <2>2, TokenTurn DEF Step, Turn, Closes
  <1>9. ASSUME NEW c \in Conns, NEW pc \in scenario.asks, Receive(c, pc)
        PROVE  TokenInv'
    <2>1. \/ Closes(c)
          \/ StillPaired(c) /\ Allowed(c, pc) /\ pc \in Requests /\ Step(c, pc)
      BY <1>9, ReceiveTurn
    <2>2. /\ up /\ conn[c].pc \notin {"forget", "revoke", "unregister"}
          /\ UNCHANGED <<leaked, pushed, rows, devices, taken>>
      BY <1>9 DEF Receive, At
    <2> QED
      BY <2>1, <2>2, TokenTurn DEF Step, Turn, Closes
  <1>10. ASSUME NEW c \in Conns, StartForwarder(c) PROVE TokenInv'
    <2>1. Turn(c, "loop", conn[c].paired, conn[c].seen, conn[c].seen,
               conn[c].req)
      BY <1>10, StartForwarderTurn
    <2>2. /\ up /\ conn[c].pc \notin {"forget", "revoke", "unregister"}
          /\ UNCHANGED <<leaked, pushed, rows, devices, taken>>
      BY <1>10 DEF StartForwarder, At
    <2> QED
      BY <2>1, <2>2, TokenTurn DEF Step, Turn, Closes
  <1>11. ASSUME NEW c \in Conns, StopForwarder(c) PROVE TokenInv'
    <2>1. Turn(c, conn[c].pc, conn[c].paired, conn[c].seen, None, conn[c].req)
      BY <1>11, StopForwarderTurn
    <2>2. Going \subseteq Going' /\ up' = up
      BY <2>1, GoingTurn DEF Turn, OnlyConn
    <2>3. up /\ UNCHANGED <<leaked, pushed, rows, devices, taken>>
      BY <1>11 DEF StopForwarder
    <2>4. CarriersStay
      BY <2>1, <2>3, CarriersTurn DEF Turn
    <2> QED
      BY <2>2, <2>3, <2>4, TokenFrame
  <1>12. ASSUME NEW c \in Conns, NEW t \in scenario.tokens, update_device_push(c, t)
         PROVE  TokenInv'
    <2> DEFINE d == conn[c].d
    <2>1. Step(c, "loop")
      BY <1>12, update_device_pushTurn
    <2>2. up /\ conn[c].pc = "push"
      BY <1>12 DEF update_device_push, At
    <2>3. d \in Devices /\ t \in Tokens
      BY <2>2, OpenConn, ConnFields DEF Typed, ConnsTyped, Scenario
    <2>4. Going \subseteq Going' /\ up' = up
      BY <2>1, <2>2, GoingTurn DEF Step, Turn, Closes, OnlyConn
    <2>9. CarriersStay
      <3>1. UNCHANGED taken
        BY <1>12 DEF update_device_push, registry
      <3> QED
        BY <2>1, <2>2, <3>1, CarriersTurn DEF Step, Turn, Closes, AfterEntry
    <2>5. CASE UNCHANGED <<registry, leaked>>
      BY <2>2, <2>4, <2>5, <2>9, TokenFrame
    <2>6. CASE is_device_paired(d)
      <3>1. /\ devices' = [devices EXCEPT ![d].token = t]
            /\ \/ /\ rows' = Stored(d, [token |-> t]) /\ pushed' = pushed \cup {t}
                  /\ leaked' = (leaked \cup TokenOf(d)) \ {t}
               \/ /\ UNCHANGED <<rows, pushed>>
                  /\ leaked' = leaked \cup (TokenOf(d) \ {t})
        BY <1>12, <2>6 DEF update_device_push
      <3>0. pushed \subseteq Tokens
        BY DEF Typed, RegistryTyped
      <3>8. PICK g \in Devices : g = d
        BY <2>3
      <3>9. devices' = [devices EXCEPT ![g].token = t] /\ is_device_paired(g)
        BY <2>6, <3>1, <3>8
      <3> HIDE DEF d
      <3>2. /\ is_device_paired(g)' /\ devices'[g].token = t
            /\ \A e \in Devices \ {g} : devices'[e] = devices[e]
        BY <2>3, <3>9, TokenSet
      <3>3. CASE UNCHANGED <<rows, pushed>> /\ leaked' = leaked \cup (TokenOf(d) \ {t})
        <4>1. ASSUME NEW u \in pushed' \ leaked', NEW e \in Devices, HoldsAt(e, u)
              PROVE  HoldsAt(e, u)'
          <5>1. CASE e = g
            <6>1. u = t
              BY <3>0, <3>3, <3>8, <4>1, <5>1 DEF TokenOf, HoldsAt
            <6>2. g \in Going \/ (rows[g] # None /\ rows[g].token = t)
              BY <4>1, <5>1, <6>1 DEF HoldsAt
            <6>3. g \in Going' \/ (rows'[g] # None /\ rows'[g].token = t)
              BY <2>4, <3>3, <6>2
            <6> QED
              BY <3>2, <5>1, <6>1, <6>3 DEF HoldsAt, is_device_paired
          <5>2. CASE e # g
            BY <2>4, <3>2, <3>3, <4>1, <5>2, HoldsElsewhere
          <5> QED
            BY <5>1, <5>2
        <4> QED
          BY <2>2, <2>4, <2>9, <3>3, <4>1, TokenBy
      <3>4. CASE /\ rows' = Stored(d, [token |-> t]) /\ pushed' = pushed \cup {t}
                 /\ leaked' = (leaked \cup TokenOf(d)) \ {t}
        <4>1. /\ rows'[g] # None /\ rows'[g].token = t
              /\ \A e \in Devices \ {g} : rows'[e] = rows[e]
          BY <2>3, <3>4, <3>8, StoredToken
        <4>2. HoldsAt(g, t)'
          BY <3>2, <4>1 DEF HoldsAt, is_device_paired
        <4>3. ASSUME NEW u \in pushed' \ leaked', u # t, NEW e \in Devices, HoldsAt(e, u)
              PROVE  HoldsAt(e, u)'
          <5>1. e # g
            BY <3>0, <3>4, <3>8, <4>3 DEF TokenOf, HoldsAt
          <5> QED
            BY <2>4, <3>2, <4>1, <4>3, <5>1, HoldsElsewhere
        <4>4. \A u \in pushed' \ leaked' : u # t => u \in pushed \ leaked
          BY <3>4
        <4>5. ASSUME NEW u \in pushed' \ leaked'
              PROVE  \/ \E e \in Devices : HoldsAt(e, u)'
                     \/ /\ u \in pushed \ leaked
                        /\ \A e \in Devices : HoldsAt(e, u) => HoldsAt(e, u)'
          <5>1. CASE u = t
            BY <2>3, <4>2, <5>1
          <5>2. CASE u # t
            BY <4>3, <4>4, <4>5, <5>2
          <5> QED
            BY <5>1, <5>2
        <4> QED
          BY <2>2, <2>4, <2>9, <4>5, TokenBy
      <3> QED
        BY <3>1, <3>3, <3>4
    <2> QED
      BY <1>12, <2>5, <2>6 DEF update_device_push
  <1>13. ASSUME NEW c \in Conns, NEW t \in scenario.tokens, clear_device_push(c, t)
         PROVE  TokenInv'
    <2> DEFINE d == conn[c].d
    <2>1. Step(c, "loop")
      BY <1>13, clear_device_pushTurn
    <2>2. up /\ conn[c].pc = "clear"
      BY <1>13 DEF clear_device_push, At
    <2>3. d \in Devices
      BY <2>2, OpenConn, ConnFields
    <2>4. Going \subseteq Going' /\ up' = up
      BY <2>1, <2>2, GoingTurn DEF Step, Turn, Closes, OnlyConn
    <2>9. CarriersStay
      <3>1. UNCHANGED taken
        BY <1>13 DEF clear_device_push, registry
      <3> QED
        BY <2>1, <2>2, <3>1, CarriersTurn DEF Step, Turn, Closes, AfterEntry
    <2>5. CASE UNCHANGED <<registry, leaked>>
      BY <2>2, <2>4, <2>5, <2>9, TokenFrame
    <2>6. CASE ~UNCHANGED <<registry, leaked>>
      <3>1. /\ t \in TokenOf(d) /\ devices' = [devices EXCEPT ![d].token = None]
            /\ \/ /\ rows' = Stored(d, Unnotified) /\ pushed' = pushed \ {t}
                  /\ UNCHANGED leaked
               \/ leaked' = leaked \cup {t} /\ UNCHANGED <<rows, pushed>>
        BY <1>13, <2>6 DEF clear_device_push
      <3>2. /\ is_device_paired(d) /\ devices[d].token = t
        BY <3>1 DEF TokenOf
      <3> HIDE DEF d
      <3>3. \A e \in Devices \ {d} : devices'[e] = devices[e]
        BY <2>3, <3>1, <3>2, TokenSet
      <3>4. \A e \in Devices \ {d} : rows'[e] = rows[e]
        BY <2>3, <3>1, StoredToken DEF Unnotified
      <3>5. ASSUME NEW u \in pushed' \ leaked', NEW e \in Devices, HoldsAt(e, u)
            PROVE  HoldsAt(e, u)'
        <4>1. e # d
          BY <3>1, <3>2, <3>5 DEF HoldsAt
        <4> QED
          BY <2>4, <3>3, <3>4, <3>5, <4>1, HoldsElsewhere
      <3>6. pushed' \ leaked' \subseteq pushed \ leaked
        BY <3>1
      <3> QED
        BY <2>2, <2>4, <2>9, <3>5, <3>6, TokenBy
    <2> QED
      BY <2>5, <2>6
  <1>14. ASSUME NEW c \in Conns, UnpairSelf(c) PROVE TokenInv'
    <2>1. \/ is_device_paired(conn[c].d) /\ Step(c, "erase")
          \/ ~is_device_paired(conn[c].d) /\
             Turn(c, "loop", FALSE, None, conn[c].fwd, conn[c].req)
      BY <1>14, UnpairSelfTurn
    <2>2. /\ up /\ conn[c].pc \notin {"forget", "revoke", "unregister"}
          /\ UNCHANGED <<leaked, pushed, rows, devices, taken>>
      BY <1>14 DEF UnpairSelf, At, BeginRemoval
    <2> QED
      BY <2>1, <2>2, TokenTurn DEF Step, Turn, Closes
  <1>15. ASSUME NEW c \in Conns, RightCode(c) PROVE TokenInv'
    <2>1. \/ /\ approvals' = approvals \cup {Len(requests) + 1}
             /\ prompts' = prompts \cup {Len(requests) + 1}
             /\ Turn(c, "wait", conn[c].paired, conn[c].seen, conn[c].fwd,
                     Len(requests) + 1)
          \/ /\ UNCHANGED <<approvals, prompts>>
             /\ Turn(c, "loop", conn[c].paired, conn[c].seen, conn[c].fwd, None)
      BY <1>15, RightCodeTurn
    <2>2. /\ up /\ conn[c].pc \notin {"forget", "revoke", "unregister"}
          /\ UNCHANGED <<leaked, pushed, rows, devices, taken>>
      BY <1>15 DEF RightCode, At
    <2> QED
      BY <2>1, <2>2, TokenTurn DEF Step, Turn, Closes
  <1>16. ASSUME NEW c \in Conns, WrongCode(c) PROVE TokenInv'
    <2>1. Step(c, "loop")
      BY <1>16, WrongCodeTurn
    <2>2. /\ up /\ conn[c].pc \notin {"forget", "revoke", "unregister"}
          /\ UNCHANGED <<leaked, pushed, rows, devices, taken>>
      BY <1>16 DEF WrongCode, At
    <2> QED
      BY <2>1, <2>2, TokenTurn DEF Step, Turn, Closes
  <1>17. ASSUME NEW c \in Conns, Wait(c) PROVE TokenInv'
    <2>1. \/ /\ answers[conn[c].req] # None /\ answers[conn[c].req]
             /\ UNCHANGED approvals
             /\ Turn(c, "save", conn[c].paired, conn[c].seen, conn[c].fwd,
                     conn[c].req)
          \/ /\ approvals' \subseteq approvals
             /\ Turn(c, "loop", conn[c].paired, conn[c].seen, conn[c].fwd, None)
      BY <1>17, WaitTurn
    <2>2. /\ up /\ conn[c].pc \notin {"forget", "revoke", "unregister"}
          /\ UNCHANGED <<leaked, pushed, rows, devices, taken>>
      BY <1>17 DEF Wait, At
    <2> QED
      BY <2>1, <2>2, TokenTurn DEF Step, Turn, Closes
  <1>18. ASSUME NEW c \in Conns, SaveRow(c) PROVE TokenInv'
    <2> DEFINE d == conn[c].d
    <2>1. Closes(c) \/ Step(c, "insert")
      BY <1>18, SaveRowTurn
    <2>2. up /\ conn[c].pc = "save"
      BY <1>18 DEF SaveRow, At
    <2>3. d \in Devices
      BY <2>2, OpenConn, ConnFields
    <2>4. Going \subseteq Going' /\ up' = up
      BY <2>1, <2>2, GoingTurn DEF Step, Turn, Closes, OnlyConn
    <2>9. CarriersStay
      <3>1. UNCHANGED taken
        BY <1>18 DEF SaveRow
      <3> QED
        BY <2>1, <2>2, <3>1, CarriersTurn DEF Step, Turn, Closes, AfterEntry
    <2>5. /\ UNCHANGED <<pushed, devices>>
          /\ \/ UNCHANGED <<rows, leaked>>
             \/ rows' = Stored(d, Unnotified) /\ leaked' = leaked \cup TokenOf(d)
      BY <1>18 DEF SaveRow
    <2>0. pushed \subseteq Tokens
      BY DEF Typed, RegistryTyped
    <2> HIDE DEF d
    <2>6. CASE UNCHANGED <<rows, leaked>>
      BY <2>2, <2>4, <2>5, <2>6, <2>9, TokenFrame
    <2>7. CASE rows' = Stored(d, Unnotified) /\ leaked' = leaked \cup TokenOf(d)
      <3>1. \A e \in Devices \ {d} : rows'[e] = rows[e]
        BY <2>3, <2>7, StoredToken DEF Unnotified
      <3>2. ASSUME NEW u \in pushed' \ leaked', NEW e \in Devices, HoldsAt(e, u)
            PROVE  HoldsAt(e, u)'
        <4>1. e # d
          BY <2>0, <2>5, <2>7, <3>2 DEF HoldsAt, TokenOf
        <4> QED
          BY <2>4, <2>5, <3>1, <3>2, <4>1, HoldsElsewhere
      <3> QED
        BY <2>2, <2>4, <2>5, <2>7, <2>9, <3>2, TokenBy
    <2> QED
      BY <2>5, <2>6, <2>7
  <1>19. ASSUME NEW c \in Conns, InsertDevice(c) PROVE TokenInv'
    <2> DEFINE d == conn[c].d
    <2>1. Turn(c, "completed", conn[c].paired, conn[c].seen, conn[c].fwd, None)
      BY <1>19, InsertDeviceTurn
    <2>2. up /\ conn[c].pc = "insert"
      BY <1>19 DEF InsertDevice, At
    <2>3. d \in Devices
      BY <2>2, OpenConn, ConnFields
    <2>4. Going \subseteq Going' /\ up' = up
      BY <2>1, <2>2, GoingTurn DEF Step, Turn, Closes, OnlyConn
    <2>9. CarriersStay
      <3>1. UNCHANGED taken
        BY <1>19 DEF InsertDevice
      <3> QED
        BY <2>1, <2>2, <3>1, CarriersTurn DEF Step, Turn, Closes, AfterEntry
    <2>5. /\ UNCHANGED <<pushed, rows>>
          /\ devices' = [devices EXCEPT ![d] = Unnotified]
          /\ leaked' = leaked \cup TokenOf(d)
      BY <1>19 DEF InsertDevice
    <2>0. pushed \subseteq Tokens
      BY DEF Typed, RegistryTyped
    <2> HIDE DEF d
    <2>6. \A e \in Devices \ {d} : devices'[e] = devices[e]
      BY <2>3, <2>5 DEF Typed, RegistryTyped
    <2>7. ASSUME NEW u \in pushed' \ leaked', NEW e \in Devices, HoldsAt(e, u)
          PROVE  HoldsAt(e, u)'
      <3>1. e # d
        BY <2>0, <2>5, <2>7 DEF HoldsAt, TokenOf
      <3> QED
        BY <2>4, <2>5, <2>6, <2>7, <3>1, HoldsElsewhere
    <2> QED
      BY <2>2, <2>4, <2>5, <2>7, <2>9, TokenBy
  <1>20. ASSUME NEW who \in Conns \cup {None}, EraseRow(who) PROVE TokenInv'
    <2>1. \/ /\ who = None /\ remover \in Removal /\ remover.pc = "erase"
             /\ UNCHANGED <<conn, scenario, up>> /\ ConnsTyped'
             /\ \/ /\ rows' = [rows EXCEPT ![remover.d] = None]
                   /\ remover' \in Removal
                   /\ remover'.pc = "forget" /\ remover'.d = remover.d
                \/ UNCHANGED rows /\ remover' = Quiet
          \/ /\ who \in Conns /\ conn[who].pc = "erase"
             /\ \/ /\ rows' = [rows EXCEPT ![conn[who].d] = None]
                   /\ Step(who, "forget")
                \/ UNCHANGED rows /\ Step(who, "loop")
      BY <1>20, EraseRowTurn
    <2>2. up /\ UNCHANGED <<up, devices, pushed, leaked, taken>>
      BY <1>20 DEF EraseRow
    <2>3. /\ Going \subseteq Going'
          /\ \A d \in Devices : rows'[d] # rows[d] => d \in Going'
          /\ CarriersStay
      <3>1. CASE who = None
        <4>1. /\ remover.pc = "erase" /\ UNCHANGED conn
              /\ \/ /\ rows' = [rows EXCEPT ![remover.d] = None]
                    /\ remover'.pc = "forget" /\ remover'.d = remover.d
                 \/ UNCHANGED rows /\ remover' = Quiet
          BY <2>1, <3>1, AccessAssumption
        <4>2. Going \subseteq Going'
          BY <4>1, GoingIs
        <4>3. \A d \in Devices : rows'[d] # rows[d] => d \in Going'
          BY <4>1, GoingIs DEF Typed, RegistryTyped
        <4>4. CarriersStay
          BY <2>2, <4>1 DEF CarriersStay, Pc, AfterEntry
        <4> QED
          BY <4>2, <4>3, <4>4
      <3>2. CASE who \in Conns
        <4>1. /\ conn[who].pc = "erase" /\ OnlyConn(who) /\ conn'[who].d = conn[who].d
              /\ \/ /\ rows' = [rows EXCEPT ![conn[who].d] = None]
                    /\ conn'[who].pc = "forget"
                 \/ UNCHANGED rows
          BY <2>1, <3>2, AccessAssumption DEF Step, Turn
        <4>2. Going \subseteq Going'
          BY <3>2, <4>1, GoingTurn
        <4>3. \A d \in Devices : rows'[d] # rows[d] => d \in Going'
          BY <3>2, <4>1, GoingIs DEF Typed, RegistryTyped
        <4>4. CarriersStay
          BY <2>2, <3>2, <4>1, CarriersTurn DEF AfterEntry
        <4> QED
          BY <4>2, <4>3, <4>4
      <3> QED
        BY <3>1, <3>2
    <2>4. \A e \in Devices, t \in pushed : HoldsAt(e, t) => HoldsAt(e, t)'
      BY <2>2, <2>3 DEF HoldsAt, is_device_paired
    <2> QED
      BY <2>2, <2>3, <2>4, TokenBy
  <1>21. ASSUME NEW who \in Conns \cup {None}, ForgetDevice(who) PROVE TokenInv'
    <2> DEFINE d == DeviceOf(who)
    <2>1. /\ up /\ UNCHANGED <<up, rows, pushed, leaked>> /\ Pc(who) = "forget"
          /\ devices' = [devices EXCEPT ![d] = None]
      BY <1>21 DEF ForgetDevice
    <2>0. Proceeds(who, "forget", "revoke") \/ Ends(who, "forget")
      BY <1>21, ForgetDeviceTurn
    <2>2. \A w \in (Conns \cup {None}) \ {who} : Pc(w)' = Pc(w)
      BY <2>0, OthersStay
    <2>3. Going \ {d} \subseteq Going'
      BY <2>0, OthersGo
    <2>4. is_device_paired(d) => /\ Pc(who)' = "revoke"
                                 /\ taken' = [taken EXCEPT ![who] = devices[d].token]
      <3>1. CASE is_device_paired(d)
        <4>1. Proceeds(who, "forget", "revoke")
          BY <1>21, <3>1, ForgetDeviceTurn
        <4>2. taken' = [taken EXCEPT ![who] = devices[d].token]
          BY <1>21, <3>1, ForgetDeviceTurn
        <4> QED
          BY <4>1, <4>2, NextPc
      <3> QED
        BY <3>1
    <2>5. ~is_device_paired(d) => UNCHANGED taken
      BY <1>21, ForgetDeviceTurn
    <2> HIDE DEF d
    <2>6. \A e \in Devices : devices'[e] = devices[e] \/ e = d
      BY <2>1 DEF Typed, RegistryTyped
    <2>7. CarriersStay
      BY <2>1, <2>2, <2>4, <2>5 DEF CarriersStay, AfterEntry, Typed, RegistryTyped
    <2> SUFFICES ASSUME NEW t \in pushed \ leaked
                 PROVE  \/ \E e \in Devices : HoldsAt(e, t)'
                        \/ \E w \in Conns \cup {None} :
                             Pc(w)' \in AfterEntry /\ taken'[w] = t
      BY <2>1 DEF TokenInv
    <2>8. CASE \E w \in Conns \cup {None} : Pc(w) \in AfterEntry /\ taken[w] = t
      BY <2>7, <2>8 DEF CarriersStay
    <2>9. CASE HoldsAt(d, t)
      <3>1. taken'[who] = t /\ Pc(who)' = "revoke"
        BY <2>4, <2>9 DEF HoldsAt, Typed, RegistryTyped
      <3> QED
        BY <3>1 DEF AfterEntry
    <2>10. ASSUME NEW e \in Devices \ {d}, HoldsAt(e, t) PROVE HoldsAt(e, t)'
      BY <2>1, <2>3, <2>6, <2>10 DEF HoldsAt, is_device_paired
    <2> QED
      BY <2>1, <2>8, <2>9, <2>10 DEF TokenInv
  <1>27. ASSUME NEW who \in Conns \cup {None},
                RevokeConnections(who) \/ UnregisterToken(who)
         PROVE  TokenInv'
    <2>1. /\ up /\ UNCHANGED <<up, devices, rows, leaked>>
          /\ Pc(who) \in AfterEntry /\ pushed' \subseteq pushed
      BY <1>27 DEF RevokeConnections, UnregisterToken, Unregistered, AfterEntry
    <2>2. /\ \A w \in (Conns \cup {None}) \ {who} : Pc(w)' = Pc(w)
          /\ Going \subseteq Going'
      <3>1. PICK from \in AfterEntry :
              Proceeds(who, from, "unregister") \/ Ends(who, from)
        BY <1>27, RevokeConnectionsTurn, UnregisterTokenTurn DEF AfterEntry
      <3>2. \A w \in (Conns \cup {None}) \ {who} : Pc(w)' = Pc(w)
        BY <3>1, OthersStay
      <3>3. Going \subseteq Going'
        BY <3>1, GoingIs DEF Proceeds, Ends, Step, Turn, OnlyConn, AfterEntry
      <3> QED
        BY <3>2, <3>3
    <2>3. \A w \in (Conns \cup {None}) \ {who} : taken'[w] = taken[w]
      BY <1>27 DEF RevokeConnections, UnregisterToken, Typed, RegistryTyped
    <2>4. \/ Pc(who)' \in AfterEntry /\ taken'[who] = taken[who]
          \/ taken[who] \notin pushed'
      <3>1. CASE RevokeConnections(who)
        <4>1. CASE Proceeds(who, "revoke", "unregister")
          <5>1. Pc(who)' = "unregister"
            BY <4>1, NextPc
          <5> QED
            BY <3>1, <5>1 DEF RevokeConnections, AfterEntry
        <4>2. CASE taken[who] = None
          BY <3>1, <4>2, AccessAssumption DEF RevokeConnections, Typed, RegistryTyped
        <4> QED
          BY <3>1, <4>1, <4>2, RevokeConnectionsTurn
      <3>2. CASE UnregisterToken(who)
        BY <3>2 DEF UnregisterToken, Unregistered
      <3> QED
        BY <1>27, <3>1, <3>2
    <2> SUFFICES ASSUME NEW t \in pushed' \ leaked
                 PROVE  \/ \E e \in Devices : HoldsAt(e, t)'
                        \/ \E w \in Conns \cup {None} :
                             Pc(w)' \in AfterEntry /\ taken'[w] = t
      BY <2>1 DEF TokenInv
    <2>5. ASSUME NEW e \in Devices, HoldsAt(e, t) PROVE HoldsAt(e, t)'
      BY <2>1, <2>2, <2>5 DEF HoldsAt, is_device_paired
    <2>6. ASSUME NEW w \in Conns \cup {None}, Pc(w) \in AfterEntry, taken[w] = t
          PROVE  \E x \in Conns \cup {None} : Pc(x)' \in AfterEntry /\ taken'[x] = t
      BY <2>2, <2>3, <2>4, <2>6
    <2> QED
      BY <2>1, <2>5, <2>6 DEF TokenInv
  <1>22. ASSUME Crash PROVE TokenInv'
    <2>1. /\ up /\ ~up' /\ UNCHANGED <<rows, pushed>>
          /\ leaked' = leaked \cup Owed \cup Carried
      BY <1>22 DEF Crash
    <2> SUFFICES ASSUME NEW t \in pushed \ leaked'
                 PROVE  \E d \in Devices : rows[d] # None /\ rows[d].token = t
      BY <2>1 DEF TokenInv
    <2>2. t \in Tokens /\ t \notin leaked
      BY <2>1 DEF Typed, RegistryTyped
    <2>3. \A who \in Conns \cup {None} : taken[who] # t
      <3>1. t \notin Carried
        BY <2>1
      <3> QED
        BY <2>2, <3>1 DEF Carried
    <2>4. PICK d \in Devices : HoldsAt(d, t)
      BY <2>1, <2>2, <2>3 DEF TokenInv
    <2>5. d \notin Going
      <3>1. t \in TokenOf(d)
        BY <2>2, <2>4 DEF HoldsAt, TokenOf
      <3>2. t \notin Owed
        BY <2>1
      <3> QED
        BY <3>1, <3>2 DEF Owed
    <2> QED
      BY <2>4, <2>5 DEF HoldsAt
  <1>23. ASSUME Restart PROVE TokenInv'
    <2>1. /\ ~up /\ up' /\ devices' = rows /\ UNCHANGED <<rows, pushed, leaked>>
      BY <1>23 DEF Restart, load_devices
    <2> QED
      BY <2>1 DEF TokenInv, HoldsAt, is_device_paired
  <1>24. ASSUME UNCHANGED <<up, conn, remover, rows, devices, pushed, leaked, taken>>
         PROVE  TokenInv'
    <2>1. Going' = Going
      BY <1>24, GoingIs
    <2>2. \A w \in Conns \cup {None} : Pc(w)' = Pc(w)
      BY <1>24 DEF Pc
    <2> QED
      BY <1>24, <2>1, <2>2 DEF TokenInv, HoldsAt, is_device_paired
  <1>25. ASSUME begin_pairing \/ DesktopLeaves \/ CodeLapses PROVE TokenInv'
    BY <1>25, <1>24 DEF Moved, Goto, Close, At, Advance, BeginRemoval,
       begin_pairing, DesktopLeaves, CodeLapses
  <1>26. ASSUME NEW i \in RequestIds, NEW yes \in BOOLEAN,
               approve(i, yes)
         PROVE  TokenInv'
    BY <1>26, <1>24 DEF Moved, Goto, Close, At, Advance, BeginRemoval, approve
  <1> QED
    BY <1>1, <1>2, <1>3, <1>4, <1>5, <1>6, <1>7, <1>8, <1>9, <1>10, <1>11,
       <1>12, <1>13, <1>14, <1>15, <1>16, <1>17, <1>18, <1>19, <1>20, <1>21,
       <1>22, <1>23, <1>24, <1>25, <1>26, <1>27 DEF Next, Desktop, Phone

-----------------------------------------------------------------------------
(***************************************************************************)
(* The theorems.                                                           *)
(***************************************************************************)
LEMMA InitIsGood == Init => IInv
  <1> SUFFICES ASSUME Init PROVE IInv
    OBVIOUS
  <1>1. \A d \in Devices :
          \/ d \in scenario.paired /\ devices[d] = Unnotified
          \/ d \notin scenario.paired /\ devices[d] = None
    BY DEF Init
  <1>2. devices \in [Devices -> StoredDevice \cup {None}]
    BY NewRecord DEF Init, Unnotified
  <1>3. ManagerTyped
    BY AccessAssumption DEF ManagerTyped, Init, CodeIds, RequestIds, PairingRequest
  <1>4. RegistryTyped
    BY <1>2 DEF RegistryTyped, Init
  <1>5. ConnsTyped
    BY AccessAssumption DEF ConnsTyped, Init
  <1>6. up /\ remover = Quiet /\ rows = devices
    BY DEF Init
  <1>7. \A c \in Conns : conn[c] = Closed
    BY DEF Init
  <1>8. CodeInv
    BY AccessAssumption DEF CodeInv, Init, CodeIds
  <1>9. AnsweredInv
    BY AccessAssumption DEF AnsweredInv, Init, RequestIds
  <1>10. GrantedInv
    BY DEF GrantedInv, Init
  <1>11. OnlyApproved
    BY <1>1, <1>6 DEF OnlyApproved
  <1>12. SeenInv /\ AskedInv /\ DownInv /\ ToldInv
    BY <1>6, <1>7 DEF SeenInv, AskedInv, DownInv, ToldInv, Closed
  <1>13. KeptInv
    BY DEF KeptInv, PairingIsKept, Init
  <1>14. TokenInv
    BY DEF TokenInv, Init
  <1> QED
    BY <1>3, <1>4, <1>5, <1>8, <1>9, <1>10, <1>11, <1>12, <1>13, <1>14
       DEF IInv, Typed

LEMMA StepIsGood ==
  ASSUME IInv, [Next]_vars
  PROVE  IInv'
  <1> USE DEF IInv
  <1>1. ManagerTyped' /\ RegistryTyped' /\ ConnsTyped' /\ DownInv'
    BY ManagerStep, RegistryStep, ConnsStep, DownStep
  <1>2. SeenInv' /\ CodeInv'
    BY SeenStep, CodeStep
  <1>3. OnlyApproved' /\ AnsweredInv' /\ AskedInv' /\ GrantedInv'
    BY OnlyStep, AnsweredStep, AskedStep, GrantedStep
  <1>4. KeptInv' /\ ToldInv' /\ TokenInv'
    BY KeptStep, ToldStep, TokenStep
  <1> QED
    BY <1>1, <1>2, <1>3, <1>4 DEF Typed

LEMMA Invariance == Spec => []IInv
  BY InitIsGood, StepIsGood, PTL DEF Spec

LEMMA OneDeviceOfCode ==
  ASSUME Typed, CodeInv, GrantedInv
  PROVE  CodePairsOne
  <1> SUFFICES ASSUME NEW k \in CodeIds PROVE Cardinality(granted[k]) <= 1
    BY DEF CodePairsOne
  <1>1. ASSUME NEW d \in granted[k], NEW e \in granted[k] PROVE d = e
    <2>1. PICK i \in 1 .. Len(requests) : requests[i].d = d /\ requests[i].k = k
      BY <1>1 DEF GrantedInv
    <2>2. PICK j \in 1 .. Len(requests) : requests[j].d = e /\ requests[j].k = k
      BY <1>1 DEF GrantedInv
    <2>3. i = j
      BY <2>1, <2>2 DEF CodeInv
    <2> QED
      BY <2>1, <2>2, <2>3
  <1>2. CASE granted[k] = {}
    BY <1>2, FS_EmptySet
  <1>3. CASE granted[k] # {}
    <2>1. PICK d : d \in granted[k]
      BY <1>3
    <2>2. granted[k] = {d}
      BY <1>1, <2>1
    <2>3. Cardinality({d}) = 1
      BY FS_Singleton
    <2> QED
      BY <2>2, <2>3
  <1> QED
    BY <1>2, <1>3

\* pairing.rs, ipc.rs: whoever is in the map or on disk was paired from the
\* start or approved at a prompt; a code pairs one device and survives fewer
\* wrong guesses than MAX_CODE_ATTEMPTS; a completed pairing stays until a
\* removal begins.
THEOREM PairedDevicesWereApproved == Spec => []AccessInv
  <1>1. ASSUME IInv PROVE AccessInv
    <2> USE <1>1 DEF IInv
    <2>1. TypeOK
      BY DEF Typed, ManagerTyped, RegistryTyped, SeenInv, TypeOK
    <2>2. CodePairsOne
      BY OneDeviceOfCode
    <2>3. GuessesAreLimited
      <3> SUFFICES ASSUME NEW k \in CodeIds, wrong[k] >= MaxAttempts,
                          code # None, code.id = k
                   PROVE  FALSE
        BY DEF GuessesAreLimited
      <3>1. wrong[k] < MaxAttempts /\ wrong[k] \in Nat
        BY DEF CodeInv, Typed, ManagerTyped
      <3> QED
        BY <3>1, AccessAssumption
    <2>4. PairingIsKept
      BY DEF KeptInv
    <2> QED
      BY <2>1, <2>2, <2>3, <2>4 DEF AccessInv
  <1> QED
    BY <1>1, Invariance, PTL

\* transport_iroh.rs: a forwarder that runs for a device that is not paired any
\* more has been told to stop, or is told by the next step of the removal,
\* wherever the removal fell between the checks of its connection.
THEOREM RemovalReachesForwarders == Spec => []ForwardersAreTold
  <1>1. IInv => ForwardersAreTold
    BY DEF IInv, ToldInv, ForwardersAreTold, Telling
  <1> QED
    BY <1>1, Invariance, PTL

\* ipc.rs: a token is registered only while a paired device holds it, or a
\* removal that took its device out is about to unregister it, unless the
\* daemon lost track of it (`leaked`).
THEOREM TokensGoWithDevices == Spec => []TokenGoesWithDevice
  <1>1. ASSUME IInv PROVE TokenGoesWithDevice
    <2>1. pushed \subseteq Tokens /\ TokenInv
      BY <1>1 DEF IInv, Typed, RegistryTyped
    <2> QED
      BY <2>1 DEF TokenInv, TokenGoesWithDevice, TokenOf, HoldsAt, AfterEntry
  <1> QED
    BY <1>1, Invariance, PTL

=============================================================================
