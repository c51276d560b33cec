-------------------------- MODULE MCSessionControl -------------------------
(***************************************************************************)
(* Instances of SessionControl.  Scenarios are explored side by side.      *)
(***************************************************************************)
EXTENDS SessionControl

Wide == [cols |-> 2, rows |-> 1]
Tall == [cols |-> 1, rows |-> 2]
Full == [cols |-> 2, rows |-> 2]
AllSizes == {Wide, Tall, Full}

Scene(does, n) == [does |-> does, acts |-> n, chatty |-> FALSE]

Resizes == {Scene({"resize"}, 3)}
Viewports == Resizes \cup {Scene({"resize", "fail", "exit"}, 2)}
States == {Scene({"event", "print", "time", "exit"}, 2),
           Scene({"input", "time", "exit", "kill"}, 2)}
Chatty == [Scene({"input", "print"}, 2) EXCEPT !.chatty = TRUE]

AllScenarios == Viewports \cup States \cup {Chatty}
=============================================================================
