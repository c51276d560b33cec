------------------------------ MODULE MCClients ------------------------------
(***************************************************************************)
(* The clients and their wire, checked side by side in one run: the phone's *)
(* client, its streams, the commands that own a terminal, the one-shot      *)
(* commands, and the frames of one connection.                              *)
(* They share no state, so an initial state picks one part, and the others  *)
(* keep one fixed initial state.                                            *)
(***************************************************************************)
EXTENDS MobileCore, MobileStreams, CliTerminal, CliCommands, Wire

VARIABLE part    \* the part that runs

Parts == {"mobile", "subscription", "attached", "terminal", "typing", "commands", "wire"}

all == <<mobileVars, streamsVars, terminalVars, commandsVars, wireVars, part>>

\* The fixed initial states of the parts that do not run.
AtRest ==
    /\ part # "mobile" => daemon = NoDaemon
    /\ part # "terminal" => cmd = "pair"
    /\ part # "typing" => typed = <<>>

ClientsInit ==
    /\ part \in Parts
    /\ MobileInit /\ StreamsInit /\ TerminalInit /\ WireInit
    /\ IF part = "commands" THEN CommandsInit
       ELSE /\ name = [i \in Ids |-> Nothing] /\ exited = {} /\ created = 0
            /\ starts = [n \in Names |-> {}] /\ faults = FALSE
            /\ command = [c \in Cmds |-> Idle]
            /\ killer = [i \in Ids |-> Nothing]
            /\ overtaken = [c \in Cmds |-> FALSE] /\ applied = [c \in Cmds |-> <<>>]
    /\ AtRest

Mobile == part = "mobile" /\ MobileNext /\ UNCHANGED <<streamsVars, terminalVars, commandsVars, wireVars, part>>
Subscription == part = "subscription" /\ SubStep /\ UNCHANGED <<mobileVars, terminalVars, commandsVars, wireVars, part>>
Attached == part = "attached" /\ AttStep /\ UNCHANGED <<mobileVars, terminalVars, commandsVars, wireVars, part>>
Terminal == part = "terminal" /\ TermStep /\ UNCHANGED <<mobileVars, streamsVars, commandsVars, wireVars, part>>
Typing == part = "typing" /\ Consume /\ UNCHANGED <<mobileVars, streamsVars, commandsVars, wireVars, part>>
Commands == part = "commands" /\ CommandsNext /\ UNCHANGED <<mobileVars, streamsVars, terminalVars, wireVars, part>>
Frames == part = "wire" /\ WireNext /\ UNCHANGED <<mobileVars, streamsVars, terminalVars, commandsVars, part>>

ClientsNext == Mobile \/ Subscription \/ Attached \/ Terminal \/ Typing \/ Commands \/ Frames

\* The fairness of each module, of the part that runs.
ClientsFairness ==
    /\ WF_subVars(part = "subscription" /\ (Tick \/ Ping \/ ReadTimesOut))
    /\ WF_termVars(part = "terminal" /\ CommandStep)
    /\ \A c \in Cmds : WF_commandsVars(part = "commands" /\ Step(c))
    /\ WF_wireVars(part = "wire" /\ Reads)
    /\ \A w \in Writers : WF_wireVars(part = "wire" /\ WriteSome(w))

ClientsSpec == ClientsInit /\ [][ClientsNext]_all /\ ClientsFairness

\* Every command comes to an end: the one-shot commands by themselves, those that
\* own the terminal at the latest after a termination signal (cli/src/main.rs).
CommandsFinish ==
    /\ SignalEndsCommand
    /\ EveryCommandEnds
=============================================================================
