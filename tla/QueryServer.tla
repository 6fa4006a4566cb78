----------------------------- MODULE QueryServer ----------------------------
(***************************************************************************)
(* The resident query servers of a workspace, the commands that ask it and  *)
(* the refreshes that replace the graph it loaded.  A port file outlives   *)
(* the server that wrote it; a command that gets no answer loads the graph *)
(* itself.                                                                 *)
(***************************************************************************)
EXTENDS Queries

CONSTANTS
  Histories,           \* the graphs refreshes write, in order
  Commands,            \* what is asked
  Clients, Servers, Ports,
  NONE, FOREIGN, CUT

ASSUME ServerAssumption ==
  /\ \A h \in Histories : /\ h \in Seq(Graphs) /\ Len(h) > 0
                          /\ \A i \in DOMAIN h : IsFiniteSet(h[i].nodes)
  /\ \A q \in Commands : /\ q \in Questions
                         /\ (q.cmd = "find" /\ q.at > 0) \/ q.name \in DOMAIN Tier
  /\ {NONE, FOREIGN, CUT} \intersect (Servers \union {"direct"}) = {}

VARIABLES
  history, disk,       \* the graphs, and which is on disk
  server,              \* each server: the graph it holds, its connections
  listening,           \* who listens on each port
  portFile,
  client

vars == <<history, disk, server, listening, portFile, client>>

Init ==
  /\ history \in Histories /\ disk = 1
  /\ server = [s \in Servers |-> [pc |-> "off", version |-> 0, port |-> NONE, queue |-> <<>>]]
  /\ listening = [p \in Ports |-> NONE] /\ portFile = NONE
  /\ client = [c \in Clients |-> [pc |-> "idle", q |-> NONE, port |-> NONE,
                                  by |-> NONE, version |-> 0]]

Goto(c, step) == client' = [client EXCEPT ![c].pc = step]

Refresh ==
  /\ disk < Len(history) /\ disk' = disk + 1
  /\ UNCHANGED <<history, server, listening, portFile, client>>

(* run_serve: the graph is loaded once, the port bound, and then announced *)
(* over whatever an earlier server announced; only then is it served.      *)
Load(s) ==
  /\ server[s].pc = "off"
  /\ server' = [server EXCEPT ![s].pc = "loaded", ![s].version = disk]
  /\ UNCHANGED <<history, disk, listening, portFile, client>>

Listen(s) ==
  /\ server[s].pc = "loaded"
  /\ \E p \in Ports :
       /\ listening[p] = NONE
       /\ listening' = [listening EXCEPT ![p] = s]
       /\ server' = [server EXCEPT ![s].pc = "listening", ![s].port = p]
  /\ UNCHANGED <<history, disk, portFile, client>>

Announce(s) ==
  /\ server[s].pc = "listening"
  /\ portFile' = server[s].port /\ server' = [server EXCEPT ![s].pc = "serving"]
  /\ UNCHANGED <<history, disk, listening, client>>

(* Connections are answered one at a time, in order; a bad or lost request *)
(* ends its connection only.                                               *)
Reply(s) ==
  /\ server[s].pc = "serving" /\ server[s].queue # <<>>
  /\ server' = [server EXCEPT ![s].queue = Tail(@)]
  /\ LET c == Head(server[s].queue) IN
       client' = IF client[c].pc # "waiting" THEN client
                 ELSE [client EXCEPT ![c].pc = "done", ![c].by = s,
                                     ![c].version = server[s].version]
  /\ UNCHANGED <<history, disk, listening, portFile>>

(* A server ends by a kill only, and nothing removes the port file.  Who   *)
(* waits has its connection reset, and the one being answered may take     *)
(* what it got, even nothing, for the answer.                              *)
Kill(s) ==
  /\ server[s].pc \in {"loaded", "listening", "serving"}
  /\ server' = [server EXCEPT ![s].pc = "killed", ![s].queue = <<>>]
  /\ listening' = [p \in Ports |-> IF listening[p] = s THEN NONE ELSE listening[p]]
  /\ \E cut \in SUBSET (IF server[s].pc # "serving" \/ server[s].queue = <<>> THEN {}
                        ELSE {Head(server[s].queue)}) :
       client' = [c \in Clients |->
         IF client[c].pc # "waiting" \/ c \notin ToSet(server[s].queue) THEN client[c]
         ELSE IF c \in cut THEN [client[c] EXCEPT !.pc = "done", !.by = CUT]
         ELSE [client[c] EXCEPT !.pc = "direct"]]
  /\ UNCHANGED <<history, disk, portFile>>

(* A program that is no query server takes a free port.                    *)
Bind ==
  /\ \E p \in Ports : listening[p] = NONE /\ listening' = [listening EXCEPT ![p] = FOREIGN]
  /\ \A p \in Ports : listening[p] # FOREIGN
  /\ UNCHANGED <<history, disk, server, portFile, client>>

-----------------------------------------------------------------------------
(* run_find, run_refs, run_context, and try_remote.                        *)
Ask(c) ==
  /\ client[c].pc = "idle"
  /\ \E q \in Commands : client' = [client EXCEPT ![c].pc = "locate", ![c].q = q]
  /\ UNCHANGED <<history, disk, server, listening, portFile>>

Locate(c) ==
  /\ client[c].pc = "locate"
  /\ client' = [client EXCEPT ![c].pc = IF portFile = NONE THEN "direct" ELSE "connect",
                              ![c].port = portFile]
  /\ UNCHANGED <<history, disk, server, listening, portFile>>

(* Mutant: a port nobody listens on is looked up again. *)
Refused_Retry(c) ==
  /\ client[c].pc = "connect" /\ listening[client[c].port] = NONE
  /\ Goto(c, "locate")
  /\ UNCHANGED <<history, disk, server, listening, portFile>>

Refused(c) ==
  /\ client[c].pc = "connect" /\ listening[client[c].port] = NONE
  /\ Goto(c, "direct")
  /\ UNCHANGED <<history, disk, server, listening, portFile>>

Connect(c) ==
  /\ client[c].pc = "connect"
  /\ \/ \E s \in Servers :
          /\ listening[client[c].port] = s
          /\ Goto(c, "waiting") /\ server' = [server EXCEPT ![s].queue = Append(@, c)]
     \/ /\ listening[client[c].port] = FOREIGN /\ UNCHANGED server
        /\ \/ client' = [client EXCEPT ![c].pc = "done", ![c].by = FOREIGN]
           \/ Goto(c, "waiting")
  /\ UNCHANGED <<history, disk, listening, portFile>>

(* No byte for 60 seconds. *)
TimedOut(c) ==
  /\ client[c].pc = "waiting"
  /\ Goto(c, "direct")
  /\ UNCHANGED <<history, disk, server, listening, portFile>>

Direct(c) ==
  /\ client[c].pc = "direct"
  /\ client' = [client EXCEPT ![c].pc = "done", ![c].by = "direct", ![c].version = disk]
  /\ UNCHANGED <<history, disk, server, listening, portFile>>

Command(c) == Locate(c) \/ Refused(c) \/ Connect(c) \/ Direct(c)

Next ==
  \/ Refresh \/ Bind
  \/ \E s \in Servers : Load(s) \/ Listen(s) \/ Announce(s) \/ Reply(s) \/ Kill(s)
  \/ \E c \in Clients : Ask(c) \/ Command(c) \/ TimedOut(c)

(* A command runs, and a read that has a timeout ends, by an answer or by  *)
(* the timeout.                                                            *)
Spec ==
  /\ Init /\ [][Next]_vars
  /\ \A c \in Clients : WF_vars(Command(c)) /\ WF_vars(TimedOut(c))

-----------------------------------------------------------------------------
Answered(c) == client[c].by \in Servers \union {"direct"}

(* handle, or the command itself: the answer of the graph that was used.   *)
AnswerTo(c) == Answer(history[client[c].version], client[c].q)

(* query.rs: whatever graph an answer is of, the one a server holds or the *)
(* one on disk: an answer of refs shows what was asked for, and one that   *)
(* says it left nothing out has, hop by hop, every link the graph's edges  *)
(* give; find counts for each of its matches what context counts.          *)
AnswersMeetReference ==
  \A c \in Clients : Answered(c) =>
    /\ client[c].version \in 1..disk
    /\ MeetsReference(history[client[c].version], client[c].q, AnswerTo(c))

(* qserve.rs: every command ends with an answer, whoever is killed, and    *)
(* whatever the port file says.                                            *)
EveryQueryAnswered == \A c \in Clients : client[c].pc = "locate" ~> client[c].pc = "done"

(* query.rs:13: truncation is never silent; an answer of refs that says it *)
(* left nothing out has every edge.                                        *)
EveryEdgeReported ==
  \A c \in Clients : Answered(c) /\ client[c].q.cmd = "refs" =>
    EveryEdge(history[client[c].version], client[c].q, AnswerTo(c))
=============================================================================
