--------------------------- MODULE LaunchObserver ---------------------------
(***************************************************************************)
(* The opt-in Cargo launch intent channel: one CargoLaunchSession, its     *)
(* Observer, the Unix stream to the external supervisor, and the Cargo     *)
(* child process owned by a CargoChild guard.                              *)
(*                                                                         *)
(* The session is synchronous: every call runs on one stack and blocks in  *)
(* an exchange (send an event, receive one reply).  `pc` is the place of   *)
(* that stack; "idle" means that no call is in progress and no guard is    *)
(* held.  The supervisor and the child run concurrently with it.           *)
(*                                                                         *)
(* A SHA-256 of a value is the value: the model assumes no collision.      *)
(***************************************************************************)
EXTENDS Naturals, Sequences

CONSTANTS
  MAX_OPERATIONS,        \* largest operation ordinal a Binding may carry
  MAX_CARGO_OPERATIONS,  \* observation records a session retains
  MaxOrdinal,            \* bound: calls that allocate an ordinal
  MaxInFlight,           \* bound: replies waiting in the stream
  Explicit,              \* the session has an explicit sysroot
  Nonces,                \* route nonces the supervisor may choose
  Overlays,              \* environment overlays it may answer with
  InvalidOverlays,       \* those route_inner refuses
  SelectionOverlays,     \* those that change the explicit tool selection
  NONE                   \* absence of an optional value

ASSUME ConstantsAssumption ==
  /\ MAX_OPERATIONS \in Nat \ {0}
  /\ MAX_CARGO_OPERATIONS \in Nat \ {0}
  /\ MaxOrdinal \in Nat
  /\ MaxInFlight \in Nat
  /\ Explicit \in BOOLEAN
  /\ InvalidOverlays \subseteq Overlays
  /\ SelectionOverlays \subseteq Overlays

(* Mutant: seven frames for an operation that takes eight. *)
MAX_FRAMES_Short == MAX_OPERATIONS * 7
MAX_FRAMES == MAX_OPERATIONS * 8

Ordinals == 1..MaxOrdinal

(* What the sealed carrier describes: the command of one operation, its    *)
(* final environment and the nonce of the route it came from.              *)
FinalIntents == [op : Ordinals, overlay : Overlays, nonce : Nonces]

EventTypes == {"route", "intent", "spawned", "spawn_failed", "completed",
               "cancelled", "unavailable"}
Events == [type : EventTypes, op : Ordinals, intent : FinalIntents \union {NONE}]

Event(type, op) == [type |-> type, op |-> op, intent |-> NONE]
IntentEvent(i)  == [type |-> "intent", op |-> i.op, intent |-> i]

(* "refused" stands for every frame that is received whole and is not the  *)
(* answer: Denied, malformed JSON, another version, a descriptor attached. *)
Replies ==
       [type : {"route"}, event : Events, overlay : Overlays, nonce : Nonces]
  \union [type : {"acknowledged"}, event : Events, overlay : {NONE}, nonce : {NONE}]
  \union [type : {"refused"}, event : {NONE}, overlay : {NONE}, nonce : {NONE}]

Acknowledged(e) == [type |-> "acknowledged", event |-> e, overlay |-> NONE, nonce |-> NONE]
Refused         == [type |-> "refused", event |-> NONE, overlay |-> NONE, nonce |-> NONE]
Routing(e, o, n) == [type |-> "route", event |-> e, overlay |-> o, nonce |-> n]

VARIABLES
  \* Channel
  frames,      \* frames charged so far
  broken,      \* Channel.failed
  sent,        \* events handed to the transport, in order
  replies,     \* replies in the stream, not yet received
  acked,       \* events the supervisor has acknowledged
  \* Observer
  failed,      \* Observer.failed
  operation,   \* ordinal of the last accepted route
  phase,       \* phase of Observer.pending, "none" when there is none
  final,       \* final intent of Observer.pending
  nonces,      \* nonces accepted so far
  \* CargoLaunchSession and CargoChild
  pc,
  awaiting,    \* the event whose reply the current exchange waits for
  ordinal,
  operations,  \* retained records, one per observed operation
  current,     \* index of the current record, 0 when there is none
  carrier,     \* ordinals whose sealed carrier is still open
  \* the operating system
  process,     \* the child of each operation
  killed       \* ordinals whose child was sent a kill

chanVars == <<frames, broken, sent, replies, acked>>
obsVars  == <<failed, operation, phase, final, nonces>>
sessVars == <<ordinal, operations, current>>
procVars == <<process, killed>>
vars == <<chanVars, obsVars, pc, awaiting, sessVars, carrier, procVars>>

OperationRecords == [ordinal : Ordinals, started : BOOLEAN,
                     outcome : {"open", "no_status", "exit"}]

Record(n) == [ordinal |-> n, started |-> FALSE, outcome |-> "open"]

Init ==
  /\ frames = 0 /\ broken = FALSE /\ sent = <<>> /\ replies = <<>> /\ acked = {}
  /\ failed = FALSE /\ operation = 0 /\ phase = "none" /\ final = NONE /\ nonces = {}
  /\ pc = "idle" /\ awaiting = NONE
  /\ ordinal = 0 /\ operations = <<>> /\ current = 0
  /\ carrier = {}
  /\ process = [n \in Ordinals |-> "none"]
  /\ killed = {}

-----------------------------------------------------------------------------
(* Channel *)

(* send: a failure of any kind (closed, deadline, byte or frame bound)     *)
(* breaks the channel for good; a broken channel sends nothing.            *)
Send(e) ==
  /\ awaiting' = e
  /\ \/ /\ ~broken
        /\ frames < MAX_FRAMES
        /\ frames' = frames + 1
        /\ sent' = Append(sent, e)
        /\ UNCHANGED broken
     \/ /\ broken' = TRUE
        /\ UNCHANGED <<frames, sent>>
  /\ UNCHANGED <<replies, acked>>

(* receive: one whole frame. *)
Receive ==
  /\ ~broken
  /\ frames < MAX_FRAMES
  /\ replies # <<>>
  /\ frames' = frames + 1
  /\ replies' = Tail(replies)
  /\ UNCHANGED <<broken, sent, acked>>

(* receive: closed, truncated, out of time, or over a bound. *)
Break ==
  /\ broken' = TRUE
  /\ UNCHANGED <<frames, sent, replies, acked>>

(* Mutant: any acknowledgement is taken for the one awaited. *)
ExchangeOk_AnyEvent == Receive /\ Head(replies).type = "acknowledged"

(* exchange: only the acknowledgement of exactly these event bytes counts. *)
ExchangeOk == Receive /\ Head(replies) = Acknowledged(awaiting)
ExchangeErr == Break \/ (Receive /\ Head(replies) # Acknowledged(awaiting))

(* notify, answered or not: an error fences the observer. *)
Notified ==
  \/ ExchangeOk /\ UNCHANGED failed
  \/ ExchangeErr /\ failed' = TRUE

Return == pc' = "idle" /\ awaiting' = NONE

-----------------------------------------------------------------------------
(* CargoLaunchSession::begin, launch_reference_check and Observer::route *)

(* Mutant: a route is accepted while an operation is pending. *)
Correlated_Pending(n) == ~failed /\ n = operation + 1 /\ n <= MAX_OPERATIONS

(* route_inner refuses a route out of order, one after a failure, and one  *)
(* while an earlier operation is pending; command_intent refuses a binding *)
(* over the operation bound.                                               *)
Correlated(n) ==
  /\ ~failed
  /\ phase = "none"
  /\ n = operation + 1
  /\ n <= MAX_OPERATIONS

(* The frozen command may also exceed a bound of its own. *)
Route(n) ==
  \/ /\ Correlated(n)
     /\ Send(Event("route", n))
     /\ pc' = "route"
     /\ UNCHANGED failed
  \/ /\ failed' = TRUE
     /\ Send(Event("unavailable", n))
     /\ pc' = "unavailable"

Begin ==
  /\ pc = "idle"
  /\ ordinal < MaxOrdinal
  /\ ordinal' = ordinal + 1
  /\ IF Len(operations) >= MAX_CARGO_OPERATIONS
     THEN UNCHANGED <<chanVars, failed, pc, awaiting, current>>
     ELSE Route(ordinal + 1) /\ current' = Len(operations) + 1
  /\ UNCHANGED <<operation, phase, final, nonces, operations, carrier, procVars>>

BeginReferenceCheck ==
  /\ pc = "idle"
  /\ Explicit
  /\ ordinal < MAX_CARGO_OPERATIONS
  /\ ordinal < MaxOrdinal
  /\ ordinal' = ordinal + 1
  /\ current' = 0
  /\ Route(ordinal + 1)
  /\ UNCHANGED <<operation, phase, final, nonces, operations, carrier, procVars>>

(* Mutant: an acknowledgement passes for a route response. *)
Accepts_AnyReply(r) ==
  r.event = awaiting /\ r.nonce \notin nonces /\ r.overlay \notin InvalidOverlays

(* Mutant: a nonce may be accepted twice. *)
Accepts_AnyNonce(r) ==
  r.type = "route" /\ r.event = awaiting /\ r.overlay \notin InvalidOverlays

Accepts(r) ==
  /\ r.type = "route"
  /\ r.event = awaiting
  /\ r.nonce \notin nonces
  /\ r.overlay \notin InvalidOverlays

RouteAccepted ==
  /\ pc = "route"
  /\ Receive
  /\ LET r == Head(replies) IN
       /\ Accepts(r)
       /\ operation' = operation + 1
       /\ nonces' = nonces \union {r.nonce}
       /\ final' = [op |-> awaiting.op, overlay |-> r.overlay, nonce |-> r.nonce]
  /\ phase' = "routed"
  /\ pc' = "routed"
  /\ awaiting' = NONE
  /\ UNCHANGED <<failed, sessVars, carrier, procVars>>

RouteRejected ==
  /\ pc = "route"
  /\ Break \/ (Receive /\ ~Accepts(Head(replies)))
  /\ failed' = TRUE
  /\ pc' = "fenced"
  /\ UNCHANGED <<operation, phase, final, nonces, awaiting, sessVars, carrier, procVars>>

(* route: the best-effort Unavailable notice of a rejected route. *)
NotifyUnavailable ==
  /\ pc = "fenced"
  /\ Send(Event("unavailable", awaiting.op))
  /\ pc' = "unavailable"
  /\ UNCHANGED <<obsVars, sessVars, carrier, procVars>>

UnavailableAnswered ==
  /\ pc = "unavailable"
  /\ ExchangeOk \/ ExchangeErr
  /\ Return
  /\ UNCHANGED <<obsVars, sessVars, carrier, procVars>>

(* begin, after the route: the overlay may not change the explicit tool    *)
(* selection, and the record of an observed operation must fit what the    *)
(* session may retain (`fits`).  A refusal leaves the operation pending.   *)
RecordOperation ==
  /\ pc = "routed"
  /\ \E fits \in BOOLEAN :
       IF (Explicit /\ final.overlay \in SelectionOverlays) \/ (current # 0 /\ ~fits)
       THEN Return /\ UNCHANGED operations
       ELSE /\ pc' = "prepare"
            /\ operations' = IF current = 0 THEN operations
                             ELSE Append(operations, Record(ordinal))
            /\ UNCHANGED awaiting
  /\ UNCHANGED <<chanVars, obsVars, ordinal, current, carrier, procVars>>

-----------------------------------------------------------------------------
(* CargoLaunchSession::launch_started, Observer::prepare and the spawn *)

(* prepare: seal a carrier of the final intent and present it.  `sealed` is *)
(* FALSE when the memfd cannot be made, written or sealed.                  *)
Prepare ==
  /\ pc = "prepare"
  /\ \/ /\ ~failed
        /\ phase = "routed"
        /\ carrier' = carrier \union {final.op}
        /\ Send(IntentEvent(final))
        /\ pc' = "intent"
        /\ UNCHANGED failed
     \/ /\ failed' = TRUE
        /\ Return
        /\ UNCHANGED <<chanVars, carrier>>
  /\ UNCHANGED <<operation, phase, final, nonces, sessVars, procVars>>

(* Mutant: no answer within the deadline passes for an acknowledgement. *)
IntentAcknowledged_TimedOut ==
  /\ pc = "intent"
  /\ ExchangeOk \/ Break
  /\ phase' = "prepared"
  /\ pc' = "spawn"
  /\ awaiting' = NONE
  /\ UNCHANGED <<failed, operation, final, nonces, sessVars, carrier, procVars>>

(* Mutant: the spawn does not wait for the answer. *)
IntentAcknowledged_Early ==
  /\ pc = "intent"
  /\ phase' = "prepared"
  /\ pc' = "spawn"
  /\ awaiting' = NONE
  /\ UNCHANGED <<chanVars, failed, operation, final, nonces, sessVars, carrier, procVars>>

IntentAcknowledged ==
  /\ pc = "intent"
  /\ ExchangeOk
  /\ phase' = "prepared"
  /\ pc' = "spawn"
  /\ awaiting' = NONE
  /\ UNCHANGED <<failed, operation, final, nonces, sessVars, carrier, procVars>>

(* The carrier closes with prepare_inner; the record stays open. *)
IntentRefused ==
  /\ pc = "intent"
  /\ ExchangeErr
  /\ failed' = TRUE
  /\ carrier' = carrier \ {final.op}
  /\ Return
  /\ UNCHANGED <<operation, phase, final, nonces, sessVars, procVars>>

SpawnChild ==
  /\ pc = "spawn"
  /\ phase = "prepared"
  /\ process' = [process EXCEPT ![final.op] = "running"]
  /\ phase' = "spawned"
  /\ Send(Event("spawned", final.op))
  /\ pc' = "spawned"
  /\ UNCHANGED <<failed, operation, final, nonces, sessVars, carrier, killed>>

SpawnFails ==
  /\ pc = "spawn"
  /\ phase = "prepared"
  /\ phase' = "none"
  /\ final' = NONE
  /\ Send(Event("spawn_failed", final.op))
  /\ pc' = "spawn_failed"
  /\ UNCHANGED <<failed, operation, nonces, sessVars, carrier, procVars>>

(* Mutant: the start of the child is not recorded. *)
Mark_NotStarted(started, outcome) ==
  operations' = IF current = 0 THEN operations
                ELSE [operations EXCEPT ![current] = [@ EXCEPT !.outcome = outcome]]

(* spawned and complete of the session, on the current record if any. *)
Mark(started, outcome) ==
  operations' = IF current = 0 THEN operations
                ELSE [operations EXCEPT ![current] =
                       [@ EXCEPT !.started = started, !.outcome = outcome]]

SpawnFailedAnswered ==
  /\ pc = "spawn_failed"
  /\ Notified
  /\ carrier' = carrier \ {awaiting.op}
  /\ Mark(FALSE, "no_status")
  /\ Return
  /\ UNCHANGED <<operation, phase, final, nonces, ordinal, current, procVars>>

SpawnedAcknowledged ==
  /\ pc = "spawned"
  /\ ExchangeOk
  /\ Mark(TRUE, "open")
  /\ pc' = "owned"
  /\ awaiting' = NONE
  /\ UNCHANGED <<obsVars, ordinal, current, carrier, procVars>>

(* Mutant: the error is returned and the child left alone. *)
SpawnedRefused_Abandon ==
  /\ pc = "spawned"
  /\ ExchangeErr
  /\ failed' = TRUE
  /\ Mark(TRUE, "open")
  /\ Return
  /\ UNCHANGED <<operation, phase, final, nonces, ordinal, current, carrier, procVars>>

(* Mutant: the child is waited for without being killed. *)
SpawnedRefused_NoKill ==
  /\ pc = "spawned"
  /\ ExchangeErr
  /\ failed' = TRUE
  /\ Mark(TRUE, "open")
  /\ pc' = "cancel"
  /\ awaiting' = NONE
  /\ UNCHANGED <<operation, phase, final, nonces, ordinal, current, carrier, procVars>>

(* A child exists: the same owner cancels it before reporting the error. *)
SpawnedRefused ==
  /\ pc = "spawned"
  /\ ExchangeErr
  /\ failed' = TRUE
  /\ Mark(TRUE, "open")
  /\ killed' = killed \union {final.op}
  /\ pc' = "cancel"
  /\ awaiting' = NONE
  /\ UNCHANGED <<operation, phase, final, nonces, ordinal, current, carrier, process>>

-----------------------------------------------------------------------------
(* CargoChild *)

(* Mutant: the carrier is closed with the wait, before the terminal answer. *)
Reap_DropCarrier(event, next) ==
  /\ process[final.op] = "exited"
  /\ process' = [process EXCEPT ![final.op] = "reaped"]
  /\ Mark(TRUE, "exit")
  /\ Send(Event(event, final.op))
  /\ pc' = next
  /\ carrier' = carrier \ {final.op}
  /\ UNCHANGED <<obsVars, ordinal, current, killed>>

(* wait blocks until the child has exited and reaps it. *)
Reap(event, next) ==
  /\ process[final.op] = "exited"
  /\ process' = [process EXCEPT ![final.op] = "reaped"]
  /\ Mark(TRUE, "exit")
  /\ Send(Event(event, final.op))
  /\ pc' = next
  /\ UNCHANGED <<obsVars, ordinal, current, carrier, killed>>

Wait == pc = "owned" /\ phase = "spawned" /\ Reap("completed", "completed")

(* output: more than the retained bound; the child is killed, both pipes   *)
(* are drained, and the caller still waits.                                *)
OutputOverflow ==
  /\ pc = "owned"
  /\ killed' = killed \union {final.op}
  /\ UNCHANGED <<chanVars, obsVars, pc, awaiting, sessVars, carrier, process>>

(* Mutant: the guard is dropped without a kill. *)
CancelOwned_NoKill ==
  /\ pc = "owned"
  /\ pc' = "cancel"
  /\ UNCHANGED <<chanVars, obsVars, awaiting, sessVars, carrier, procVars>>

(* cancel_owned: a failing wait, a failing pipe, or a dropped guard. *)
CancelOwned ==
  /\ pc = "owned"
  /\ killed' = killed \union {final.op}
  /\ pc' = "cancel"
  /\ UNCHANGED <<chanVars, obsVars, awaiting, sessVars, carrier, process>>

(* Mutant: the cancellation is reported when the kill was sent. *)
RetainedWait_Unwaited ==
  /\ pc = "cancel"
  /\ phase = "spawned"
  /\ Send(Event("cancelled", final.op))
  /\ pc' = "cancelled"
  /\ UNCHANGED <<obsVars, sessVars, carrier, procVars>>

RetainedWait == pc = "cancel" /\ phase = "spawned" /\ Reap("cancelled", "cancelled")

CompletedAnswered ==
  /\ pc = "completed"
  /\ Notified
  /\ carrier' = carrier \ {awaiting.op}
  /\ phase' = "none"
  /\ final' = NONE
  /\ Return
  /\ UNCHANGED <<operation, nonces, sessVars, procVars>>

CancelledAnswered ==
  /\ pc = "cancelled"
  /\ ExchangeOk \/ ExchangeErr
  /\ failed' = TRUE
  /\ carrier' = carrier \ {awaiting.op}
  /\ phase' = "none"
  /\ final' = NONE
  /\ Return
  /\ UNCHANGED <<operation, nonces, sessVars, procVars>>

-----------------------------------------------------------------------------
(* The environment: Cargo, and the supervisor at the other end *)

ChildExits(n) ==
  /\ process[n] = "running"
  /\ process' = [process EXCEPT ![n] = "exited"]
  /\ UNCHANGED <<chanVars, obsVars, pc, awaiting, sessVars, carrier, killed>>

(* The supervisor answers any event it was sent, late, twice or wrongly.   *)
SupervisorReplies ==
  /\ Len(replies) < MaxInFlight
  /\ \E i \in 1..Len(sent) :
       \/ /\ replies' = Append(replies, Acknowledged(sent[i]))
          /\ acked' = acked \union {sent[i]}
       \/ /\ replies' = Append(replies, Refused)
          /\ UNCHANGED acked
       \/ /\ sent[i].type = "route"
          /\ \E o \in Overlays, n \in Nonces :
               replies' = Append(replies, Routing(sent[i], o, n))
          /\ UNCHANGED acked
  /\ UNCHANGED <<frames, broken, sent, obsVars, pc, awaiting, sessVars, carrier, procVars>>

(* The caller may be through with the session. *)
Finished == pc = "idle" /\ UNCHANGED vars

-----------------------------------------------------------------------------
Launching ==
  \/ RouteAccepted \/ RouteRejected \/ NotifyUnavailable \/ UnavailableAnswered
  \/ RecordOperation \/ Prepare \/ IntentAcknowledged \/ IntentRefused
  \/ SpawnChild \/ SpawnFails \/ SpawnFailedAnswered
  \/ SpawnedAcknowledged \/ SpawnedRefused

Owning == Wait \/ RetainedWait \/ CompletedAnswered \/ CancelledAnswered

Next ==
  \/ Begin \/ BeginReferenceCheck
  \/ Launching
  \/ Owning \/ OutputOverflow \/ CancelOwned
  \/ \E n \in Ordinals : ChildExits(n)
  \/ SupervisorReplies
  \/ Finished

(* A call in progress runs; every exchange ends by its deadline; a killed  *)
(* child exits.  Nothing makes Cargo exit by itself, a supervisor answer,  *)
(* or a caller make another call.                                          *)
Fairness ==
  /\ WF_vars(Launching)
  /\ WF_vars(Owning)
  /\ \A n \in Ordinals : WF_vars(n \in killed /\ ChildExits(n))

Spec == Init /\ [][Next]_vars /\ Fairness

-----------------------------------------------------------------------------
ChannelTypeOK ==
  /\ frames \in Nat
  /\ sent \in Seq(Events) /\ replies \in Seq(Replies) /\ acked \subseteq Events
  /\ awaiting \in Events \union {NONE}

ObserverTypeOK ==
  /\ operation \in 0..MAX_OPERATIONS
  /\ phase \in {"none", "routed", "prepared", "spawned"}
  /\ final \in FinalIntents \union {NONE} /\ nonces \subseteq Nonces

SessionTypeOK ==
  /\ ordinal \in 0..MaxOrdinal
  /\ operations \in Seq(OperationRecords)
  /\ current \in 0..MAX_CARGO_OPERATIONS

FlagsTypeOK == broken \in BOOLEAN /\ failed \in BOOLEAN

TypeOK ==
  /\ FlagsTypeOK
  /\ ChannelTypeOK
  /\ ObserverTypeOK
  /\ SessionTypeOK
  /\ pc \in {"idle", "route", "fenced", "unavailable", "routed", "prepare", "intent",
             "spawn", "spawn_failed", "spawned", "owned", "completed", "cancel",
             "cancelled"}
  /\ carrier \subseteq Ordinals
  /\ process \in [Ordinals -> {"none", "running", "exited", "reaped"}]
  /\ killed \subseteq Ordinals

Live(n) == process[n] \in {"running", "exited"}

(* docs: the acknowledgement of the final intent "must arrive before      *)
(* spawn".  Every child that ever existed had its own final intent         *)
(* acknowledged, whatever stale or duplicate replies were in the stream.   *)
AckBeforeSpawn ==
  \A n \in Ordinals : process[n] # "none" =>
    \E e \in acked : e.type = "intent" /\ e.op = n

(* A failed observation, and a broken channel, "fences subsequent          *)
(* operations": no step starts a child after either.                       *)
FenceHolds ==
  [][failed \/ broken => \A n \in Ordinals : process[n] = "none" => process'[n] = "none"]_vars

(* No call returns to a caller without its guard while a child of this     *)
(* session is unreaped, and no two children overlap.                       *)
NoOrphan ==
  /\ pc \notin {"spawned", "owned", "cancel"} => \A n \in Ordinals : ~Live(n)
  /\ \A m, n \in Ordinals : Live(m) /\ Live(n) => m = n

(* "The carrier stays live through actual spawn failure or actual wait and *)
(* owning terminal ACK/error disposal", and it does not outlive them.      *)
CarrierCustody ==
  /\ \A n \in Ordinals : Live(n) => n \in carrier
  /\ pc \in {"spawn_failed", "completed", "cancelled"} => awaiting.op \in carrier
  /\ pc = "idle" => carrier = {}

(* What the supervisor may see after an event of type e.type.              *)
Follows(e, f) ==
  \/ e.type = "route"   /\ f.type = "intent" /\ f.op = e.op
  \/ e.type = "route"   /\ f.type = "unavailable" /\ f.op >= e.op
  \/ e.type = "intent"  /\ f.type \in {"spawned", "spawn_failed"} /\ f.op = e.op
  \/ e.type = "spawned" /\ f.type \in {"completed", "cancelled"} /\ f.op = e.op
  \/ e.type \in {"spawn_failed", "completed"} /\ f.type = "route" /\ f.op = e.op + 1
  \/ e.type \notin {"route", "spawned"} /\ f.type = "unavailable" /\ f.op > e.op

(* The supervisor sees one operation at a time, each of its events once    *)
(* and in protocol order, consecutive ordinals, and nothing but            *)
(* Unavailable after a cancelled or unavailable operation.                 *)
LegalHistory ==
  /\ sent # <<>> => sent[1].type \in {"route", "unavailable"}
  /\ \A i \in 1..(Len(sent) - 1) : Follows(sent[i], sent[i + 1])

(* A terminal event is a report of what happened: it is sent only once the *)
(* child was actually waited for.                                          *)
TerminalAfterWait ==
  \A i \in 1..Len(sent) :
    sent[i].type \in {"completed", "cancelled"} => process[sent[i].op] = "reaped"

(* Between calls, the retained record of an operation agrees with what     *)
(* happened to its child.                                                  *)
RecordsAgree ==
  pc = "idle" => \A k \in 1..Len(operations) :
    LET r == operations[k] IN
      /\ r.started <=> process[r.ordinal] = "reaped"
      /\ r.outcome = "exit" <=> process[r.ordinal] = "reaped"

(* "A distinct consistency nonce per operation": no two carriers presented *)
(* to the supervisor share one.                                            *)
DistinctNonces ==
  \A i, j \in 1..Len(sent) :
    /\ sent[i].type = "intent" /\ sent[j].type = "intent"
    /\ sent[i].intent.nonce = sent[j].intent.nonce
    => sent[i] = sent[j]

(* The frame bound is never what stops a session: while an operation that  *)
(* was accepted is under way, the send and the receive of its next         *)
(* exchange still fit, up to the last operation a binding allows.          *)
FramesSuffice ==
  /\ pc \in {"routed", "prepare", "spawn", "owned", "cancel"} => frames + 2 <= MAX_FRAMES
  /\ pc \in {"route", "intent", "spawned", "spawn_failed", "completed", "cancelled"} =>
       frames + 1 <= MAX_FRAMES

(* After an observer failure the child of the operation under way is       *)
(* killed, waited for and gone, whether or not the supervisor answers.     *)
FailureReapsChild ==
  \A n \in Ordinals : (failed /\ Live(n)) ~> process[n] = "reaped"

(* Every call returns, with or without a guard.                            *)
CallsReturn == pc \notin {"idle", "owned"} ~> pc \in {"idle", "owned"}

(* The channel implements its promise.                                     *)
Custody == INSTANCE LaunchCustody WITH
  approved <- {e.op : e \in {a \in acked : a.type = "intent"}},
  child    <- process,
  fenced   <- failed

ImplementsCustody == Custody!Spec
=============================================================================
