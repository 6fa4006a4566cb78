------------------------ MODULE LaunchObserver_proofs ------------------------
(***************************************************************************)
(* Proofs about LaunchObserver, for every value of its constants.          *)
(***************************************************************************)
EXTENDS LaunchObserver, SequenceTheorems, TLAPS

(* The stack and what it holds: the phase of the pending operation, its    *)
(* final intent, and the event an exchange waits for.                      *)
StackInv ==
  /\ pc \in {"routed", "prepare", "intent"} => phase = "routed"
  /\ pc = "spawn" => phase = "prepared"
  /\ pc \in {"spawned", "owned", "completed", "cancel", "cancelled"} => phase = "spawned"
  /\ pc \in {"route", "fenced", "spawn_failed"} => phase = "none"
  /\ pc \in {"idle", "unavailable"} => phase \in {"none", "routed"}
  /\ phase # "none" => final \in FinalIntents /\ final.op = operation
  /\ pc \in {"route", "fenced", "unavailable", "intent", "spawn_failed", "spawned",
             "completed", "cancelled"} => awaiting \in Events
  /\ pc = "route" => awaiting = Event("route", operation + 1) /\ operation < MAX_OPERATIONS
  /\ pc = "intent" => awaiting = IntentEvent(final)
  /\ pc \in {"route", "routed"} => ordinal \in Ordinals

-----------------------------------------------------------------------------
(* The channel *)

LEMMA EventsTyped ==
  /\ \A t \in EventTypes, n \in Ordinals : Event(t, n) \in Events
  /\ \A i \in FinalIntents : IntentEvent(i) \in Events
BY DEF Event, IntentEvent, Events, EventTypes, FinalIntents

LEMMA RepliesTyped ==
  ASSUME NEW e \in Events, NEW o \in Overlays, NEW n \in Nonces
  PROVE  Acknowledged(e) \in Replies /\ Refused \in Replies /\ Routing(e, o, n) \in Replies
BY DEF Acknowledged, Refused, Routing, Replies

(* A send either charges one frame or breaks the channel. *)
LEMMA SendEffect ==
  ASSUME ChannelTypeOK, NEW e \in Events, Send(e)
  PROVE  /\ ChannelTypeOK'
         /\ frames' <= frames + 1
         /\ replies' = replies /\ acked' = acked /\ awaiting' = e
<1>1. frames \in Nat /\ sent \in Seq(Events)  BY DEF ChannelTypeOK
<1>2. replies' = replies /\ acked' = acked /\ awaiting' = e  BY DEF Send
<1>3. Append(sent, e) \in Seq(Events)  BY <1>1, AppendProperties
<1>4. \/ frames' = frames + 1 /\ sent' = Append(sent, e)
      \/ frames' = frames /\ sent' = sent
  BY DEF Send
<1>5. frames' \in Nat /\ frames' <= frames + 1 /\ sent' \in Seq(Events)
  BY <1>1, <1>3, <1>4
<1>6. replies' \in Seq(Replies) /\ acked' \subseteq Events /\ awaiting' \in Events
  BY <1>2 DEF ChannelTypeOK
<1>7. ChannelTypeOK'  BY <1>5, <1>6 DEF ChannelTypeOK
<1> QED BY <1>2, <1>5, <1>7

(* A receive charges one frame and takes the oldest reply. *)
LEMMA ReceiveEffect ==
  ASSUME ChannelTypeOK, Receive, awaiting' \in Events \union {NONE}
  PROVE  /\ ChannelTypeOK'
         /\ frames' = frames + 1
         /\ acked' = acked /\ sent' = sent
         /\ 1 \in 1..Len(replies) /\ Head(replies) = replies[1] /\ Head(replies) \in Replies
         /\ \A i \in 1..Len(replies') : i + 1 \in 1..Len(replies) /\ replies'[i] = replies[i + 1]
BY HeadTailProperties DEF Receive, ChannelTypeOK

LEMMA BreakEffect ==
  ASSUME ChannelTypeOK, Break, awaiting' \in Events \union {NONE}
  PROVE  /\ ChannelTypeOK'
         /\ frames' = frames
         /\ sent' = sent /\ replies' = replies /\ acked' = acked
BY DEF Break, ChannelTypeOK

(* An exchange that ends, either way, costs at most one frame more. *)
LEMMA ExchangeEffect ==
  ASSUME ChannelTypeOK, ExchangeOk \/ ExchangeErr, awaiting' \in Events \union {NONE}
  PROVE  /\ ChannelTypeOK'
         /\ frames' <= frames + 1
         /\ acked' = acked /\ sent' = sent
<1>1. frames \in Nat  BY DEF ChannelTypeOK
<1>2. CASE Receive  BY <1>1, <1>2, ReceiveEffect
<1>3. CASE Break  BY <1>1, <1>3, BreakEffect
<1> QED BY <1>2, <1>3 DEF ExchangeOk, ExchangeErr

LEMMA MarkTyped ==
  ASSUME SessionTypeOK, NEW s \in BOOLEAN, NEW o \in {"open", "no_status", "exit"}, Mark(s, o)
  PROVE  operations' \in Seq(OperationRecords)
<1>1. operations \in Seq(OperationRecords) BY DEF SessionTypeOK
<1>2. CASE current \in 1..Len(operations)
  <2>1. operations[current] \in OperationRecords BY <1>1, <1>2
  <2>2. [operations[current] EXCEPT !.started = s, !.outcome = o] \in OperationRecords
    BY <2>1 DEF OperationRecords
  <2>3. current # 0 BY <1>2
  <2>4. operations' = [operations EXCEPT ![current] =
                        [operations[current] EXCEPT !.started = s, !.outcome = o]]
    BY <2>3 DEF Mark
  <2> QED BY <1>1, <1>2, <2>2, <2>4, ExceptSeq
<1>3. CASE current \notin 1..Len(operations)
  <2>1. current \notin DOMAIN operations BY <1>1, <1>3
  <2>2. operations' = operations
    BY <1>1, <2>1 DEF Mark
  <2> QED BY <1>1, <2>2
<1> QED BY <1>2, <1>3

-----------------------------------------------------------------------------
(* Types *)

LEMMA TypeInit == Init => TypeOK /\ StackInv
<1> SUFFICES ASSUME Init PROVE TypeOK /\ StackInv  OBVIOUS
<1>1. ChannelTypeOK
  <2>1. awaiting \in Events \union {NONE} /\ frames \in Nat  BY DEF Init
  <2>2. acked \subseteq Events  BY DEF Init
  <2>3. sent \in Seq(Events) /\ replies \in Seq(Replies)  BY DEF Init
  <2> QED BY <2>1, <2>2, <2>3 DEF ChannelTypeOK
<1>2. ObserverTypeOK
  <2>1. final \in FinalIntents \union {NONE}  BY DEF Init
  <2>2. nonces \subseteq Nonces  BY DEF Init
  <2>3. operation \in 0..MAX_OPERATIONS
    BY ConstantsAssumption DEF Init, ConstantsAssumption
  <2>4. phase \in {"none", "routed", "prepared", "spawned"}  BY DEF Init
  <2> QED BY <2>1, <2>2, <2>3, <2>4 DEF ObserverTypeOK
<1>3. SessionTypeOK
  BY ConstantsAssumption DEF Init, SessionTypeOK, ConstantsAssumption
<1>4. FlagsTypeOK  BY DEF Init, FlagsTypeOK
<1>5. TypeOK  BY <1>1, <1>2, <1>3, <1>4 DEF TypeOK, Init
<1>6. StackInv  BY DEF StackInv, Init
<1> QED BY <1>5, <1>6

(* A route is sent, or the observer is fenced and says so. *)
LEMMA RouteTyped ==
  ASSUME TypeOK, NEW n \in Ordinals, Route(n)
  PROVE  /\ ChannelTypeOK'
         /\ frames' <= frames + 1 /\ replies' = replies /\ acked' = acked
         /\ \/ Correlated(n) /\ pc' = "route" /\ awaiting' = Event("route", n) /\ failed' = failed
            \/ failed' = TRUE /\ pc' = "unavailable" /\ awaiting' = Event("unavailable", n)
<1>1. Event("route", n) \in Events /\ Event("unavailable", n) \in Events
  BY EventsTyped DEF EventTypes
<1>2. CASE Correlated(n) /\ Send(Event("route", n)) /\ pc' = "route" /\ failed' = failed
  BY <1>1, <1>2, SendEffect DEF TypeOK
<1>3. CASE failed' = TRUE /\ Send(Event("unavailable", n)) /\ pc' = "unavailable"
  BY <1>1, <1>3, SendEffect DEF TypeOK
<1> QED BY <1>2, <1>3 DEF Route

(* No action gives a flag any value but TRUE, unless it keeps it. *)
LEMMA FlagsStep ==
  ASSUME FlagsTypeOK, [Next]_vars
  PROVE  /\ FlagsTypeOK'
         /\ failed => failed'
         /\ broken => broken'
<1> USE DEF vars, chanVars, obsVars, sessVars, procVars, Route, Send, Receive, Break,
            ExchangeOk, ExchangeErr, Notified, Reap
<1>1. CASE Begin \/ BeginReferenceCheck
  BY <1>1 DEF Begin, BeginReferenceCheck, FlagsTypeOK
<1>2. CASE Launching
  BY <1>2 DEF Launching, FlagsTypeOK, RouteAccepted, RouteRejected, NotifyUnavailable,
     UnavailableAnswered, RecordOperation, Prepare, IntentAcknowledged, IntentRefused,
     SpawnChild, SpawnFails, SpawnFailedAnswered, SpawnedAcknowledged, SpawnedRefused
<1>3. CASE Owning \/ OutputOverflow \/ CancelOwned
  BY <1>3 DEF Owning, OutputOverflow, CancelOwned, Wait, RetainedWait, CompletedAnswered,
     CancelledAnswered, FlagsTypeOK
<1>4. CASE (\E n \in Ordinals : ChildExits(n)) \/ SupervisorReplies \/ Finished \/ UNCHANGED vars
  BY <1>4 DEF ChildExits, SupervisorReplies, Finished, FlagsTypeOK
<1> QED BY <1>1, <1>2, <1>3, <1>4 DEF Next

(* The facts about what the session owns that a step of it needs. *)
LEMMA StackFacts ==
  ASSUME TypeOK, StackInv
  PROVE  /\ phase # "none" => final \in FinalIntents /\ final.op \in Ordinals
         /\ phase # "none" => IntentEvent(final) \in Events
         /\ \A t \in EventTypes : phase # "none" => Event(t, final.op) \in Events
         /\ pc \in {"fenced", "spawn_failed", "completed", "cancelled"} => awaiting.op \in Ordinals
BY EventsTyped DEF StackInv, FinalIntents, Events

LEMMA TypeStep ==
  ASSUME TypeOK, StackInv, [Next]_vars
  PROVE  TypeOK'
<1> USE DEF chanVars, obsVars, sessVars, procVars
<1>f. FlagsTypeOK'  BY FlagsStep DEF TypeOK
<1>1. CASE Begin
  <2>1. ordinal + 1 \in Ordinals
    BY <1>1, ConstantsAssumption DEF Begin, TypeOK, SessionTypeOK, Ordinals, ConstantsAssumption
  <2>2. ordinal' \in 0..MaxOrdinal  BY <1>1, <2>1 DEF Begin, Ordinals
  <2>3. CASE Len(operations) >= MAX_CARGO_OPERATIONS
    BY <1>1, <1>f, <2>2, <2>3 DEF Begin, TypeOK, ChannelTypeOK, ObserverTypeOK, SessionTypeOK
  <2>4. CASE ~(Len(operations) >= MAX_CARGO_OPERATIONS)
    <3>1. Route(ordinal + 1) /\ current' = Len(operations) + 1  BY <1>1, <2>4 DEF Begin
    <3>2. current' \in 0..MAX_CARGO_OPERATIONS
      BY <2>4, <3>1, ConstantsAssumption DEF TypeOK, SessionTypeOK, ConstantsAssumption
    <3>3. ChannelTypeOK' /\ pc' \in {"route", "unavailable"}
      BY <2>1, <3>1, RouteTyped
    <3> QED BY <1>1, <1>f, <2>2, <3>2, <3>3 DEF Begin, TypeOK, ObserverTypeOK, SessionTypeOK
  <2> QED BY <2>3, <2>4
<1>2. CASE BeginReferenceCheck
  <2>1. ordinal + 1 \in Ordinals
    BY <1>2, ConstantsAssumption
       DEF BeginReferenceCheck, TypeOK, SessionTypeOK, Ordinals, ConstantsAssumption
  <2>2. ordinal' \in 0..MaxOrdinal /\ current' \in 0..MAX_CARGO_OPERATIONS
    BY <1>2, <2>1, ConstantsAssumption DEF BeginReferenceCheck, Ordinals, ConstantsAssumption
  <2>3. ChannelTypeOK' /\ pc' \in {"route", "unavailable"}
    BY <1>2, <2>1, RouteTyped DEF BeginReferenceCheck
  <2> QED BY <1>2, <1>f, <2>2, <2>3 DEF BeginReferenceCheck, TypeOK, ObserverTypeOK, SessionTypeOK
<1>3. CASE RouteAccepted
  <2>1. ChannelTypeOK' /\ Head(replies) \in Replies
    BY <1>3, ReceiveEffect DEF RouteAccepted, TypeOK
  <2>2. Head(replies).overlay \in Overlays /\ Head(replies).nonce \in Nonces
    BY <1>3, <2>1 DEF RouteAccepted, Accepts, Replies
  <2>3. awaiting = Event("route", operation + 1) /\ operation < MAX_OPERATIONS /\ awaiting \in Events
    BY <1>3 DEF RouteAccepted, StackInv
  <2>4. awaiting.op \in Ordinals  BY <2>3 DEF Events
  <2>5. final' \in FinalIntents
    BY <1>3, <2>2, <2>4 DEF RouteAccepted, FinalIntents
  <2>6. operation' \in 0..MAX_OPERATIONS
    BY <1>3, <2>3, ConstantsAssumption DEF RouteAccepted, TypeOK, ObserverTypeOK, ConstantsAssumption
  <2>7. nonces' \subseteq Nonces  BY <1>3, <2>2 DEF RouteAccepted, TypeOK, ObserverTypeOK
  <2>8. ObserverTypeOK'  BY <1>3, <2>5, <2>6, <2>7 DEF RouteAccepted, ObserverTypeOK
  <2> QED BY <1>3, <1>f, <2>1, <2>8 DEF RouteAccepted, TypeOK, SessionTypeOK
<1>4. CASE RouteRejected
  <2>1. ChannelTypeOK'
    BY <1>4, ReceiveEffect, BreakEffect DEF RouteRejected, TypeOK, ChannelTypeOK
  <2> QED BY <1>4, <1>f, <2>1 DEF RouteRejected, TypeOK, ObserverTypeOK, SessionTypeOK
<1>5. CASE NotifyUnavailable
  <2>1. Event("unavailable", awaiting.op) \in Events
    BY <1>5, StackFacts, EventsTyped DEF NotifyUnavailable, EventTypes
  <2>2. ChannelTypeOK'  BY <1>5, <2>1, SendEffect DEF NotifyUnavailable, TypeOK
  <2> QED BY <1>5, <1>f, <2>2 DEF NotifyUnavailable, TypeOK, ObserverTypeOK, SessionTypeOK
<1>6. CASE UnavailableAnswered
  <2>1. ChannelTypeOK'  BY <1>6, ExchangeEffect DEF UnavailableAnswered, Return, TypeOK
  <2> QED BY <1>6, <1>f, <2>1 DEF UnavailableAnswered, Return, TypeOK, ObserverTypeOK, SessionTypeOK
<1>7. CASE RecordOperation
  <2>1. current # 0 => Record(ordinal) \in OperationRecords
    BY <1>7 DEF RecordOperation, StackInv, Record, OperationRecords
  <2>2. operations' \in Seq(OperationRecords)
    BY <1>7, <2>1, AppendProperties DEF RecordOperation, TypeOK, SessionTypeOK
  <2>3. ChannelTypeOK' /\ pc' \in {"idle", "prepare"}
    BY <1>7 DEF RecordOperation, Return, TypeOK, ChannelTypeOK
  <2> QED BY <1>7, <1>f, <2>2, <2>3 DEF RecordOperation, TypeOK, ObserverTypeOK, SessionTypeOK
<1>8. CASE Prepare
  <2>1. final \in FinalIntents /\ final.op \in Ordinals /\ IntentEvent(final) \in Events
    BY <1>8, StackFacts DEF Prepare, StackInv
  <2>2. ChannelTypeOK'
    BY <1>8, <2>1, SendEffect DEF Prepare, Return, TypeOK, ChannelTypeOK
  <2>3. carrier' \subseteq Ordinals /\ pc' \in {"intent", "idle"}
    BY <1>8, <2>1 DEF Prepare, Return, TypeOK
  <2> QED BY <1>8, <1>f, <2>2, <2>3 DEF Prepare, TypeOK, ObserverTypeOK, SessionTypeOK
<1>9. CASE IntentAcknowledged
  <2>1. ChannelTypeOK'  BY <1>9, ExchangeEffect DEF IntentAcknowledged, TypeOK
  <2> QED BY <1>9, <1>f, <2>1 DEF IntentAcknowledged, TypeOK, ObserverTypeOK, SessionTypeOK
<1>10. CASE IntentRefused
  <2>1. ChannelTypeOK'  BY <1>10, ExchangeEffect DEF IntentRefused, Return, TypeOK
  <2> QED BY <1>10, <1>f, <2>1 DEF IntentRefused, Return, TypeOK, ObserverTypeOK, SessionTypeOK
<1>11. CASE SpawnChild
  <2>1. final.op \in Ordinals /\ Event("spawned", final.op) \in Events
    BY <1>11, StackFacts DEF SpawnChild, EventTypes
  <2>2. ChannelTypeOK'  BY <1>11, <2>1, SendEffect DEF SpawnChild, TypeOK
  <2>3. process' \in [Ordinals -> {"none", "running", "exited", "reaped"}]
    BY <1>11, <2>1 DEF SpawnChild, TypeOK
  <2> QED BY <1>11, <1>f, <2>2, <2>3 DEF SpawnChild, TypeOK, ObserverTypeOK, SessionTypeOK
<1>12. CASE SpawnFails
  <2>1. Event("spawn_failed", final.op) \in Events
    BY <1>12, StackFacts DEF SpawnFails, EventTypes
  <2>2. ChannelTypeOK'  BY <1>12, <2>1, SendEffect DEF SpawnFails, TypeOK
  <2> QED BY <1>12, <1>f, <2>2 DEF SpawnFails, TypeOK, ObserverTypeOK, SessionTypeOK
<1>13. CASE SpawnFailedAnswered
  <2>1. ChannelTypeOK'  BY <1>13, ExchangeEffect DEF SpawnFailedAnswered, Notified, Return, TypeOK
  <2>2. SessionTypeOK'  BY <1>13, MarkTyped DEF SpawnFailedAnswered, SessionTypeOK, TypeOK
  <2> QED BY <1>13, <1>f, <2>1, <2>2 DEF SpawnFailedAnswered, Return, TypeOK, ObserverTypeOK
<1>14. CASE SpawnedAcknowledged
  <2>1. ChannelTypeOK'  BY <1>14, ExchangeEffect DEF SpawnedAcknowledged, TypeOK
  <2>2. SessionTypeOK'  BY <1>14, MarkTyped DEF SpawnedAcknowledged, SessionTypeOK, TypeOK
  <2> QED BY <1>14, <1>f, <2>1, <2>2 DEF SpawnedAcknowledged, TypeOK, ObserverTypeOK
<1>15. CASE SpawnedRefused
  <2>1. ChannelTypeOK'  BY <1>15, ExchangeEffect DEF SpawnedRefused, TypeOK
  <2>2. SessionTypeOK'  BY <1>15, MarkTyped DEF SpawnedRefused, SessionTypeOK, TypeOK
  <2>3. final.op \in Ordinals  BY <1>15, StackFacts DEF SpawnedRefused, StackInv
  <2> QED BY <1>15, <1>f, <2>1, <2>2, <2>3 DEF SpawnedRefused, TypeOK, ObserverTypeOK
<1>16. ASSUME NEW e \in {"completed", "cancelled"}, Reap(e, e), phase = "spawned"
       PROVE  TypeOK'
  <2>1. final.op \in Ordinals /\ Event(e, final.op) \in Events
    BY <1>16, StackFacts DEF EventTypes
  <2>2. ChannelTypeOK'  BY <1>16, <2>1, SendEffect DEF Reap, TypeOK
  <2>3. process' \in [Ordinals -> {"none", "running", "exited", "reaped"}]
    BY <1>16, <2>1 DEF Reap, TypeOK
  <2>4. SessionTypeOK'  BY <1>16, MarkTyped DEF Reap, SessionTypeOK, TypeOK
  <2> QED BY <1>16, <1>f, <2>2, <2>3, <2>4 DEF Reap, TypeOK, ObserverTypeOK
<1>17. CASE Wait  BY <1>16, <1>17 DEF Wait
<1>18. CASE RetainedWait  BY <1>16, <1>18 DEF RetainedWait
<1>19. CASE CompletedAnswered
  <2>1. ChannelTypeOK'  BY <1>19, ExchangeEffect DEF CompletedAnswered, Notified, Return, TypeOK
  <2> QED BY <1>19, <1>f, <2>1 DEF CompletedAnswered, Return, TypeOK, ObserverTypeOK, SessionTypeOK
<1>20. CASE CancelledAnswered
  <2>1. ChannelTypeOK'  BY <1>20, ExchangeEffect DEF CancelledAnswered, Return, TypeOK
  <2> QED BY <1>20, <1>f, <2>1 DEF CancelledAnswered, Return, TypeOK, ObserverTypeOK, SessionTypeOK
<1>21. CASE OutputOverflow \/ CancelOwned
  <2>1. final.op \in Ordinals  BY <1>21, StackFacts DEF OutputOverflow, CancelOwned, StackInv
  <2> QED BY <1>21, <1>f, <2>1
          DEF OutputOverflow, CancelOwned, TypeOK, ChannelTypeOK, ObserverTypeOK, SessionTypeOK
<1>22. CASE \E n \in Ordinals : ChildExits(n)
  BY <1>22, <1>f DEF ChildExits, TypeOK, ChannelTypeOK, ObserverTypeOK, SessionTypeOK
<1>23. CASE SupervisorReplies
  <2>1. PICK i \in 1..Len(sent) :
          /\ acked' \in {acked, acked \union {sent[i]}}
          /\ \/ replies' = Append(replies, Acknowledged(sent[i]))
             \/ replies' = Append(replies, Refused)
             \/ \E o \in Overlays, n \in Nonces : replies' = Append(replies, Routing(sent[i], o, n))
    BY <1>23 DEF SupervisorReplies
  <2>2. sent[i] \in Events  BY DEF TypeOK, ChannelTypeOK
  <2>r. PICK r \in Replies : replies' = Append(replies, r)
    <3>1. Acknowledged(sent[i]) \in Replies /\ Refused \in Replies
      BY <2>2 DEF Acknowledged, Refused, Replies
    <3>2. \A o \in Overlays, n \in Nonces : Routing(sent[i], o, n) \in Replies
      BY <2>2, RepliesTyped
    <3> QED BY <2>1, <3>1, <3>2
  <2>3. replies' \in Seq(Replies)
    BY <2>r, AppendProperties DEF TypeOK, ChannelTypeOK
  <2>4. acked' \subseteq Events  BY <2>1, <2>2 DEF TypeOK, ChannelTypeOK
  <2>5. ChannelTypeOK'  BY <1>23, <2>3, <2>4 DEF SupervisorReplies, TypeOK, ChannelTypeOK
  <2> QED BY <1>23, <1>f, <2>5 DEF SupervisorReplies, TypeOK, ObserverTypeOK, SessionTypeOK
<1>24. CASE UNCHANGED vars
  BY <1>24, <1>f DEF vars, TypeOK, ChannelTypeOK, ObserverTypeOK, SessionTypeOK
<1> QED
  BY <1>1, <1>2, <1>3, <1>4, <1>5, <1>6, <1>7, <1>8, <1>9, <1>10, <1>11, <1>12, <1>13, <1>14,
     <1>15, <1>17, <1>18, <1>19, <1>20, <1>21, <1>22, <1>23, <1>24
     DEF Next, Launching, Owning, Finished

LEMMA StackStep ==
  ASSUME TypeOK, StackInv, [Next]_vars
  PROVE  StackInv'
<1> USE DEF chanVars, obsVars, sessVars, procVars
<1>1. CASE Begin \/ BeginReferenceCheck
  <2>1. ordinal + 1 \in Ordinals
    BY <1>1, ConstantsAssumption
       DEF Begin, BeginReferenceCheck, TypeOK, SessionTypeOK, Ordinals, ConstantsAssumption
  <2>2. CASE Begin /\ Len(operations) >= MAX_CARGO_OPERATIONS
    BY <2>2 DEF Begin, StackInv
  <2>3. CASE Route(ordinal + 1)
    <3>1. phase' = phase /\ final' = final /\ operation' = operation  BY <1>1 DEF Begin, BeginReferenceCheck
    <3>2. \/ Correlated(ordinal + 1) /\ pc' = "route" /\ awaiting' = Event("route", ordinal + 1)
          \/ pc' = "unavailable" /\ awaiting' = Event("unavailable", ordinal + 1)
      BY <2>1, <2>3, RouteTyped
    <3>3. awaiting' \in Events  BY <2>1, <3>2, EventsTyped DEF EventTypes
    <3>4. pc = "idle"  BY <1>1 DEF Begin, BeginReferenceCheck
    <3>5. Correlated(ordinal + 1) =>
            phase = "none" /\ ordinal + 1 = operation + 1 /\ operation < MAX_OPERATIONS
      BY ConstantsAssumption DEF Correlated, TypeOK, ObserverTypeOK, SessionTypeOK, ConstantsAssumption
    <3>6. ordinal' \in Ordinals  BY <1>1, <2>1 DEF Begin, BeginReferenceCheck
    <3>7. \/ /\ pc' = "route" /\ phase = "none" /\ operation < MAX_OPERATIONS
             /\ awaiting' = Event("route", operation + 1)
          \/ pc' = "unavailable"
      BY <3>2, <3>5
    <3> QED BY <3>1, <3>3, <3>4, <3>6, <3>7 DEF StackInv
  <2> QED BY <1>1, <2>2, <2>3 DEF Begin, BeginReferenceCheck
<1>2. CASE RouteAccepted
  <2>1. Head(replies) \in Replies
    BY <1>2, ReceiveEffect DEF RouteAccepted, TypeOK
  <2>2. Head(replies).overlay \in Overlays /\ Head(replies).nonce \in Nonces
    BY <1>2, <2>1 DEF RouteAccepted, Accepts, Replies
  <2>3. awaiting = Event("route", operation + 1) /\ awaiting \in Events
    BY <1>2 DEF RouteAccepted, StackInv
  <2>4. awaiting.op \in Ordinals /\ awaiting.op = operation + 1  BY <2>3 DEF Events, Event
  <2>5. final' \in FinalIntents /\ final'.op = operation'
    BY <1>2, <2>2, <2>4 DEF RouteAccepted, FinalIntents
  <2>6. pc' = "routed" /\ phase' = "routed" /\ ordinal' \in Ordinals
    BY <1>2 DEF RouteAccepted, StackInv
  <2> QED BY <2>5, <2>6 DEF StackInv
<1>3. CASE RouteRejected  BY <1>3 DEF RouteRejected, StackInv
<1>4. CASE NotifyUnavailable
  <2>1. Event("unavailable", awaiting.op) \in Events
    BY <1>4, StackFacts, EventsTyped DEF NotifyUnavailable, EventTypes
  <2> QED BY <1>4, <2>1 DEF NotifyUnavailable, Send, StackInv
<1>5. CASE UnavailableAnswered  BY <1>5 DEF UnavailableAnswered, Return, StackInv
<1>6. CASE RecordOperation  BY <1>6 DEF RecordOperation, Return, StackInv
<1>7. CASE Prepare
  <2>1. IntentEvent(final) \in Events  BY <1>7, StackFacts DEF Prepare, StackInv
  <2> QED BY <1>7, <2>1 DEF Prepare, Send, Return, StackInv
<1>8. CASE IntentAcknowledged  BY <1>8 DEF IntentAcknowledged, StackInv
<1>9. CASE IntentRefused  BY <1>9 DEF IntentRefused, Return, StackInv
<1>10. CASE SpawnChild
  <2>1. Event("spawned", final.op) \in Events  BY <1>10, StackFacts DEF SpawnChild, EventTypes
  <2> QED BY <1>10, <2>1 DEF SpawnChild, Send, StackInv
<1>11. CASE SpawnFails
  <2>1. Event("spawn_failed", final.op) \in Events  BY <1>11, StackFacts DEF SpawnFails, EventTypes
  <2> QED BY <1>11, <2>1 DEF SpawnFails, Send, StackInv
<1>12. CASE SpawnFailedAnswered  BY <1>12 DEF SpawnFailedAnswered, Return, StackInv
<1>13. CASE SpawnedAcknowledged  BY <1>13 DEF SpawnedAcknowledged, StackInv
<1>14. CASE SpawnedRefused  BY <1>14 DEF SpawnedRefused, StackInv
<1>15. ASSUME NEW e \in {"completed", "cancelled"}, Reap(e, e), phase = "spawned"
       PROVE  StackInv'
  <2>1. Event(e, final.op) \in Events  BY <1>15, StackFacts DEF EventTypes
  <2> QED BY <1>15, <2>1 DEF Reap, Send, StackInv
<1>16. CASE Wait  BY <1>15, <1>16 DEF Wait
<1>17. CASE RetainedWait  BY <1>15, <1>17 DEF RetainedWait
<1>18. CASE CompletedAnswered  BY <1>18 DEF CompletedAnswered, Return, StackInv
<1>19. CASE CancelledAnswered  BY <1>19 DEF CancelledAnswered, Return, StackInv
<1>20. CASE OutputOverflow \/ CancelOwned  BY <1>20 DEF OutputOverflow, CancelOwned, StackInv
<1>21. CASE (\E n \in Ordinals : ChildExits(n)) \/ SupervisorReplies \/ UNCHANGED vars
  BY <1>21 DEF ChildExits, SupervisorReplies, vars, StackInv
<1> QED
  BY <1>1, <1>2, <1>3, <1>4, <1>5, <1>6, <1>7, <1>8, <1>9, <1>10, <1>11, <1>12, <1>13, <1>14,
     <1>16, <1>17, <1>18, <1>19, <1>20, <1>21
     DEF Next, Launching, Owning, Finished

(* TypeOK holds of every behavior, whatever the bounds and the supervisor. *)
THEOREM TypeCorrect == Spec => []TypeOK
<1>1. TypeOK /\ StackInv /\ [Next]_vars => (TypeOK /\ StackInv)'  BY TypeStep, StackStep
<1> QED BY <1>1, TypeInit, PTL DEF Spec

-----------------------------------------------------------------------------
(* Children, acknowledgements and the fence *)

(* Only the operation accepted last can have a live child, and only while  *)
(* the stack is in a place that owns it.                                   *)
ChildInv ==
  /\ \A n \in Ordinals : n > operation => process[n] = "none"
  /\ phase \in {"routed", "prepared"} => process[operation] = "none"
  /\ \A n \in Ordinals : Live(n) => pc \in {"spawned", "owned", "cancel"} /\ n = operation

(* What the stream says was acknowledged was acknowledged, and the spawn   *)
(* is reached only with the acknowledgement of the pending final intent.   *)
AckInv ==
  /\ \A i \in 1..Len(replies) :
       replies[i].type = "acknowledged" => replies[i].event \in acked
  /\ pc = "spawn" => IntentEvent(final) \in acked
  /\ AckBeforeSpawn

(* A failure leaves no way forward to the spawn. *)
FenceInv ==
  /\ pc \in {"route", "routed", "prepare", "intent", "spawn"} => ~failed
  /\ pc = "spawn" => ~broken
  /\ pc \in {"fenced", "unavailable"} => failed

(* Frames charged at each place of the stack: eight for each operation     *)
(* that is over, and for the one under way those of the exchanges so far.  *)
FrameInv ==
  /\ pc = "idle" /\ ~failed => frames <= 8 * operation
  /\ pc = "route" => frames <= 8 * operation + 1
  /\ pc \in {"routed", "prepare"} => frames + 6 <= 8 * operation
  /\ pc = "intent" => frames + 5 <= 8 * operation
  /\ pc = "spawn" => frames + 4 <= 8 * operation
  /\ pc \in {"spawned", "spawn_failed"} => frames + 3 <= 8 * operation
  /\ pc \in {"owned", "cancel"} => frames + 2 <= 8 * operation
  /\ pc \in {"completed", "cancelled"} => frames + 1 <= 8 * operation

IInv == TypeOK /\ StackInv /\ ChildInv /\ AckInv /\ FenceInv /\ FrameInv

LEMMA ChildStep ==
  ASSUME TypeOK, StackInv, ChildInv, [Next]_vars
  PROVE  ChildInv'
<1> USE DEF chanVars, obsVars, sessVars, procVars, Live
<1>0. operation \in Nat /\ Ordinals \subseteq Nat
  BY ConstantsAssumption DEF TypeOK, ObserverTypeOK, Ordinals, ConstantsAssumption
<1>1. CASE Begin \/ BeginReferenceCheck
  <2>1. process' = process /\ operation' = operation /\ phase' = phase /\ pc = "idle"
    BY <1>1 DEF Begin, BeginReferenceCheck
  <2> QED BY <2>1 DEF ChildInv
<1>2. CASE RouteAccepted
  <2>1. pc = "route" /\ operation' = operation + 1 /\ process' = process
    BY <1>2 DEF RouteAccepted
  <2>2. operation + 1 \in Ordinals
    BY <2>1 DEF StackInv, Event, Events
  <2>3. process[operation + 1] = "none"  BY <1>0, <2>2 DEF ChildInv
  <2> QED BY <1>0, <2>1, <2>3 DEF ChildInv
<1>3. CASE RouteRejected \/ NotifyUnavailable \/ UnavailableAnswered \/ RecordOperation
           \/ Prepare \/ IntentRefused
  <2>1. /\ process' = process /\ operation' = operation /\ phase' = phase
        /\ pc \notin {"spawned", "owned", "cancel"}
    BY <1>3 DEF RouteRejected, NotifyUnavailable, UnavailableAnswered, RecordOperation,
                Prepare, IntentRefused
  <2> QED BY <2>1 DEF ChildInv
<1>4. CASE IntentAcknowledged  BY <1>4 DEF IntentAcknowledged, ChildInv, StackInv
<1>5. CASE SpawnChild
  <2>1. final.op = operation /\ operation \in Ordinals
    BY <1>5, StackFacts DEF SpawnChild, StackInv
  <2>2. process' = [process EXCEPT ![operation] = "running"]  BY <1>5, <2>1 DEF SpawnChild
  <2>3. operation' = operation /\ phase' = "spawned" /\ pc' = "spawned" /\ pc = "spawn"
    BY <1>5 DEF SpawnChild
  <2> QED BY <1>0, <2>1, <2>2, <2>3 DEF ChildInv, TypeOK
<1>6. CASE SpawnFails  BY <1>6 DEF SpawnFails, ChildInv
<1>7. CASE SpawnFailedAnswered \/ SpawnedAcknowledged \/ SpawnedRefused
  BY <1>7 DEF SpawnFailedAnswered, SpawnedAcknowledged, SpawnedRefused, Return, ChildInv, StackInv
<1>8. ASSUME NEW e \in {"completed", "cancelled"}, Reap(e, e), phase = "spawned",
             pc \in {"owned", "cancel"}
      PROVE  ChildInv'
  <2>1. final.op = operation /\ operation \in Ordinals  BY <1>8, StackFacts DEF StackInv
  <2>2. process' = [process EXCEPT ![operation] = "reaped"] /\ process[operation] = "exited"
    BY <1>8, <2>1 DEF Reap
  <2>3. operation' = operation /\ phase' = "spawned"
    BY <1>8 DEF Reap
  <2> QED BY <1>0, <2>1, <2>2, <2>3 DEF ChildInv, TypeOK
<1>9. CASE Wait  BY <1>8, <1>9 DEF Wait
<1>10. CASE RetainedWait  BY <1>8, <1>10 DEF RetainedWait
<1>11. CASE CompletedAnswered \/ CancelledAnswered
  BY <1>11 DEF CompletedAnswered, CancelledAnswered, Return, ChildInv
<1>12. CASE OutputOverflow \/ CancelOwned  BY <1>12 DEF OutputOverflow, CancelOwned, ChildInv
<1>13. CASE \E n \in Ordinals : ChildExits(n)
  <2>1. PICK n \in Ordinals : ChildExits(n)  BY <1>13
  <2>2. process' = [process EXCEPT ![n] = "exited"] /\ Live(n) /\ process[n] = "running"
    BY <2>1 DEF ChildExits
  <2>3. operation' = operation /\ phase' = phase /\ pc' = pc  BY <2>1 DEF ChildExits
  <2>4. n = operation /\ pc \in {"spawned", "owned", "cancel"}  BY <2>2 DEF ChildInv
  <2>5. phase = "spawned"  BY <2>4 DEF StackInv
  <2> QED BY <1>0, <2>2, <2>3, <2>4, <2>5 DEF ChildInv, TypeOK
<1>14. CASE SupervisorReplies \/ UNCHANGED vars
  BY <1>14 DEF SupervisorReplies, vars, ChildInv
<1> QED
  BY <1>1, <1>2, <1>3, <1>4, <1>5, <1>6, <1>7, <1>9, <1>10, <1>11, <1>12, <1>13, <1>14
     DEF Next, Launching, Owning, Finished

(* A step that starts a child is SpawnChild, from its place on the stack. *)
LEMMA OnlySpawnStarts ==
  ASSUME TypeOK, StackInv, [Next]_vars, NEW n \in Ordinals,
         process[n] = "none", process'[n] # "none"
  PROVE  pc = "spawn" /\ phase = "prepared" /\ n = final.op
<1> USE DEF procVars
<1>1. CASE Begin \/ BeginReferenceCheck
  BY <1>1 DEF Begin, BeginReferenceCheck
<1>2. CASE SpawnChild  BY <1>2 DEF SpawnChild, TypeOK
<1>3. CASE Launching /\ ~SpawnChild
  BY <1>3 DEF Launching, RouteAccepted, RouteRejected, NotifyUnavailable,
     UnavailableAnswered, RecordOperation, Prepare, IntentAcknowledged, IntentRefused,
     SpawnFails, SpawnFailedAnswered, SpawnedAcknowledged, SpawnedRefused
<1>4. ASSUME NEW e, Reap(e, e)  PROVE FALSE
  BY <1>4 DEF Reap, TypeOK
<1>5. CASE Owning
  BY <1>4, <1>5 DEF Owning, Wait, RetainedWait, CompletedAnswered, CancelledAnswered
<1>6. CASE OutputOverflow \/ CancelOwned  BY <1>6 DEF OutputOverflow, CancelOwned
<1>7. CASE \E m \in Ordinals : ChildExits(m)  BY <1>7 DEF ChildExits, TypeOK
<1>8. CASE SupervisorReplies \/ UNCHANGED vars  BY <1>8 DEF SupervisorReplies, vars
<1> QED BY <1>1, <1>2, <1>3, <1>5, <1>6, <1>7, <1>8 DEF Next, Finished

(* Only the supervisor acknowledges. *)
LEMMA AckedStep ==
  ASSUME TypeOK, StackInv, [Next]_vars
  PROVE  acked' = acked \/ SupervisorReplies
<1> USE DEF chanVars, Send, Receive, Break, ExchangeOk, ExchangeErr, Notified
<1>1. CASE Begin \/ BeginReferenceCheck
  BY <1>1 DEF Begin, BeginReferenceCheck, Route
<1>2. CASE Launching
  BY <1>2 DEF Launching, RouteAccepted, RouteRejected, NotifyUnavailable,
     UnavailableAnswered, RecordOperation, Prepare, IntentAcknowledged, IntentRefused,
     SpawnChild, SpawnFails, SpawnFailedAnswered, SpawnedAcknowledged, SpawnedRefused
<1>3. CASE Owning \/ OutputOverflow \/ CancelOwned
  BY <1>3 DEF Owning, OutputOverflow, CancelOwned, Wait, RetainedWait, CompletedAnswered,
     CancelledAnswered, Reap
<1>4. CASE (\E n \in Ordinals : ChildExits(n)) \/ UNCHANGED vars
  BY <1>4 DEF ChildExits, vars
<1> QED BY <1>1, <1>2, <1>3, <1>4 DEF Next, Finished

(* Acknowledgements are never taken back. *)
LEMMA AckedGrows ==
  ASSUME TypeOK, StackInv, [Next]_vars
  PROVE  acked \subseteq acked'
BY AckedStep DEF SupervisorReplies

(* What a step does to the stream: it is kept, loses its oldest reply, or  *)
(* gains one.                                                              *)
LEMMA StreamStep ==
  ASSUME TypeOK, StackInv, [Next]_vars
  PROVE  replies' = replies \/ Receive \/ SupervisorReplies
<1> USE DEF chanVars, Send, Break, ExchangeOk, ExchangeErr, Notified
<1>1. CASE Begin \/ BeginReferenceCheck
  BY <1>1 DEF Begin, BeginReferenceCheck, Route
<1>2. CASE Launching
  BY <1>2 DEF Launching, RouteAccepted, RouteRejected, NotifyUnavailable,
     UnavailableAnswered, RecordOperation, Prepare, IntentAcknowledged, IntentRefused,
     SpawnChild, SpawnFails, SpawnFailedAnswered, SpawnedAcknowledged, SpawnedRefused
<1>3. CASE Owning \/ OutputOverflow \/ CancelOwned
  BY <1>3 DEF Owning, OutputOverflow, CancelOwned, Wait, RetainedWait, CompletedAnswered,
     CancelledAnswered, Reap
<1>4. CASE (\E n \in Ordinals : ChildExits(n)) \/ SupervisorReplies \/ UNCHANGED vars
  BY <1>4 DEF ChildExits, vars
<1> QED BY <1>1, <1>2, <1>3, <1>4 DEF Next, Finished

LEMMA AckStep ==
  ASSUME TypeOK, StackInv, AckInv, [Next]_vars
  PROVE  AckInv'
<1>a. acked \subseteq acked'  BY AckedGrows
<1>t. TypeOK' /\ StackInv'  BY TypeStep, StackStep
<1>1. \A i \in 1..Len(replies') :
        replies'[i].type = "acknowledged" => replies'[i].event \in acked'
  <2>1. CASE replies' = replies  BY <1>a, <2>1 DEF AckInv
  <2>2. CASE Receive
    <3>1. awaiting' \in Events \union {NONE} /\ ChannelTypeOK
      BY <1>t DEF TypeOK, ChannelTypeOK
    <3> QED BY <1>a, <2>2, <3>1, ReceiveEffect DEF AckInv
  <2>3. CASE SupervisorReplies
    <3>r. PICK i \in 1..Len(sent) :
            \/ replies' = Append(replies, Acknowledged(sent[i])) /\ sent[i] \in acked'
            \/ replies' = Append(replies, Refused)
            \/ \E o \in Overlays, n \in Nonces : replies' = Append(replies, Routing(sent[i], o, n))
      BY <2>3 DEF SupervisorReplies
    <3>s. /\ Acknowledged(sent[i]).event = sent[i]
          /\ Refused.type = "refused"
          /\ \A o \in Overlays, n \in Nonces : Routing(sent[i], o, n).type = "route"
      BY DEF Acknowledged, Refused, Routing
    <3>1. PICK r : replies' = Append(replies, r) /\ (r.type = "acknowledged" => r.event \in acked')
      BY <3>r, <3>s
    <3>2. replies \in Seq(Replies) /\ replies' \in Seq(Replies)
      BY <1>t DEF TypeOK, ChannelTypeOK
    <3> QED BY <1>a, <3>1, <3>2 DEF AckInv
  <2> QED BY <2>1, <2>2, <2>3, StreamStep
<1>2. ASSUME pc' = "spawn" PROVE IntentEvent(final') \in acked'
  <2>1. CASE IntentAcknowledged
    <3>1. ChannelTypeOK /\ Receive /\ awaiting' \in Events \union {NONE}
      BY <2>1 DEF IntentAcknowledged, ExchangeOk, TypeOK
    <3>2. 1 \in 1..Len(replies) /\ replies[1] = Acknowledged(awaiting)
      BY <2>1, <3>1, ReceiveEffect DEF IntentAcknowledged, ExchangeOk
    <3>3. awaiting \in acked  BY <3>2 DEF AckInv, Acknowledged
    <3>4. awaiting = IntentEvent(final) /\ final' = final
      BY <2>1 DEF IntentAcknowledged, StackInv
    <3> QED BY <1>a, <3>3, <3>4
  <2>2. CASE pc = "spawn" /\ final' = final  BY <1>a, <2>2 DEF AckInv
  <2>3. \/ IntentAcknowledged
        \/ pc = "spawn" /\ final' = final
    <3> USE DEF obsVars
    <3>1. CASE Begin \/ BeginReferenceCheck
      BY <1>2, <3>1 DEF Begin, BeginReferenceCheck, Route
    <3>2. CASE Launching
      BY <1>2, <3>2 DEF Launching, Return, RouteAccepted, RouteRejected, NotifyUnavailable,
         UnavailableAnswered, RecordOperation, Prepare, IntentRefused,
         SpawnChild, SpawnFails, SpawnFailedAnswered, SpawnedAcknowledged, SpawnedRefused
    <3>3. CASE Owning \/ OutputOverflow \/ CancelOwned
      BY <1>2, <3>3 DEF Owning, OutputOverflow, CancelOwned, Wait, RetainedWait,
         CompletedAnswered, CancelledAnswered, Reap, Return
    <3>4. CASE (\E n \in Ordinals : ChildExits(n)) \/ SupervisorReplies \/ UNCHANGED vars
      BY <1>2, <3>4 DEF ChildExits, SupervisorReplies, vars
    <3> QED BY <3>1, <3>2, <3>3, <3>4 DEF Next, Finished
  <2> QED BY <2>1, <2>2, <2>3
<1>3. AckBeforeSpawn'
  <2> SUFFICES ASSUME NEW n \in Ordinals, process'[n] # "none"
               PROVE  \E e \in acked' : e.type = "intent" /\ e.op = n
    BY DEF AckBeforeSpawn
  <2>1. CASE process[n] # "none"
    BY <1>a, <2>1 DEF AckInv, AckBeforeSpawn
  <2>2. CASE process[n] = "none"
    <3>1. pc = "spawn" /\ n = final.op  BY <2>2, OnlySpawnStarts
    <3>2. IntentEvent(final) \in acked'  BY <1>a, <3>1 DEF AckInv
    <3> QED BY <3>1, <3>2 DEF IntentEvent
  <2> QED BY <2>1, <2>2
<1> QED BY <1>1, <1>2, <1>3 DEF AckInv

LEMMA FenceStep ==
  ASSUME FlagsTypeOK, FenceInv, [Next]_vars
  PROVE  FenceInv'
<1> USE DEF chanVars, obsVars, FenceInv, FlagsTypeOK
<1>1. CASE Begin \/ BeginReferenceCheck
  BY <1>1 DEF Begin, BeginReferenceCheck, Route, Correlated
<1>2. CASE RouteAccepted  BY <1>2 DEF RouteAccepted
<1>3. CASE Prepare  BY <1>3 DEF Prepare, Return
<1>4. CASE IntentAcknowledged  BY <1>4 DEF IntentAcknowledged, ExchangeOk, Receive
<1>5. CASE RouteRejected \/ NotifyUnavailable \/ UnavailableAnswered \/ RecordOperation
  BY <1>5 DEF RouteRejected, NotifyUnavailable, UnavailableAnswered, RecordOperation, Return
<1>8. CASE IntentRefused \/ SpawnChild \/ SpawnFails \/ SpawnFailedAnswered
           \/ SpawnedAcknowledged \/ SpawnedRefused
  <2>1. pc' \in {"idle", "spawned", "spawn_failed", "owned", "cancel"}
    BY <1>8 DEF IntentRefused, SpawnChild, SpawnFails, SpawnFailedAnswered,
       SpawnedAcknowledged, SpawnedRefused, Return
  <2> QED BY <2>1
<1>6. CASE Owning \/ OutputOverflow \/ CancelOwned
  BY <1>6 DEF Owning, OutputOverflow, CancelOwned, Wait, RetainedWait, CompletedAnswered,
     CancelledAnswered, Reap, Return
<1>7. CASE (\E n \in Ordinals : ChildExits(n)) \/ SupervisorReplies \/ UNCHANGED vars
  BY <1>7 DEF ChildExits, SupervisorReplies, vars
<1> QED BY <1>1, <1>2, <1>3, <1>4, <1>5, <1>6, <1>7, <1>8 DEF Next, Finished, Launching

LEMMA FrameStep ==
  ASSUME TypeOK, StackInv, FenceInv, FrameInv, [Next]_vars
  PROVE  FrameInv'
<1> USE DEF chanVars, obsVars
<1>0. ChannelTypeOK /\ frames \in Nat /\ operation \in Nat
  BY ConstantsAssumption DEF TypeOK, ChannelTypeOK, ObserverTypeOK, ConstantsAssumption
<1>f. FlagsTypeOK /\ FlagsTypeOK' /\ (failed => failed')  BY FlagsStep DEF TypeOK
<1>t. awaiting' \in Events \union {NONE}
  BY TypeStep DEF TypeOK, ChannelTypeOK
<1>1. CASE Begin \/ BeginReferenceCheck
  <2>1. pc = "idle" /\ operation' = operation  BY <1>1 DEF Begin, BeginReferenceCheck
  <2>2. CASE Begin /\ Len(operations) >= MAX_CARGO_OPERATIONS
    <3>1. pc' = pc /\ frames' = frames /\ failed' = failed  BY <2>2 DEF Begin
    <3> QED BY <2>1, <3>1 DEF FrameInv
  <2>3. CASE Route(ordinal + 1)
    <3>1. ordinal + 1 \in Ordinals
      BY <1>1, ConstantsAssumption
         DEF Begin, BeginReferenceCheck, TypeOK, SessionTypeOK, Ordinals, ConstantsAssumption
    <3>2. frames' <= frames + 1 /\ frames' \in Nat
      BY <2>3, <3>1, RouteTyped DEF ChannelTypeOK
    <3>3. CASE Correlated(ordinal + 1) /\ pc' = "route"
      <4>1. ~failed  BY <3>3 DEF Correlated
      <4>2. frames <= 8 * operation  BY <2>1, <4>1 DEF FrameInv
      <4>3. frames' <= 8 * operation + 1  BY <1>0, <3>2, <4>2
      <4> QED BY <2>1, <3>3, <4>3 DEF FrameInv
    <3>4. CASE pc' = "unavailable"  BY <3>4 DEF FrameInv
    <3> QED BY <2>3, <3>1, <3>3, <3>4, RouteTyped
  <2> QED BY <1>1, <2>2, <2>3 DEF Begin, BeginReferenceCheck
<1>2. CASE RouteAccepted
  <2>1. pc = "route" /\ pc' = "routed" /\ operation' = operation + 1 /\ frames' = frames + 1
    BY <1>2, <1>0, <1>t, ReceiveEffect DEF RouteAccepted
  <2>2. frames <= 8 * operation + 1  BY <2>1 DEF FrameInv
  <2>3. frames' + 6 <= 8 * operation'  BY <1>0, <2>1, <2>2
  <2> QED BY <2>1, <2>3 DEF FrameInv
<1>3. CASE RouteRejected \/ NotifyUnavailable  BY <1>3 DEF RouteRejected, NotifyUnavailable, FrameInv
<1>4. CASE UnavailableAnswered
  <2>1. pc = "unavailable" /\ pc' = "idle" /\ failed' = failed
    BY <1>4 DEF UnavailableAnswered, Return
  <2>2. failed  BY <2>1 DEF FenceInv
  <2> QED BY <2>1, <2>2 DEF FrameInv
<1>5. CASE RecordOperation
  <2>1. /\ pc = "routed" /\ pc' \in {"idle", "prepare"} /\ frames' = frames
        /\ operation' = operation
    BY <1>5 DEF RecordOperation, Return
  <2>2. frames + 6 <= 8 * operation  BY <2>1 DEF FrameInv
  <2>3. frames' <= 8 * operation' /\ frames' + 6 <= 8 * operation'  BY <1>0, <2>1, <2>2
  <2> QED BY <2>1, <2>3 DEF FrameInv
<1>6. ASSUME NEW e \in Events, Send(e), operation' = operation
      PROVE  /\ frames' \in Nat /\ operation' \in Nat
             /\ \A k \in Nat : frames + k + 1 <= 8 * operation => frames' + k <= 8 * operation'
  BY <1>0, <1>6, SendEffect DEF ChannelTypeOK
<1>7. ASSUME ExchangeOk \/ ExchangeErr, operation' = operation
      PROVE  /\ frames' \in Nat /\ operation' \in Nat
             /\ \A k \in Nat : frames + k + 1 <= 8 * operation =>
                  frames' + k <= 8 * operation' /\ frames' <= 8 * operation'
  BY <1>0, <1>7, <1>t, ExchangeEffect DEF ChannelTypeOK
<1>8. CASE Prepare
  <2>1. IntentEvent(final) \in Events  BY <1>8, StackFacts DEF Prepare, StackInv
  <2>2. CASE Send(IntentEvent(final)) /\ pc' = "intent"
    <3>1. pc = "prepare" /\ operation' = operation  BY <1>8 DEF Prepare
    <3>2. frames + 5 + 1 <= 8 * operation  BY <1>0, <3>1 DEF FrameInv
    <3>3. frames' + 5 <= 8 * operation'  BY <1>6, <2>1, <2>2, <3>1, <3>2
    <3> QED BY <2>2, <3>3 DEF FrameInv
  <2>3. CASE failed' = TRUE /\ pc' = "idle"  BY <2>3 DEF FrameInv
  <2> QED BY <1>8, <2>2, <2>3 DEF Prepare, Return
<1>9. CASE IntentAcknowledged
  <2>1. /\ pc = "intent" /\ pc' = "spawn" /\ operation' = operation
        /\ ExchangeOk \/ ExchangeErr
    BY <1>9 DEF IntentAcknowledged
  <2>2. frames + 4 + 1 <= 8 * operation  BY <1>0, <2>1 DEF FrameInv
  <2>3. frames' + 4 <= 8 * operation'  BY <1>7, <2>1, <2>2
  <2> QED BY <2>1, <2>3 DEF FrameInv
<1>10. CASE IntentRefused
  <2>1. pc' = "idle" /\ failed' = TRUE  BY <1>10 DEF IntentRefused, Return
  <2> QED BY <2>1 DEF FrameInv
<1>11. CASE SpawnChild \/ SpawnFails
  <2>a. Event("spawned", final.op) \in Events /\ Event("spawn_failed", final.op) \in Events
    BY <1>11, StackFacts DEF SpawnChild, SpawnFails, EventTypes
  <2>1. PICK e \in Events : Send(e)
    BY <1>11, <2>a DEF SpawnChild, SpawnFails
  <2>2. pc = "spawn" /\ pc' \in {"spawned", "spawn_failed"} /\ operation' = operation
    BY <1>11 DEF SpawnChild, SpawnFails
  <2>3. frames + 3 + 1 <= 8 * operation  BY <1>0, <2>2 DEF FrameInv
  <2>4. frames' + 3 <= 8 * operation'  BY <1>6, <2>1, <2>2, <2>3
  <2> QED BY <2>2, <2>4 DEF FrameInv
<1>12. CASE SpawnFailedAnswered \/ SpawnedAcknowledged \/ SpawnedRefused
  <2>1. /\ ExchangeOk \/ ExchangeErr
        /\ pc \in {"spawned", "spawn_failed"} /\ operation' = operation
        /\ pc' \in {"idle", "owned", "cancel"}
    BY <1>12 DEF SpawnFailedAnswered, SpawnedAcknowledged, SpawnedRefused, Notified, Return
  <2>2. frames + 2 + 1 <= 8 * operation  BY <1>0, <2>1 DEF FrameInv
  <2>3. frames' + 2 <= 8 * operation' /\ frames' <= 8 * operation'
    BY <1>7, <2>1, <2>2
  <2> QED BY <2>1, <2>3 DEF FrameInv
<1>13. CASE Wait \/ RetainedWait
  <2>a. Event("completed", final.op) \in Events /\ Event("cancelled", final.op) \in Events
    BY <1>13, StackFacts DEF Wait, RetainedWait, EventTypes
  <2>1. PICK e \in Events : Send(e)
    BY <1>13, <2>a DEF Wait, RetainedWait, Reap
  <2>2. pc \in {"owned", "cancel"} /\ pc' \in {"completed", "cancelled"} /\ operation' = operation
    BY <1>13 DEF Wait, RetainedWait, Reap
  <2>3. frames + 1 + 1 <= 8 * operation  BY <1>0, <2>2 DEF FrameInv
  <2>4. frames' + 1 <= 8 * operation'  BY <1>6, <2>1, <2>2, <2>3
  <2> QED BY <2>2, <2>4 DEF FrameInv
<1>14. CASE CompletedAnswered \/ CancelledAnswered
  <2>1. /\ ExchangeOk \/ ExchangeErr
        /\ pc \in {"completed", "cancelled"} /\ pc' = "idle" /\ operation' = operation
    BY <1>14 DEF CompletedAnswered, CancelledAnswered, Notified, Return
  <2>2. frames + 0 + 1 <= 8 * operation  BY <1>0, <2>1 DEF FrameInv
  <2>3. frames' + 0 <= 8 * operation' /\ frames' <= 8 * operation'
    BY <1>7, <2>1, <2>2
  <2> QED BY <2>1, <2>3 DEF FrameInv
<1>15. CASE OutputOverflow \/ CancelOwned
  <2>1. pc = "owned" /\ pc' \in {"owned", "cancel"} /\ frames' = frames /\ operation' = operation
    BY <1>15 DEF OutputOverflow, CancelOwned
  <2> QED BY <2>1 DEF FrameInv
<1>16. CASE (\E n \in Ordinals : ChildExits(n)) \/ SupervisorReplies \/ UNCHANGED vars
  <2>1. pc' = pc /\ frames' = frames /\ operation' = operation /\ failed' = failed
    BY <1>16 DEF ChildExits, SupervisorReplies, vars
  <2> QED BY <2>1 DEF FrameInv
<1> QED
  BY <1>1, <1>2, <1>3, <1>4, <1>5, <1>8, <1>9, <1>10, <1>11, <1>12, <1>13, <1>14, <1>15, <1>16
     DEF Next, Launching, Owning, Finished

-----------------------------------------------------------------------------
(* The invariant, and what it gives *)

LEMMA InvInit == Init => IInv
<1> SUFFICES ASSUME Init PROVE IInv  OBVIOUS
<1>1. TypeOK /\ StackInv  BY TypeInit
<1>2. \A n \in Ordinals : process[n] = "none" /\ ~Live(n)  BY DEF Init, Live
<1>3. ChildInv  BY <1>2 DEF ChildInv, Init
<1>4. AckInv  BY <1>2 DEF AckInv, AckBeforeSpawn, Init
<1>5. FenceInv  BY DEF FenceInv, Init
<1>6. FrameInv
  <2>1. frames = 0 /\ operation = 0 /\ pc = "idle"  BY DEF Init
  <2> QED BY <2>1 DEF FrameInv
<1> QED BY <1>1, <1>3, <1>4, <1>5, <1>6 DEF IInv

(* IInv is inductive. *)
LEMMA InvStep == IInv /\ [Next]_vars => IInv'
<1> SUFFICES ASSUME IInv, [Next]_vars PROVE IInv'  OBVIOUS
<1>1. TypeOK /\ StackInv /\ ChildInv /\ AckInv /\ FenceInv /\ FrameInv /\ FlagsTypeOK
  BY DEF IInv, TypeOK
<1> QED BY <1>1, TypeStep, StackStep, ChildStep, AckStep, FenceStep, FrameStep DEF IInv

LEMMA Invariance == Spec => []IInv
BY InvInit, InvStep, PTL DEF Spec

(* Every child that ever ran had its own final intent acknowledged, for    *)
(* any number of operations and any replies.                               *)
THEOREM AcknowledgedBeforeSpawn == Spec => []AckBeforeSpawn
<1>1. IInv => AckBeforeSpawn  BY DEF IInv, AckInv
<1> QED BY <1>1, Invariance, PTL

(* No call returns without its guard while a child of it is unreaped.      *)
THEOREM NoChildOrphaned == Spec => []NoOrphan
<1>1. IInv => NoOrphan  BY DEF IInv, ChildInv, NoOrphan, Live
<1> QED BY <1>1, Invariance, PTL

(* The frame bound fits every exchange of every accepted operation.        *)
THEOREM FramesAlwaysSuffice == Spec => []FramesSuffice
<1>1. ASSUME IInv PROVE FramesSuffice
  <2>1. /\ frames \in Nat /\ operation \in Nat /\ MAX_OPERATIONS \in Nat
        /\ operation <= MAX_OPERATIONS /\ FrameInv
    BY <1>1, ConstantsAssumption
       DEF IInv, TypeOK, ChannelTypeOK, ObserverTypeOK, ConstantsAssumption
  <2>2. ASSUME NEW k \in Nat, frames + k <= 8 * operation
        PROVE  frames + k <= MAX_FRAMES
    BY <2>1, <2>2 DEF MAX_FRAMES
  <2>3. pc \in {"routed", "prepare", "spawn", "owned", "cancel"} => frames + 2 <= 8 * operation
    BY <2>1 DEF FrameInv
  <2>4. pc \in {"intent", "spawned", "spawn_failed", "completed", "cancelled"} =>
          frames + 1 <= 8 * operation
    BY <2>1 DEF FrameInv
  <2>5. ASSUME pc = "route" PROVE frames + 1 <= MAX_FRAMES
    <3>1. operation < MAX_OPERATIONS  BY <1>1, <2>5 DEF IInv, StackInv
    <3>2. frames <= 8 * operation + 1  BY <2>1, <2>5 DEF FrameInv
    <3> QED BY <2>1, <3>1, <3>2 DEF MAX_FRAMES
  <2> QED BY <2>2, <2>3, <2>4, <2>5 DEF FramesSuffice
<1> QED BY <1>1, Invariance, PTL

(* A fenced observer or a broken channel never starts another child.       *)
THEOREM FenceAlwaysHolds == Spec => FenceHolds
<1>1. ASSUME IInv, [Next]_vars
      PROVE  [failed \/ broken =>
                \A n \in Ordinals : process[n] = "none" => process'[n] = "none"]_vars
  <2> SUFFICES ASSUME failed \/ broken, NEW n \in Ordinals, process[n] = "none",
                      process'[n] # "none"
               PROVE  FALSE
    OBVIOUS
  <2>1. pc = "spawn"  BY <1>1, OnlySpawnStarts DEF IInv
  <2>2. ~failed /\ ~broken  BY <1>1, <2>1 DEF IInv, FenceInv
  <2> QED BY <2>2
<1> QED BY <1>1, Invariance, PTL DEF Spec, FenceHolds

-----------------------------------------------------------------------------
(* The channel implements LaunchCustody *)

ApprovedOps == {e.op : e \in {a \in acked : a.type = "intent"}}

(* A step changes the children in one of three ways, or not at all.        *)
LEMMA ProcessStep ==
  ASSUME TypeOK, StackInv, [Next]_vars
  PROVE  \/ process' = process
         \/ SpawnChild
         \/ \E n \in Ordinals : ChildExits(n)
         \/ phase = "spawned" /\ \E e \in {"completed", "cancelled"} : Reap(e, e)
<1> USE DEF procVars
<1>1. CASE Begin \/ BeginReferenceCheck  BY <1>1 DEF Begin, BeginReferenceCheck
<1>2. CASE Launching /\ ~SpawnChild
  BY <1>2 DEF Launching, RouteAccepted, RouteRejected, NotifyUnavailable,
     UnavailableAnswered, RecordOperation, Prepare, IntentAcknowledged, IntentRefused,
     SpawnFails, SpawnFailedAnswered, SpawnedAcknowledged, SpawnedRefused
<1>3. CASE Owning  BY <1>3 DEF Owning, Wait, RetainedWait, CompletedAnswered, CancelledAnswered
<1>4. CASE OutputOverflow \/ CancelOwned  BY <1>4 DEF OutputOverflow, CancelOwned
<1>5. CASE SupervisorReplies \/ UNCHANGED vars  BY <1>5 DEF SupervisorReplies, vars
<1> QED BY <1>1, <1>2, <1>3, <1>4, <1>5 DEF Next, Finished

(* Every step of the channel is a step of LaunchCustody or a stutter.      *)
LEMMA CustodyStep == IInv /\ [Next]_vars => [Custody!Next]_(Custody!vars)
<1> SUFFICES ASSUME IInv, [Next]_vars PROVE [Custody!Next]_(Custody!vars)  OBVIOUS
<1> USE DEF Custody!Exists
<1>i. /\ TypeOK /\ StackInv /\ ChildInv /\ AckInv /\ FenceInv /\ FlagsTypeOK
      /\ FlagsTypeOK' /\ (failed => failed')
  BY FlagsStep DEF IInv, TypeOK
<1>1. CASE SpawnChild
  <2>1. /\ pc = "spawn" /\ phase = "prepared" /\ failed' = failed /\ acked' = acked
        /\ process' = [process EXCEPT ![final.op] = "running"]
    BY <1>1 DEF SpawnChild, Send
  <2>2. final.op \in Ordinals /\ final.op = operation  BY <1>i, <2>1, StackFacts DEF StackInv
  <2>3. IntentEvent(final) \in acked  BY <1>i, <2>1 DEF AckInv
  <2>4. final.op \in ApprovedOps  BY <2>3 DEF ApprovedOps, IntentEvent
  <2>5. ~failed  BY <1>i, <2>1 DEF FenceInv
  <2>6. process[final.op] = "none" /\ \A m \in Ordinals : ~Live(m)
    BY <1>i, <2>1, <2>2 DEF ChildInv
  <2>7. Custody!Spawn(final.op)
    BY <2>1, <2>4, <2>5, <2>6 DEF Custody!Spawn, Live, ApprovedOps
  <2> QED BY <2>2, <2>7 DEF Custody!Next
<1>2. CASE \E n \in Ordinals : ChildExits(n)
  BY <1>2 DEF ChildExits, chanVars, obsVars, Custody!Exit, Custody!Next
<1>3. ASSUME NEW e \in {"completed", "cancelled"}, Reap(e, e), phase = "spawned"
      PROVE  Custody!Next
  <2>1. final.op \in Ordinals  BY <1>i, <1>3, StackFacts
  <2>2. Custody!Reap(final.op)  BY <1>3 DEF Reap, obsVars, Send, Custody!Reap
  <2> QED BY <2>1, <2>2 DEF Custody!Next
<1>4. CASE SupervisorReplies
  <2>1. failed' = failed /\ process' = process  BY <1>4 DEF SupervisorReplies, obsVars, procVars
  <2>2. PICK e \in Events : acked' \in {acked, acked \union {e}}
    BY <1>i, <1>4 DEF SupervisorReplies, TypeOK, ChannelTypeOK
  <2>3. CASE acked' = acked  BY <2>1, <2>3 DEF Custody!vars
  <2>4. CASE acked' = acked \union {e} /\ e.type = "intent"
    <3>1. e.op \in Ordinals  BY DEF Events
    <3>2. Custody!Approve(e.op)  BY <2>1, <2>4 DEF Custody!Approve
    <3> QED BY <3>1, <3>2 DEF Custody!Next
  <2>5. CASE acked' = acked \union {e} /\ e.type # "intent"
    BY <2>1, <2>5 DEF Custody!vars
  <2> QED BY <2>2, <2>3, <2>4, <2>5
<1>5. CASE process' = process /\ acked' = acked
  <2>1. CASE failed' = failed  BY <1>5, <2>1 DEF Custody!vars
  <2>2. CASE ~failed /\ failed' = TRUE
    <3>1. Custody!Fence  BY <1>5, <2>2 DEF Custody!Fence
    <3> QED BY <3>1 DEF Custody!Next
  <2>3. failed' = failed \/ (~failed /\ failed' = TRUE)  BY <1>i DEF FlagsTypeOK
  <2> QED BY <2>1, <2>2, <2>3
<1> QED BY <1>i, <1>1, <1>2, <1>3, <1>4, <1>5, AckedStep, ProcessStep

(* The channel implements the abstract custody specification.              *)
THEOREM CustodyRefinement == Spec => ImplementsCustody
<1>1. Init => Custody!Init
  BY DEF Init, Custody!Init
<1>2. IInv /\ [Next]_vars => [Custody!Next]_(Custody!vars)  BY CustodyStep
<1> QED BY <1>1, <1>2, Invariance, PTL DEF Spec, ImplementsCustody, Custody!Spec

-----------------------------------------------------------------------------
(* The carrier *)

(* The carrier is open exactly where a final intent was presented and its  *)
(* operation is not over.                                                  *)
CarrierInv ==
  /\ pc \in {"intent", "spawn", "spawned", "owned", "cancel", "completed", "cancelled"} =>
       carrier = {final.op}
  /\ pc = "spawn_failed" => carrier = {awaiting.op}
  /\ pc \in {"completed", "cancelled"} => awaiting.op = final.op
  /\ pc \in {"idle", "route", "fenced", "unavailable", "routed", "prepare"} => carrier = {}

LEMMA CarrierStep == CarrierInv /\ [Next]_vars => CarrierInv'
<1> SUFFICES ASSUME CarrierInv, [Next]_vars PROVE CarrierInv'  OBVIOUS
<1> USE DEF obsVars, sessVars, procVars, CarrierInv
<1>1. CASE Begin \/ BeginReferenceCheck
  <2>1. pc = "idle" /\ carrier' = carrier  BY <1>1 DEF Begin, BeginReferenceCheck
  <2>2. pc' \in {"idle", "route", "unavailable"}
    BY <1>1, <2>1 DEF Begin, BeginReferenceCheck, Route
  <2> QED BY <2>1, <2>2
<1>2. CASE RouteAccepted \/ RouteRejected \/ NotifyUnavailable \/ UnavailableAnswered \/ RecordOperation
  <2>1. /\ pc \in {"route", "fenced", "unavailable", "routed"} /\ carrier' = carrier
        /\ pc' \in {"idle", "fenced", "unavailable", "routed", "prepare"}
    BY <1>2 DEF RouteAccepted, RouteRejected, NotifyUnavailable, UnavailableAnswered,
       RecordOperation, Return
  <2> QED BY <2>1
<1>3. CASE Prepare  BY <1>3 DEF Prepare, Return
<1>4. CASE IntentAcknowledged  BY <1>4 DEF IntentAcknowledged
<1>5. CASE IntentRefused  BY <1>5 DEF IntentRefused, Return
<1>6. CASE SpawnChild  BY <1>6 DEF SpawnChild
<1>7. CASE SpawnFails  BY <1>7 DEF SpawnFails, Send, Event
<1>8. CASE SpawnFailedAnswered  BY <1>8 DEF SpawnFailedAnswered, Return
<1>9. CASE SpawnedAcknowledged \/ SpawnedRefused
  BY <1>9 DEF SpawnedAcknowledged, SpawnedRefused
<1>10. CASE Wait \/ RetainedWait
  <2>1. PICK e \in {"completed", "cancelled"} : Reap(e, e) /\ pc \in {"owned", "cancel"}
    BY <1>10 DEF Wait, RetainedWait
  <2>2. awaiting'.op = final.op  BY <2>1 DEF Reap, Send, Event
  <2>3. pc' \in {"completed", "cancelled"} /\ carrier' = carrier /\ final' = final
    BY <2>1 DEF Reap
  <2> QED BY <2>1, <2>2, <2>3
<1>11. CASE CompletedAnswered \/ CancelledAnswered
  BY <1>11 DEF CompletedAnswered, CancelledAnswered, Return
<1>12. CASE OutputOverflow \/ CancelOwned  BY <1>12 DEF OutputOverflow, CancelOwned
<1>13. CASE (\E n \in Ordinals : ChildExits(n)) \/ SupervisorReplies \/ UNCHANGED vars
  BY <1>13 DEF ChildExits, SupervisorReplies, vars
<1> QED
  BY <1>1, <1>2, <1>3, <1>4, <1>5, <1>6, <1>7, <1>8, <1>9, <1>10, <1>11, <1>12, <1>13
     DEF Next, Launching, Owning, Finished

(* The carrier is live while its child is, and until the terminal event of *)
(* its operation was answered or given up; between calls none is open.     *)
THEOREM CarrierInCustody == Spec => []CarrierCustody
<1>1. Init => CarrierInv  BY DEF Init, CarrierInv
<1>2. ASSUME IInv, CarrierInv PROVE CarrierCustody
  <2>1. ASSUME NEW n \in Ordinals, Live(n) PROVE n \in carrier
    <3>1. pc \in {"spawned", "owned", "cancel"} /\ n = operation  BY <1>2, <2>1 DEF IInv, ChildInv
    <3>2. final.op = operation  BY <1>2, <3>1 DEF IInv, StackInv
    <3> QED BY <1>2, <3>1, <3>2 DEF CarrierInv
  <2> QED BY <1>2, <2>1 DEF CarrierInv, CarrierCustody
<1> QED BY <1>1, <1>2, CarrierStep, Invariance, PTL DEF Spec

-----------------------------------------------------------------------------
(* What was sent *)

(* A step sends nothing or one event: a terminal one of a child it reaped, *)
(* an intent only of the operation that was just prepared.                 *)
LEMMA SentStep ==
  ASSUME TypeOK, StackInv, [Next]_vars
  PROVE  \/ sent' = sent
         \/ \E e \in Events :
              /\ sent' = Append(sent, e)
              /\ e.type \in {"completed", "cancelled"} => process'[e.op] = "reaped"
              /\ e.type = "intent" => e = IntentEvent(final) /\ pc = "prepare" /\ pc' = "intent"
<1> USE DEF chanVars
<1>s. ASSUME NEW e \in Events, Send(e) PROVE sent' \in {sent, Append(sent, e)}
  BY <1>s DEF Send
<1>1. CASE Begin \/ BeginReferenceCheck
  <2>1. ordinal + 1 \in Ordinals
    BY <1>1, ConstantsAssumption
       DEF Begin, BeginReferenceCheck, TypeOK, SessionTypeOK, Ordinals, ConstantsAssumption
  <2>2. CASE Begin /\ Len(operations) >= MAX_CARGO_OPERATIONS  BY <2>2 DEF Begin
  <2>3. CASE Route(ordinal + 1)
    <3>1. PICK t \in {"route", "unavailable"} : Send(Event(t, ordinal + 1))
      BY <2>3 DEF Route
    <3>2. Event(t, ordinal + 1) \in Events  BY <2>1, EventsTyped DEF EventTypes
    <3>3. Event(t, ordinal + 1).type = t  BY DEF Event
    <3> QED BY <1>s, <3>1, <3>2, <3>3
  <2> QED BY <1>1, <2>2, <2>3 DEF Begin, BeginReferenceCheck
<1>2. CASE NotifyUnavailable
  <2>1. Event("unavailable", awaiting.op) \in Events
    BY <1>2, StackFacts, EventsTyped DEF NotifyUnavailable, EventTypes
  <2>2. Event("unavailable", awaiting.op).type = "unavailable"  BY DEF Event
  <2> QED BY <1>2, <1>s, <2>1, <2>2 DEF NotifyUnavailable
<1>3. CASE Prepare
  <2>1. IntentEvent(final) \in Events  BY <1>3, StackFacts DEF Prepare, StackInv
  <2>2. IntentEvent(final).type = "intent"  BY DEF IntentEvent
  <2> QED BY <1>3, <1>s, <2>1, <2>2 DEF Prepare
<1>4. CASE SpawnChild \/ SpawnFails
  <2>1. PICK t \in {"spawned", "spawn_failed"} : Send(Event(t, final.op))
    BY <1>4 DEF SpawnChild, SpawnFails
  <2>2. Event(t, final.op) \in Events
    BY <1>4, StackFacts DEF SpawnChild, SpawnFails, EventTypes
  <2>3. Event(t, final.op).type = t  BY DEF Event
  <2> QED BY <1>s, <2>1, <2>2, <2>3
<1>5. CASE Wait \/ RetainedWait
  <2>1. PICK t \in {"completed", "cancelled"} : Reap(t, t) /\ phase = "spawned"
    BY <1>5 DEF Wait, RetainedWait
  <2>2. Event(t, final.op) \in Events /\ final.op \in Ordinals
    BY <2>1, StackFacts DEF EventTypes
  <2>3. Event(t, final.op).type = t /\ Event(t, final.op).op = final.op  BY DEF Event
  <2>4. process'[final.op] = "reaped"  BY <2>1, <2>2 DEF Reap, TypeOK
  <2>5. Send(Event(t, final.op))  BY <2>1 DEF Reap
  <2> QED BY <1>s, <2>2, <2>3, <2>4, <2>5
<1>6. CASE \/ RouteAccepted \/ RouteRejected \/ UnavailableAnswered \/ RecordOperation
           \/ IntentAcknowledged \/ IntentRefused \/ SpawnFailedAnswered
           \/ SpawnedAcknowledged \/ SpawnedRefused
  BY <1>6 DEF RouteAccepted, RouteRejected, UnavailableAnswered, RecordOperation,
     IntentAcknowledged, IntentRefused, SpawnFailedAnswered, SpawnedAcknowledged,
     SpawnedRefused, ExchangeOk, ExchangeErr, Notified, Receive, Break
<1>7. CASE CompletedAnswered \/ CancelledAnswered \/ OutputOverflow \/ CancelOwned
  BY <1>7 DEF CompletedAnswered, CancelledAnswered, OutputOverflow, CancelOwned,
     ExchangeOk, ExchangeErr, Notified, Receive, Break
<1>8. CASE (\E n \in Ordinals : ChildExits(n)) \/ SupervisorReplies \/ UNCHANGED vars
  BY <1>8 DEF ChildExits, SupervisorReplies, vars
<1> QED
  BY <1>1, <1>2, <1>3, <1>4, <1>5, <1>6, <1>7, <1>8 DEF Next, Launching, Owning, Finished

(* A child that was waited for stays so: ordinals are not used twice.      *)
LEMMA ReapedStays ==
  ASSUME IInv, [Next]_vars, NEW n \in Ordinals, process[n] = "reaped"
  PROVE  process'[n] = "reaped"
<1>0. TypeOK /\ StackInv /\ ChildInv  BY DEF IInv
<1>1. CASE SpawnChild
  <2>1. final.op = operation /\ process[operation] = "none"
    BY <1>0, <1>1 DEF SpawnChild, StackInv, ChildInv
  <2> QED BY <1>1, <2>1 DEF SpawnChild
<1>2. CASE \E m \in Ordinals : ChildExits(m)
  BY <1>2 DEF ChildExits
<1>3. ASSUME NEW e, Reap(e, e) PROVE process'[n] = "reaped"
  BY <1>0, <1>3 DEF Reap, TypeOK
<1> QED BY <1>0, <1>1, <1>2, <1>3, ProcessStep

(* The supervisor is told that an operation is over only after its child   *)
(* was actually waited for, on every path that reports it.                 *)
THEOREM TerminalTellsTruth == Spec => []TerminalAfterWait
<1>1. Init => TerminalAfterWait  BY DEF Init, TerminalAfterWait
<1>2. ASSUME IInv, TerminalAfterWait, [Next]_vars PROVE TerminalAfterWait'
  <2>0. TypeOK /\ StackInv /\ sent \in Seq(Events)  BY <1>2 DEF IInv, TypeOK, ChannelTypeOK
  <2>1. ASSUME NEW i \in 1..Len(sent), sent[i].type \in {"completed", "cancelled"}
        PROVE  process'[sent[i].op] = "reaped"
    <3>1. sent[i] \in Events  BY <2>0
    <3>2. sent[i].op \in Ordinals  BY <3>1 DEF Events
    <3>3. process[sent[i].op] = "reaped"  BY <1>2, <2>1 DEF TerminalAfterWait
    <3> QED BY <1>2, <3>2, <3>3, ReapedStays
  <2>2. CASE sent' = sent  BY <2>1, <2>2 DEF TerminalAfterWait
  <2>3. ASSUME NEW e \in Events, sent' = Append(sent, e),
               e.type \in {"completed", "cancelled"} => process'[e.op] = "reaped"
        PROVE  TerminalAfterWait'
    BY <2>0, <2>1, <2>3 DEF TerminalAfterWait
  <2> QED BY <1>2, <2>0, <2>2, <2>3, SentStep
<1> QED BY <1>1, <1>2, Invariance, PTL DEF Spec

(* The nonce of a pending operation is none that was presented before.     *)
NonceInv ==
  /\ \A i \in 1..Len(sent) : sent[i].type = "intent" => sent[i].intent.nonce \in nonces
  /\ pc \in {"routed", "prepare"} =>
       /\ final.nonce \in nonces
       /\ \A i \in 1..Len(sent) : sent[i].type = "intent" => sent[i].intent.nonce # final.nonce
  /\ DistinctNonces

(* How an operation comes to be pending, and stays so.                     *)
LEMMA PendingStep ==
  ASSUME [Next]_vars
  PROVE  /\ nonces \subseteq nonces'
         /\ pc' \in {"routed", "prepare"} =>
              \/ RouteAccepted
              \/ pc \in {"routed", "prepare"} /\ final' = final /\ sent' = sent
<1> USE DEF chanVars, obsVars, Return
<1>1. CASE Begin \/ BeginReferenceCheck  BY <1>1 DEF Begin, BeginReferenceCheck, Route
<1>2. CASE RouteAccepted  BY <1>2 DEF RouteAccepted
<1>3. CASE RecordOperation  BY <1>3 DEF RecordOperation
<1>4. CASE RouteRejected \/ NotifyUnavailable \/ UnavailableAnswered \/ Prepare
           \/ IntentAcknowledged \/ IntentRefused
  BY <1>4 DEF RouteRejected, NotifyUnavailable, UnavailableAnswered, Prepare,
     IntentAcknowledged, IntentRefused
<1>5. CASE SpawnChild \/ SpawnFails \/ SpawnFailedAnswered \/ SpawnedAcknowledged \/ SpawnedRefused
  BY <1>5 DEF SpawnChild, SpawnFails, SpawnFailedAnswered, SpawnedAcknowledged, SpawnedRefused
<1>6. CASE Owning \/ OutputOverflow \/ CancelOwned
  BY <1>6 DEF Owning, Wait, RetainedWait, Reap, CompletedAnswered, CancelledAnswered,
     OutputOverflow, CancelOwned
<1>7. CASE (\E n \in Ordinals : ChildExits(n)) \/ SupervisorReplies \/ UNCHANGED vars
  BY <1>7 DEF ChildExits, SupervisorReplies, vars
<1> QED BY <1>1, <1>2, <1>3, <1>4, <1>5, <1>6, <1>7 DEF Next, Launching, Finished

LEMMA NonceStep ==
  ASSUME TypeOK, StackInv, NonceInv, [Next]_vars
  PROVE  NonceInv'
<1>0. sent \in Seq(Events)  BY DEF TypeOK, ChannelTypeOK
<1>1. CASE RouteAccepted
  <2>1. sent' = sent /\ \E r : r.nonce \notin nonces /\ final'.nonce = r.nonce /\ nonces' = nonces \union {r.nonce}
    BY <1>1 DEF RouteAccepted, Accepts, Receive
  <2> QED BY <2>1 DEF NonceInv, DistinctNonces
<1>2. CASE sent' = sent /\ ~RouteAccepted
  BY <1>2, PendingStep DEF NonceInv, DistinctNonces
<1>3. ASSUME NEW e \in Events, sent' = Append(sent, e), ~RouteAccepted,
             e.type = "intent" => e = IntentEvent(final) /\ pc = "prepare" /\ pc' = "intent"
      PROVE  NonceInv'
  <2>1. Len(sent') = Len(sent) + 1 /\ sent'[Len(sent) + 1] = e /\ \A i \in 1..Len(sent) : sent'[i] = sent[i]
    BY <1>0, <1>3
  <2>2. pc' \notin {"routed", "prepare"}
    <3>1. sent' # sent  BY <1>0, <2>1
    <3> QED BY <1>3, <3>1, PendingStep
  <2>3. nonces \subseteq nonces'  BY PendingStep
  <2>4. CASE e.type # "intent"
    BY <1>0, <2>1, <2>2, <2>3, <2>4 DEF NonceInv, DistinctNonces
  <2>5. CASE e.type = "intent"
    <3>1. e.intent = final /\ pc = "prepare"  BY <1>3, <2>5 DEF IntentEvent
    <3>2. final.nonce \in nonces /\ \A i \in 1..Len(sent) : sent[i].type = "intent" => sent[i].intent.nonce # final.nonce
      BY <3>1 DEF NonceInv
    <3>3. \A i \in 1..Len(sent') : sent'[i].type = "intent" => sent'[i].intent.nonce \in nonces'
      BY <1>0, <2>1, <2>3, <3>1, <3>2 DEF NonceInv
    <3>4. DistinctNonces'
      <4> SUFFICES ASSUME NEW i \in 1..Len(sent'), NEW j \in 1..Len(sent'),
                          sent'[i].type = "intent", sent'[j].type = "intent",
                          sent'[i].intent.nonce = sent'[j].intent.nonce
                   PROVE  sent'[i] = sent'[j]
        BY DEF DistinctNonces
      <4>1. CASE i \in 1..Len(sent) /\ j \in 1..Len(sent)
        BY <2>1, <4>1 DEF NonceInv, DistinctNonces
      <4>2. CASE i = Len(sent) + 1 /\ j = Len(sent) + 1  BY <4>2
      <4>3. CASE i = Len(sent) + 1 /\ j \in 1..Len(sent)  BY <2>1, <3>1, <3>2, <4>3
      <4>4. CASE i \in 1..Len(sent) /\ j = Len(sent) + 1  BY <2>1, <3>1, <3>2, <4>4
      <4> QED BY <1>0, <2>1, <4>1, <4>2, <4>3, <4>4
    <3> QED BY <2>2, <3>3, <3>4 DEF NonceInv
  <2> QED BY <2>4, <2>5
<1> QED
  <2>1. sent' = sent \/ ~RouteAccepted  BY DEF RouteAccepted, Receive
  <2> QED BY <1>1, <1>2, <1>3, <2>1, SentStep

(* No two carriers presented to the supervisor share a nonce, whatever     *)
(* nonces it answers with.                                                 *)
THEOREM NoncesStayDistinct == Spec => []DistinctNonces
<1>1. Init => NonceInv  BY DEF Init, NonceInv, DistinctNonces
<1>2. TypeOK /\ StackInv /\ NonceInv /\ [Next]_vars => NonceInv'  BY NonceStep
<1>3. IInv => TypeOK /\ StackInv  BY DEF IInv
<1>4. NonceInv => DistinctNonces  BY DEF NonceInv
<1> QED BY <1>1, <1>2, <1>3, <1>4, Invariance, PTL DEF Spec

-----------------------------------------------------------------------------
(* The order of what was sent *)

Last == sent[Len(sent)]
LastIs(types, op) == sent # <<>> /\ Last.type \in types /\ Last.op = op

(* Where the stack is tells what was sent last, as long as the channel     *)
(* works; once it is broken nothing more is sent.                          *)
LastInv ==
  /\ pc \in {"route", "fenced"} => LastIs({"route"}, ordinal)
  /\ pc = "unavailable" => sent # <<>> /\ Last.type = "unavailable"
  /\ pc \in {"routed", "prepare"} => LastIs({"route"}, operation)
  /\ pc \in {"intent", "spawn"} => LastIs({"intent"}, operation)
  /\ pc = "spawn_failed" => LastIs({"spawn_failed"}, operation)
  /\ pc \in {"spawned", "owned", "cancel"} => LastIs({"spawned"}, operation)
  /\ pc = "completed" => LastIs({"completed"}, operation)
  /\ pc = "cancelled" => LastIs({"cancelled"}, operation)
  /\ pc = "idle" => \/ sent = <<>> \/ LastIs({"spawn_failed", "completed"}, operation)
                    \/ (failed \/ phase = "routed") /\ Last.type # "spawned"

HistoryInv ==
  /\ operation <= ordinal
  /\ pc \in {"route", "fenced"} => awaiting.op = ordinal
  /\ sent # <<>> => Last.op <= ordinal
  /\ ~broken => LastInv
  /\ LegalHistory

(* An event that may follow the last one extends a legal history.          *)
LEMMA HistoryExtended ==
  ASSUME sent \in Seq(Events), LegalHistory, NEW e \in Events, sent' = Append(sent, e),
         sent = <<>> => e.type \in {"route", "unavailable"},
         sent # <<>> => Follows(Last, e)
  PROVE  LegalHistory' /\ Last' = e /\ sent' # <<>>
<1>1. /\ Len(sent') = Len(sent) + 1 /\ Len(sent) \in Nat
      /\ sent'[Len(sent) + 1] = e /\ \A i \in 1..Len(sent) : sent'[i] = sent[i]
  OBVIOUS
<1>2. Last' = e /\ sent' # <<>>  BY <1>1 DEF Last
<1>3. sent'[1].type \in {"route", "unavailable"}
  <2>1. CASE sent = <<>>  BY <1>1, <2>1
  <2>2. CASE sent # <<>>
    <3>1. 1 \in 1..Len(sent)  BY <2>2
    <3> QED BY <1>1, <2>2, <3>1 DEF LegalHistory
  <2> QED BY <2>1, <2>2
<1>4. ASSUME NEW i \in 1..(Len(sent') - 1) PROVE Follows(sent'[i], sent'[i + 1])
  <2>1. CASE i \in 1..(Len(sent) - 1)
    <3>1. i \in 1..Len(sent) /\ i + 1 \in 1..Len(sent)  BY <1>1, <2>1
    <3>2. Follows(sent[i], sent[i + 1])  BY <2>1 DEF LegalHistory
    <3> QED BY <1>1, <3>1, <3>2
  <2>2. CASE i = Len(sent)
    <3>1. sent # <<>> /\ i \in 1..Len(sent)  BY <1>1, <2>2
    <3> QED BY <1>1, <2>2, <3>1 DEF Last
  <2> QED BY <1>1, <2>1, <2>2
<1> QED BY <1>2, <1>3, <1>4 DEF LegalHistory

(* What a send of such an event does to the history.                       *)
LEMMA HistorySend ==
  ASSUME sent \in Seq(Events), LegalHistory, NEW e \in Events, Send(e), FlagsTypeOK,
         NEW n \in Nat, e.op <= n, sent # <<>> => Last.op <= n,
         ~broken => /\ sent = <<>> => e.type \in {"route", "unavailable"}
                    /\ sent # <<>> => Follows(Last, e)
  PROVE  /\ LegalHistory' /\ (sent' # <<>> => Last'.op <= n)
         /\ ~broken' => sent' # <<>> /\ Last' = e
<1>1. CASE ~broken /\ sent' = Append(sent, e) /\ broken' = broken
  BY <1>1, HistoryExtended
<1>2. CASE broken' = TRUE /\ sent' = sent
  BY <1>2 DEF LegalHistory, Last
<1> QED BY <1>1, <1>2 DEF Send

(* A step that sends nothing keeps the history.                            *)
LEMMA HistoryKept ==
  ASSUME HistoryInv, sent' = sent, ordinal' = ordinal
  PROVE  LegalHistory' /\ (sent' # <<>> => Last'.op <= ordinal') /\ Last' = Last
BY DEF HistoryInv, LegalHistory, Last

LEMMA HistoryStep ==
  ASSUME TypeOK, StackInv, FenceInv, HistoryInv, [Next]_vars
  PROVE  HistoryInv'
<1> USE DEF chanVars, obsVars, sessVars, LastIs
<1>0. /\ sent \in Seq(Events) /\ ordinal \in Nat /\ operation \in Nat /\ FlagsTypeOK
      /\ LegalHistory /\ operation <= ordinal /\ (sent # <<>> => Last.op <= ordinal)
      /\ (broken => broken') /\ FlagsTypeOK' /\ (failed => failed')
  BY ConstantsAssumption, FlagsStep
     DEF TypeOK, ChannelTypeOK, SessionTypeOK, ObserverTypeOK, HistoryInv, ConstantsAssumption
<1>l. sent # <<>> => Last \in Events /\ Last.op \in Nat /\ Last.op <= ordinal + 1
  <2>1. sent # <<>> => Last \in Events  BY <1>0 DEF Last
  <2>2. \A e \in Events : e.op \in Nat  BY DEF Events, Ordinals
  <2> QED BY <1>0, <2>1, <2>2
<1>1. CASE Begin \/ BeginReferenceCheck
  <2>1. ordinal + 1 \in Ordinals /\ pc = "idle" /\ ordinal' = ordinal + 1 /\ operation' = operation
    BY <1>1, ConstantsAssumption
       DEF Begin, BeginReferenceCheck, TypeOK, SessionTypeOK, Ordinals, ConstantsAssumption
  <2>2. CASE Begin /\ Len(operations) >= MAX_CARGO_OPERATIONS
    <3>1. /\ sent' = sent /\ broken' = broken /\ pc' = pc /\ failed' = failed /\ phase' = phase
          /\ Last' = Last
      BY <2>2 DEF Begin, Last
    <3> QED BY <1>0, <1>l, <2>1, <3>1 DEF HistoryInv, LastInv, LegalHistory
  <2>3. ASSUME Correlated(ordinal + 1), Send(Event("route", ordinal + 1)), pc' = "route"
        PROVE  HistoryInv'
    <3> DEFINE e == Event("route", ordinal + 1)
    <3>1. e \in Events /\ e.type = "route" /\ e.op = ordinal + 1
      BY <2>1, EventsTyped DEF EventTypes, Event
    <3>2. ordinal + 1 = operation + 1 /\ ~failed /\ phase = "none"  BY <2>3 DEF Correlated
    <3>3. ~broken => (sent # <<>> => Follows(Last, e))
      BY <1>0, <2>1, <3>1, <3>2 DEF HistoryInv, LastInv, Follows
    <3> HIDE DEF e
    <3>4. /\ LegalHistory' /\ (sent' # <<>> => Last'.op <= ordinal + 1)
          /\ ~broken' => sent' # <<>> /\ Last' = e
      BY <1>0, <1>l, <2>3, <3>1, <3>3, HistorySend DEF e
    <3>5. awaiting' = e  BY <2>3 DEF Send, e
    <3> QED BY <1>0, <2>1, <2>3, <3>1, <3>4, <3>5 DEF HistoryInv, LastInv
  <2>4. ASSUME Send(Event("unavailable", ordinal + 1)), pc' = "unavailable"
        PROVE  HistoryInv'
    <3> DEFINE e == Event("unavailable", ordinal + 1)
    <3>1. e \in Events /\ e.type = "unavailable" /\ e.op = ordinal + 1
      BY <2>1, EventsTyped DEF EventTypes, Event
    <3>3. ~broken => (sent # <<>> => Follows(Last, e))
      BY <1>0, <1>l, <2>1, <3>1 DEF HistoryInv, LastInv, Follows
    <3> HIDE DEF e
    <3>4. /\ LegalHistory' /\ (sent' # <<>> => Last'.op <= ordinal + 1)
          /\ ~broken' => sent' # <<>> /\ Last' = e
      BY <1>0, <1>l, <2>4, <3>1, <3>3, HistorySend DEF e
    <3> QED BY <1>0, <2>1, <2>4, <3>1, <3>4 DEF HistoryInv, LastInv
  <2> QED BY <1>1, <2>2, <2>3, <2>4 DEF Begin, BeginReferenceCheck, Route
<1>2. CASE RouteAccepted
  <2>1. /\ pc = "route" /\ pc' = "routed" /\ sent' = sent /\ ordinal' = ordinal /\ broken' = broken
        /\ operation' = operation + 1
    BY <1>2 DEF RouteAccepted, Receive
  <2>2. ordinal = operation + 1
    BY <2>1 DEF HistoryInv, StackInv, Event
  <2> QED BY <1>0, <2>1, <2>2, HistoryKept DEF HistoryInv, LastInv
<1>3. CASE RouteRejected
  <2>1. /\ pc = "route" /\ pc' = "fenced" /\ sent' = sent /\ ordinal' = ordinal
        /\ operation' = operation /\ awaiting' = awaiting
    BY <1>3 DEF RouteRejected, Receive, Break
  <2> QED BY <1>0, <2>1, HistoryKept DEF HistoryInv, LastInv
<1>4. ASSUME NEW t \in EventTypes, NEW q, Send(Event(t, q)), q \in Ordinals, q <= ordinal,
             ~broken => sent # <<>> /\ Follows(Last, Event(t, q)),
             ordinal' = ordinal, operation' = operation
      PROVE  /\ LegalHistory' /\ (sent' # <<>> => Last'.op <= ordinal')
             /\ ~broken' => sent' # <<>> /\ Last'.type = t /\ Last'.op = q
  <2> DEFINE e == Event(t, q)
  <2>1. e \in Events /\ e.type = t /\ e.op = q  BY <1>4, EventsTyped DEF Event
  <2> HIDE DEF e
  <2>2. /\ LegalHistory' /\ (sent' # <<>> => Last'.op <= ordinal)
        /\ ~broken' => sent' # <<>> /\ Last' = e
    BY <1>0, <1>4, <2>1, HistorySend DEF e
  <2> QED BY <1>4, <2>1, <2>2
<1>5. CASE NotifyUnavailable
  <2>1. /\ pc = "fenced" /\ Send(Event("unavailable", ordinal)) /\ pc' = "unavailable"
        /\ ordinal' = ordinal /\ operation' = operation
    BY <1>5 DEF NotifyUnavailable, HistoryInv
  <2>2. ordinal \in Ordinals
    BY <1>5, StackFacts DEF NotifyUnavailable, HistoryInv
  <2>3. ~broken => sent # <<>> /\ Follows(Last, Event("unavailable", ordinal))
    BY <1>0, <2>1 DEF HistoryInv, LastInv, Follows, Event
  <2> QED BY <1>0, <1>4, <2>1, <2>2, <2>3 DEF HistoryInv, LastInv, EventTypes
<1>6. CASE UnavailableAnswered
  <2>1. /\ pc = "unavailable" /\ pc' = "idle" /\ sent' = sent /\ ordinal' = ordinal
        /\ operation' = operation /\ failed' = failed /\ failed
    BY <1>6 DEF UnavailableAnswered, Return, ExchangeOk, ExchangeErr, Receive, Break, FenceInv
  <2> QED BY <1>0, <2>1, HistoryKept DEF HistoryInv, LastInv
<1>7. CASE RecordOperation
  <2>1. /\ pc = "routed" /\ pc' \in {"idle", "prepare"} /\ sent' = sent /\ ordinal' = ordinal
        /\ operation' = operation /\ broken' = broken /\ phase' = phase /\ phase = "routed"
    BY <1>7 DEF RecordOperation, Return, StackInv
  <2> QED BY <1>0, <2>1, HistoryKept DEF HistoryInv, LastInv
<1>8. CASE Prepare
  <2>0. pc = "prepare" /\ ordinal' = ordinal /\ operation' = operation  BY <1>8 DEF Prepare
  <2>1. CASE Send(IntentEvent(final)) /\ pc' = "intent"
    <3> DEFINE e == IntentEvent(final)
    <3>1. e \in Events /\ e.type = "intent" /\ e.op = operation
      BY <2>0, StackFacts DEF StackInv, IntentEvent
    <3>2. ~broken => sent # <<>> /\ Follows(Last, e)
      BY <2>0, <3>1 DEF HistoryInv, LastInv, Follows
    <3> HIDE DEF e
    <3>3. /\ LegalHistory' /\ (sent' # <<>> => Last'.op <= ordinal)
          /\ ~broken' => sent' # <<>> /\ Last' = e
      BY <1>0, <2>1, <3>1, <3>2, HistorySend DEF e
    <3> QED BY <1>0, <2>0, <2>1, <3>1, <3>3 DEF HistoryInv, LastInv
  <2>2. CASE failed' = TRUE /\ pc' = "idle" /\ sent' = sent
    BY <1>0, <2>0, <2>2, HistoryKept DEF HistoryInv, LastInv
  <2> QED BY <1>8, <2>1, <2>2 DEF Prepare, Return
<1>9. CASE IntentAcknowledged \/ IntentRefused
  <2>1. /\ pc = "intent" /\ (pc' = "spawn" \/ (pc' = "idle" /\ failed' = TRUE))
        /\ sent' = sent /\ ordinal' = ordinal /\ operation' = operation
    <3>1. ASSUME ExchangeOk \/ ExchangeErr PROVE sent' = sent
      BY <3>1 DEF ExchangeOk, ExchangeErr, Receive, Break
    <3>2. CASE IntentAcknowledged  BY <3>1, <3>2 DEF IntentAcknowledged
    <3>3. CASE IntentRefused  BY <3>1, <3>3 DEF IntentRefused, Return
    <3> QED BY <1>9, <3>2, <3>3
  <2> QED BY <1>0, <2>1, HistoryKept DEF HistoryInv, LastInv
<1>10. CASE SpawnChild \/ SpawnFails
  <2>1. PICK t \in {"spawned", "spawn_failed"} : Send(Event(t, final.op)) /\ pc' = t
    BY <1>10 DEF SpawnChild, SpawnFails
  <2>2. pc = "spawn" /\ phase = "prepared" /\ ordinal' = ordinal /\ operation' = operation
    BY <1>10 DEF SpawnChild, SpawnFails
  <2>3. final.op \in Ordinals /\ final.op = operation  BY <2>2, StackFacts DEF StackInv
  <2>4. ~broken => sent # <<>> /\ Follows(Last, Event(t, final.op))
    BY <2>2, <2>3 DEF HistoryInv, LastInv, Follows, Event
  <2> QED BY <1>0, <1>4, <2>1, <2>2, <2>3, <2>4 DEF HistoryInv, LastInv, EventTypes
<1>11. CASE SpawnFailedAnswered \/ SpawnedAcknowledged \/ SpawnedRefused
  <2>1. /\ \/ pc = "spawn_failed" /\ pc' = "idle"
           \/ pc = "spawned" /\ pc' \in {"owned", "cancel"}
        /\ sent' = sent /\ ordinal' = ordinal /\ operation' = operation
    BY <1>11 DEF SpawnFailedAnswered, SpawnedAcknowledged, SpawnedRefused, Notified, Return,
       ExchangeOk, ExchangeErr, Receive, Break
  <2> QED BY <1>0, <2>1, HistoryKept DEF HistoryInv, LastInv
<1>12. CASE Wait \/ RetainedWait
  <2>1. PICK t \in {"completed", "cancelled"} :
          Reap(t, t) /\ phase = "spawned" /\ pc \in {"owned", "cancel"}
    BY <1>12 DEF Wait, RetainedWait
  <2>2. Send(Event(t, final.op)) /\ pc' = t /\ ordinal' = ordinal /\ operation' = operation
    BY <2>1 DEF Reap
  <2>3. final.op \in Ordinals /\ final.op = operation  BY <2>1, StackFacts DEF StackInv
  <2>4. ~broken => sent # <<>> /\ Follows(Last, Event(t, final.op))
    BY <2>1, <2>3 DEF HistoryInv, LastInv, Follows, Event
  <2> QED BY <1>0, <1>4, <2>2, <2>3, <2>4 DEF HistoryInv, LastInv, EventTypes
<1>13. CASE CompletedAnswered \/ CancelledAnswered
  <2>1. /\ \/ pc = "completed" /\ pc' = "idle"
           \/ pc = "cancelled" /\ pc' = "idle" /\ failed' = TRUE
        /\ sent' = sent /\ ordinal' = ordinal /\ operation' = operation
    BY <1>13 DEF CompletedAnswered, CancelledAnswered, Notified, Return,
       ExchangeOk, ExchangeErr, Receive, Break
  <2> QED BY <1>0, <2>1, HistoryKept DEF HistoryInv, LastInv
<1>14. CASE OutputOverflow \/ CancelOwned
  <2>1. /\ pc = "owned" /\ pc' \in {"owned", "cancel"}
        /\ sent' = sent /\ ordinal' = ordinal /\ operation' = operation
    BY <1>14 DEF OutputOverflow, CancelOwned
  <2> QED BY <1>0, <2>1, HistoryKept DEF HistoryInv, LastInv
<1>15. CASE (\E n \in Ordinals : ChildExits(n)) \/ SupervisorReplies \/ UNCHANGED vars
  <2>1. /\ pc' = pc /\ sent' = sent /\ ordinal' = ordinal /\ operation' = operation
        /\ broken' = broken /\ failed' = failed /\ phase' = phase /\ awaiting' = awaiting
    BY <1>15 DEF ChildExits, SupervisorReplies, vars
  <2> QED BY <1>0, <2>1, HistoryKept DEF HistoryInv, LastInv
<1> QED
  BY <1>1, <1>2, <1>3, <1>5, <1>6, <1>7, <1>8, <1>9, <1>10, <1>11, <1>12, <1>13, <1>14, <1>15
     DEF Next, Launching, Owning, Finished

(* The supervisor sees a legal history, whatever it answers and wherever   *)
(* the channel fails.                                                      *)
THEOREM HistoryAlwaysLegal == Spec => []LegalHistory
<1>1. Init => HistoryInv
  BY DEF Init, HistoryInv, LastInv, LegalHistory
<1>2. TypeOK /\ StackInv /\ FenceInv /\ HistoryInv /\ [Next]_vars => HistoryInv'
  BY HistoryStep
<1>3. IInv => TypeOK /\ StackInv /\ FenceInv  BY DEF IInv
<1>4. HistoryInv => LegalHistory  BY DEF HistoryInv
<1> QED BY <1>1, <1>2, <1>3, <1>4, Invariance, PTL DEF Spec

-----------------------------------------------------------------------------
(* The retained records *)

UnderWay == {"prepare", "intent", "spawn", "spawn_failed", "spawned", "owned", "cancel",
             "completed", "cancelled"}

Agrees(r) ==
  /\ r.started <=> process[r.ordinal] = "reaped"
  /\ r.outcome = "exit" <=> process[r.ordinal] = "reaped"

(* Every record but that of a child under way agrees with its child; it is *)
(* the last one, and all others are of earlier operations.                 *)
RecordInv ==
  /\ pc \in {"route", "routed"} => current \in {0, Len(operations) + 1}
  /\ pc \in UnderWay => current \in {0, Len(operations)}
  /\ pc = "routed" => operation = ordinal
  /\ \A k \in 1..Len(operations) :
       /\ operations[k].ordinal <= operation
       /\ pc = "routed" \/ (pc \in UnderWay /\ k # current) => operations[k].ordinal < operation
       /\ pc \in UnderWay /\ k = current => operations[k].ordinal = operation
       /\ (pc \in {"spawned", "owned", "cancel"} /\ k = current) \/ Agrees(operations[k])
  /\ pc = "spawn_failed" => process[operation] = "none"

LEMMA MarkEffect ==
  ASSUME operations \in Seq(OperationRecords), NEW s \in BOOLEAN,
         NEW o \in {"open", "no_status", "exit"}, Mark(s, o)
  PROVE  /\ Len(operations') = Len(operations)
         /\ \A k \in 1..Len(operations) :
              /\ k # current => operations'[k] = operations[k]
              /\ operations'[k].ordinal = operations[k].ordinal
              /\ k = current => operations'[k].started = s /\ operations'[k].outcome = o
<1>1. CASE current = 0  BY <1>1 DEF Mark
<1>2. CASE current # 0
  <2> DEFINE r == [operations[current] EXCEPT !.started = s, !.outcome = o]
  <2>1. operations' = [operations EXCEPT ![current] = r]  BY <1>2 DEF Mark
  <2>2. ASSUME current \in 1..Len(operations)
        PROVE  r.ordinal = operations[current].ordinal /\ r.started = s /\ r.outcome = o
    <3>1. operations[current] \in OperationRecords  BY <2>2
    <3> QED BY <3>1 DEF OperationRecords
  <2> HIDE DEF r
  <2> QED BY <2>1, <2>2
<1> QED BY <1>1, <1>2

(* A step that touches no record, and makes no child of a record one that  *)
(* was waited for, keeps their agreement.                                  *)
LEMMA RecordsKept ==
  ASSUME RecordInv, TypeOK, operations' = operations, operation' = operation,
         \A n \in Ordinals : process'[n] = "reaped" <=> process[n] = "reaped"
  PROVE  \A k \in 1..Len(operations) : Agrees(operations[k]) => Agrees(operations[k])'
<1> SUFFICES ASSUME NEW k \in 1..Len(operations), Agrees(operations[k])
             PROVE  Agrees(operations[k])'
  OBVIOUS
<1>1. operations[k] \in OperationRecords  BY DEF TypeOK, SessionTypeOK
<1>2. operations[k].ordinal \in Ordinals  BY <1>1 DEF OperationRecords
<1> QED BY <1>2 DEF Agrees

LEMMA RecordStep ==
  ASSUME IInv, HistoryInv, RecordInv, [Next]_vars
  PROVE  RecordInv'
<1> USE DEF chanVars, obsVars, sessVars, procVars, UnderWay
<1>0. /\ TypeOK /\ StackInv /\ ChildInv /\ operations \in Seq(OperationRecords)
      /\ operation \in Nat /\ Len(operations) \in Nat /\ current \in Nat
      /\ \A k \in 1..Len(operations) : operations[k].ordinal \in Ordinals
  <2>1. TypeOK /\ StackInv /\ ChildInv  BY DEF IInv
  <2>2. /\ operations \in Seq(OperationRecords) /\ operation \in Nat /\ current \in Nat
    BY <2>1, ConstantsAssumption DEF TypeOK, ObserverTypeOK, SessionTypeOK, ConstantsAssumption
  <2>3. \A r \in OperationRecords : r.ordinal \in Ordinals  BY DEF OperationRecords
  <2> QED BY <2>1, <2>2, <2>3
<1>k. ASSUME operations' = operations, operation' = operation, process' = process
      PROVE  \A k \in 1..Len(operations) : Agrees(operations[k]) => Agrees(operations[k])'
  BY <1>0, <1>k, RecordsKept
<1>1. CASE Begin \/ BeginReferenceCheck
  <2>1. /\ pc = "idle" /\ operations' = operations /\ operation' = operation /\ process' = process
        /\ pc' \in {"idle", "route", "unavailable"}
        /\ pc' = "route" => current' \in {0, Len(operations) + 1}
    BY <1>1 DEF Begin, BeginReferenceCheck, Route
  <2> QED BY <1>k, <2>1 DEF RecordInv
<1>2. CASE RouteAccepted
  <2>1. /\ pc = "route" /\ pc' = "routed" /\ operations' = operations /\ current' = current
        /\ process' = process /\ operation' = operation + 1 /\ ordinal' = ordinal
    BY <1>2 DEF RouteAccepted
  <2>2. ordinal = operation + 1  BY <2>1 DEF HistoryInv, StackInv, Event, IInv
  <2>3. \A k \in 1..Len(operations) : Agrees(operations[k])'
    BY <2>1 DEF RecordInv, Agrees
  <2>4. \A k \in 1..Len(operations) : operations[k].ordinal <= operation
    BY DEF RecordInv
  <2>5. \A n \in Ordinals : n \in Nat  BY DEF Ordinals
  <2>6. \A k \in 1..Len(operations) : operations[k].ordinal < operation + 1
    BY <1>0, <2>4, <2>5
  <2>7. \A k \in 1..Len(operations) : operations[k].ordinal <= operation + 1
    BY <1>0, <2>4, <2>5
  <2> QED BY <2>1, <2>2, <2>3, <2>6, <2>7 DEF RecordInv
<1>3. CASE RouteRejected \/ NotifyUnavailable \/ UnavailableAnswered
  <2>1. /\ pc' \in {"fenced", "unavailable", "idle"} /\ pc \in {"route", "fenced", "unavailable"}
        /\ operations' = operations /\ process' = process /\ operation' = operation
    BY <1>3 DEF RouteRejected, NotifyUnavailable, UnavailableAnswered, Return
  <2> QED BY <1>k, <2>1 DEF RecordInv
<1>4. CASE RecordOperation
  <2>1. /\ pc = "routed" /\ phase = "routed" /\ current' = current /\ process' = process
        /\ operation' = operation /\ ordinal = operation
    BY <1>0, <1>4 DEF RecordOperation, StackInv, RecordInv
  <2>2. CASE pc' = "idle" /\ operations' = operations
    BY <1>k, <2>1, <2>2 DEF RecordInv
  <2>3. CASE pc' = "prepare" /\ current = 0 /\ operations' = operations
    BY <1>k, <2>1, <2>3 DEF RecordInv
  <2>4. CASE pc' = "prepare" /\ current # 0 /\ operations' = Append(operations, Record(ordinal))
    <3>1. /\ Len(operations') = Len(operations) + 1 /\ current = Len(operations) + 1
          /\ \A k \in 1..Len(operations) : operations'[k] = operations[k]
          /\ operations'[Len(operations) + 1] = Record(ordinal)
      BY <1>0, <2>1, <2>4 DEF RecordInv
    <3>2. process[operation] = "none"  BY <1>0, <2>1 DEF ChildInv
    <3>3. \A k \in 1..Len(operations) :
            /\ operations[k].ordinal < operation /\ operations[k].ordinal <= operation
            /\ Agrees(operations[k])
      BY <2>1 DEF RecordInv
    <3>4. Record(ordinal).ordinal = operation /\ Agrees(Record(ordinal))
      BY <2>1, <3>2 DEF Record, Agrees
    <3>5. \A k \in 1..Len(operations') : k \in 1..Len(operations) \/ k = Len(operations) + 1
      BY <1>0, <3>1
    <3>6. \A k \in 1..Len(operations') : Agrees(operations[k])'
      BY <2>1, <3>1, <3>3, <3>4, <3>5 DEF Agrees
    <3>7. \A k \in 1..Len(operations') :
            /\ operations'[k].ordinal <= operation
            /\ k # current => operations'[k].ordinal < operation
            /\ k = current => operations'[k].ordinal = operation
      BY <1>0, <3>1, <3>3, <3>4, <3>5
    <3> QED BY <2>1, <2>4, <3>1, <3>6, <3>7 DEF RecordInv
  <2> QED BY <1>4, <2>2, <2>3, <2>4 DEF RecordOperation, Return
<1>5. CASE Prepare \/ IntentAcknowledged \/ IntentRefused
  <2>1. /\ pc \in {"prepare", "intent"} /\ pc' \in {"idle", "intent", "spawn"}
        /\ operations' = operations /\ process' = process /\ operation' = operation
        /\ current' = current
    BY <1>5 DEF Prepare, IntentAcknowledged, IntentRefused, Return
  <2> QED BY <1>k, <2>1 DEF RecordInv
<1>6. CASE SpawnChild
  <2>1. /\ pc = "spawn" /\ pc' = "spawned" /\ operations' = operations /\ operation' = operation
        /\ current' = current /\ process' = [process EXCEPT ![final.op] = "running"]
        /\ final.op = operation
    BY <1>0, <1>6 DEF SpawnChild, StackInv
  <2>2. ASSUME NEW k \in 1..Len(operations), k # current PROVE Agrees(operations[k])'
    <3>1. operations[k].ordinal < operation /\ Agrees(operations[k])  BY <2>1, <2>2 DEF RecordInv
    <3>2. operations[k].ordinal # operation  BY <1>0, <3>1 DEF Ordinals
    <3> QED BY <2>1, <3>1, <3>2 DEF Agrees
  <2> QED BY <2>1, <2>2 DEF RecordInv
<1>7. CASE SpawnFails
  <2>1. /\ pc = "spawn" /\ pc' = "spawn_failed" /\ operations' = operations
        /\ operation' = operation /\ current' = current /\ process' = process
        /\ process[operation] = "none"
    BY <1>0, <1>7 DEF SpawnFails, ChildInv
  <2> QED BY <1>k, <2>1 DEF RecordInv
<1>8. ASSUME NEW s \in BOOLEAN, NEW o \in {"open", "no_status", "exit"}, Mark(s, o),
             pc \in UnderWay, operation' = operation, current' = current,
             \A n \in Ordinals : n # operation => process'[n] = process[n],
             pc' \in {"owned", "cancel"} \/
               /\ pc' \in {"idle", "completed", "cancelled"}
               /\ s <=> process'[operation] = "reaped"
               /\ o = "exit" <=> process'[operation] = "reaped"
      PROVE  RecordInv'
  <2>1. /\ Len(operations') = Len(operations)
        /\ \A k \in 1..Len(operations) :
             /\ k # current => operations'[k] = operations[k]
             /\ operations'[k].ordinal = operations[k].ordinal
             /\ k = current => operations'[k].started = s /\ operations'[k].outcome = o
    BY <1>0, <1>8, MarkEffect
  <2>2. ASSUME NEW k \in 1..Len(operations), k # current PROVE Agrees(operations[k])'
    <3>1. operations[k].ordinal < operation /\ Agrees(operations[k])
      BY <1>8, <2>2 DEF RecordInv
    <3>2. operations[k].ordinal # operation  BY <1>0, <3>1 DEF Ordinals
    <3>3. process'[operations[k].ordinal] = process[operations[k].ordinal]
      BY <1>0, <1>8, <3>2
    <3> QED BY <2>1, <2>2, <3>1, <3>3 DEF Agrees
  <2>3. ASSUME NEW k \in 1..Len(operations), k = current, pc' \notin {"owned", "cancel"}
        PROVE  Agrees(operations[k])'
    <3>1. operations'[k].ordinal = operation  BY <1>8, <2>1, <2>3 DEF RecordInv
    <3> QED BY <1>8, <2>1, <2>3, <3>1 DEF Agrees
  <2>4. \A k \in 1..Len(operations') :
          /\ operations'[k].ordinal <= operation
          /\ k # current => operations'[k].ordinal < operation
          /\ k = current => operations'[k].ordinal = operation
    BY <1>8, <2>1 DEF RecordInv
  <2>5. pc' \in {"owned", "cancel", "idle", "completed", "cancelled"} /\ current \in {0, Len(operations)}
    BY <1>8 DEF RecordInv
  <2> QED BY <1>8, <2>1, <2>2, <2>3, <2>4, <2>5 DEF RecordInv
<1>9. CASE SpawnFailedAnswered
  <2>1. process[operation] = "none"  BY <1>9 DEF SpawnFailedAnswered, RecordInv
  <2> QED BY <1>8, <1>9, <2>1 DEF SpawnFailedAnswered, Return
<1>10. CASE SpawnedAcknowledged \/ SpawnedRefused
  BY <1>8, <1>10 DEF SpawnedAcknowledged, SpawnedRefused
<1>11. CASE Wait \/ RetainedWait
  <2>1. PICK t \in {"completed", "cancelled"} :
          Reap(t, t) /\ phase = "spawned" /\ pc \in {"owned", "cancel"}
    BY <1>11 DEF Wait, RetainedWait
  <2>2. final.op = operation /\ final.op \in Ordinals  BY <1>0, <2>1, StackFacts DEF StackInv
  <2>3. process' = [process EXCEPT ![operation] = "reaped"]  BY <2>1, <2>2 DEF Reap
  <2>4. process'[operation] = "reaped" /\ \A n \in Ordinals : n # operation => process'[n] = process[n]
    BY <1>0, <2>2, <2>3 DEF TypeOK
  <2>5. Mark(TRUE, "exit") /\ operation' = operation /\ current' = current /\ pc' = t
    BY <2>1 DEF Reap
  <2> QED BY <1>8, <2>1, <2>4, <2>5
<1>12. CASE CompletedAnswered \/ CancelledAnswered
  <2>1. /\ pc \in {"completed", "cancelled"} /\ pc' = "idle" /\ operations' = operations
        /\ process' = process /\ operation' = operation
    BY <1>12 DEF CompletedAnswered, CancelledAnswered, Return
  <2> QED BY <1>k, <2>1 DEF RecordInv
<1>13. CASE OutputOverflow \/ CancelOwned
  <2>1. /\ pc = "owned" /\ pc' \in {"owned", "cancel"} /\ operations' = operations
        /\ process' = process /\ operation' = operation /\ current' = current
    BY <1>13 DEF OutputOverflow, CancelOwned
  <2> QED BY <1>k, <2>1 DEF RecordInv
<1>14. CASE \E n \in Ordinals : ChildExits(n)
  <2>1. PICK n \in Ordinals : process[n] = "running" /\ process' = [process EXCEPT ![n] = "exited"]
    BY <1>14 DEF ChildExits
  <2>2. /\ pc' = pc /\ operations' = operations /\ operation' = operation /\ current' = current
        /\ ordinal' = ordinal
    BY <1>14 DEF ChildExits
  <2>3. \A m \in Ordinals : process'[m] = "reaped" <=> process[m] = "reaped"
    BY <1>0, <2>1 DEF TypeOK
  <2>4. process[operation] = "none" => process'[operation] = "none"
    BY <2>1
  <2>5. \A k \in 1..Len(operations) : Agrees(operations[k]) => Agrees(operations[k])'
    BY <1>0, <2>2, <2>3, RecordsKept
  <2> QED BY <2>2, <2>4, <2>5 DEF RecordInv
<1>15. CASE SupervisorReplies \/ UNCHANGED vars
  <2>1. /\ pc' = pc /\ operations' = operations /\ operation' = operation /\ current' = current
        /\ ordinal' = ordinal /\ process' = process
    BY <1>15 DEF SupervisorReplies, vars
  <2> QED BY <1>k, <2>1 DEF RecordInv
<1> QED
  BY <1>1, <1>2, <1>3, <1>4, <1>5, <1>6, <1>7, <1>9, <1>10, <1>11, <1>12, <1>13, <1>14, <1>15
     DEF Next, Launching, Owning, Finished

(* When a call has returned, what the session retains of an operation is   *)
(* what happened to its child, for any number of operations.               *)
THEOREM RecordsAlwaysAgree == Spec => []RecordsAgree
<1>1. Init => HistoryInv /\ RecordInv
  BY ConstantsAssumption
     DEF Init, HistoryInv, LastInv, LegalHistory, RecordInv, UnderWay, ConstantsAssumption
<1>2. IInv /\ HistoryInv /\ RecordInv /\ [Next]_vars => (HistoryInv /\ RecordInv)'
  BY HistoryStep, RecordStep DEF IInv
<1>3. RecordInv => RecordsAgree  BY DEF RecordInv, RecordsAgree, Agrees
<1> QED BY <1>1, <1>2, <1>3, Invariance, PTL DEF Spec
=============================================================================
