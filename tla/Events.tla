------------------------------- MODULE Events -------------------------------
(***************************************************************************)
(* From a beamline's message to a workflow: the STOMP event source         *)
(* (StompEvents), the trigger controller (TriggerSync) and the Sensor      *)
(* between them.                                                           *)
(*                                                                         *)
(* External: the Sensor (Argo Events) evaluates every event it is          *)
(* delivered against its dependencies.  The delay of the event bus is that *)
(* of the servicer's queue.  The doc of a start names the visit and what   *)
(* the workflow needs; the doc of a stop does not.                         *)
(***************************************************************************)
EXTENDS StompEvents, TriggerSync

CONSTANTS
    Visit,      \* the session whose runs the messages are about
    MaxMixed    \* bound: messages of a behaviour in which there are triggers

\* The STOMP server's EventSource is generic and carries its beamline's label.
ASSUME StompSource == SourceTypes = {"generic"} /\ Beamline # Nil

\* A visit has a name, and a trigger lives in a namespace.
ASSUME Namespaced == Visit # Nil /\ \A t \in TriggerSpecs : t.namespace # Nil

VARIABLE log    \* history: for every event delivered, what the Sensor made of it

all_vars == <<vars, sync_vars, log>>

\* body.doc.instrument_session of an event.
Session(e) == IF e.msg.name = "start" \/ e.merged THEN Visit ELSE Nil

\* The filters of a dependency; and metadata.namespace, which the workflow takes
\* from the event, must be there.
Passes(d, e) ==
    /\ d.type = Nil \/ d.type = e.msg.name
    /\ d.session = Nil \/ d.session = Session(e)
    /\ Session(e) # Nil

\* The triggers whose workflow an event starts.
Started(e) == IF sensor = Nil THEN {} ELSE {d.name : d \in {c \in sensor : Passes(c, e)}}

\* The servicer yields an event, and the Sensor gets it.
Deliver ==
    /\ Yield
    /\ log' = Append(log, [basis |-> basis, started |-> Started(Head(q))])
    /\ UNCHANGED sync_vars

Untouched == edits = 0 /\ answer = Nil /\ sensor = Nil

Source ==
    /\ Untouched \/ Len(received) < MaxMixed
    /\ \/ \E u \in Uids \cup {None} : OnStart(u) \/ OnStop(u)
       \/ \E d \in Pauses : Pause(d)
       \/ OnDisconnected
    /\ UNCHANGED <<sync_vars, log>>

Controller ==
    /\ Len(received) <= MaxMixed
    /\ \/ CallHooks \/ ApplyChildren
       \/ \E n \in TriggerNames, t \in TriggerSpecs \cup {Nil} : TriggerEdited(n, t)
    /\ UNCHANGED <<vars, log>>

EventsInit == Init /\ SyncInit /\ log = <<>>

EventsNext == Source \/ Deliver \/ Controller

EventsSpec == EventsInit /\ [][EventsNext]_all_vars

\* A trigger that is meant for this beamline's messages and this visit.
Meant(t) ==
    /\ t # Nil /\ t.valid /\ t.enabled /\ t.beamline = Beamline /\ t.source = "message-bus"
    /\ t.namespace \in {EventsNamespace, Visit}

\* A trigger of this beamline's messages that cannot be parsed.
Broken(t) == t # Nil /\ ~t.valid /\ t.beamline = Beamline /\ t.source = "message-bus"

\* A run's messages start the workflows of triggers that were meant for them when the
\* controller last looked, and of no other trigger: none of a visit, a beamline or a
\* source that is not theirs, none that is disabled or deleted, and none for a stop
\* whose start was never delivered.  Every meant trigger that asks for a message of
\* this type, or for any, gets it: the start, and the stop if it still found its
\* start.  While a trigger of the beamline cannot be parsed nothing is claimed.
Fires ==
    \A i \in DOMAIN log :
        LET e == yielded[i]
            told == e.msg.name = "start" \/ \E j \in 1..(i - 1) : yielded[j].msg = [name |-> "start", uid |-> e.msg.uid]
            meant == {n \in TriggerNames : Meant(log[i].basis[n])}
            asked == {n \in meant : log[i].basis[n].triggerOnMessageType \in {Nil, e.msg.name}}
        IN  /\ log[i].started \subseteq IF told THEN meant ELSE {}
            /\ e.msg.name = "start" \/ e.merged =>
                  asked \subseteq log[i].started \/ \E n \in TriggerNames : Broken(log[i].basis[n])

\* What the example triggers ask for (example-trigger-templates.yaml: source
\* message-bus, triggerOnMessageType stop): a workflow is started by messages of the
\* type its trigger names.  Violated: sync adds the filter for the source "generic"
\* only, a label that customize never selects.
TypeAsked ==
    \A i \in DOMAIN log : \A n \in log[i].started :
        log[i].basis[n].triggerOnMessageType \in {Nil, yielded[i].msg.name}
=============================================================================
