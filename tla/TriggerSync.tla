---------------------------- MODULE TriggerSync -----------------------------
(***************************************************************************)
(* The trigger controller of charts/events (hooks/sync.py): the two hooks  *)
(* that metacontroller calls for an EventSource, and the Sensor it keeps   *)
(* as the hooks say.                                                       *)
(*                                                                         *)
(* External: metacontroller asks `customize` which triggers matter, hands  *)
(* them to `sync`, then makes the Sensor like the child it was given, or   *)
(* deletes it if it was given none; an answer is an answer, whatever       *)
(* "error" its status holds.                                               *)
(*                                                                         *)
(* Abstractions.  Names of triggers differ.  A trigger's eventName is the  *)
(* EventSource's; one that names another waits for events that never come. *)
(***************************************************************************)
EXTENDS Naturals

CONSTANTS
    TriggerNames,
    TriggerSpecs,  \* what people write into triggers
    SourceTypes,   \* the keys of the EventSource's spec
    Beamline,      \* its label, or Nil
    Nil,           \* no object, no value
    MaxEdits       \* bound: edits of triggers

VARIABLES
    triggers,   \* triggers[n]: a trigger of the cluster, or Nil
    edits,      \* counter for the bound
    answer,     \* the answer of the hooks that is being applied, or Nil
    sensor,     \* the dependencies of the Sensor, or Nil: there is no Sensor
    basis       \* history: the triggers the Sensor was made from

sync_vars == <<triggers, edits, answer, sensor, basis>>

EventsNamespace == "events"

\* customize: the label selector; a generic source is called "message-bus" there.
Customize ==
    IF SourceTypes = {} \/ Beamline = Nil THEN [beamline |-> {}, source |-> {}]
    ELSE [beamline |-> {Beamline},
          source |-> {IF x = "generic" THEN "message-bus" ELSE x : x \in SourceTypes}]

\* The related triggers of an EventSource.
Related(ts) ==
    {n \in TriggerNames : ts[n] # Nil /\ ts[n].beamline \in Customize.beamline
                                       /\ ts[n].source \in Customize.source}

\* Mutant: events of every visit.
AnySession(n, t) ==
    [name |-> n, type |-> IF t.source = "generic" THEN t.triggerOnMessageType ELSE Nil, session |-> Nil]

\* A dependency and its data filters, Nil where there is none.  The filter on the
\* message type is for the source "generic".
Dependency(n, t) ==
    [name |-> n,
     type |-> IF t.source = "generic" THEN t.triggerOnMessageType ELSE Nil,
     session |-> IF t.namespace = EventsNamespace THEN Nil ELSE t.namespace]

\* A Sensor, whatever its dependencies, is not no Sensor.
ASSUME NilIsNoSensor == \A ds \in SUBSET {Dependency(n, t) : n \in TriggerNames, t \in TriggerSpecs} : ds # Nil

\* sync: one trigger that cannot be parsed, and there are no children.
Sync(ts) ==
    IF \E n \in Related(ts) : ~ts[n].valid THEN Nil
    ELSE {Dependency(n, ts[n]) : n \in {k \in Related(ts) : ts[k].enabled}}

\* Metacontroller calls the hooks, after a change or just to be sure.
CallHooks ==
    /\ answer = Nil
    /\ answer' = [from |-> triggers, child |-> Sync(triggers)]
    /\ UNCHANGED <<triggers, edits, sensor, basis>>

\* The Sensor is created, updated in place or deleted; or the request fails, and
\* metacontroller starts again.
ApplyChildren ==
    /\ answer # Nil
    /\ \/ sensor' = answer.child /\ basis' = answer.from
       \/ UNCHANGED <<sensor, basis>>
    /\ answer' = Nil
    /\ UNCHANGED <<triggers, edits>>

\* A trigger is created, changed or deleted: by kubectl, through the graph, or by
\* Kyverno when its lifetime is over.
TriggerEdited(n, t) ==
    /\ edits < MaxEdits /\ triggers[n] # t
    /\ triggers' = [triggers EXCEPT ![n] = t]
    /\ edits' = edits + 1
    /\ UNCHANGED <<answer, sensor, basis>>

NoTriggers == [n \in TriggerNames |-> Nil]

SyncInit == triggers = NoTriggers /\ edits = 0 /\ answer = Nil /\ sensor = Nil /\ basis = NoTriggers
=============================================================================
