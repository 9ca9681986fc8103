----------------------------- MODULE MC_Events ------------------------------
(* Model of Events: two triggers, of this visit, of any visit, and of those that
   must not fire; more messages where there are no triggers; pauses around the age
   limit of the dictionary. *)
EXTENDS Events

MCPauses == {11, 3600}
Interchangeable == Permutations(Uids) \cup Permutations(TriggerNames)

Plain == [valid |-> TRUE, enabled |-> TRUE, beamline |-> "i15-1", source |-> "message-bus",
          namespace |-> EventsNamespace, triggerOnMessageType |-> Nil]

MCSpecs == {
    [Plain EXCEPT !.namespace = Visit],
    [Plain EXCEPT !.triggerOnMessageType = "stop"],
    [Plain EXCEPT !.namespace = "other-visit"],
    [Plain EXCEPT !.enabled = FALSE],
    [Plain EXCEPT !.valid = FALSE],
    [Plain EXCEPT !.beamline = "b01-1", !.valid = FALSE],
    [Plain EXCEPT !.source = "webhook"] }

MCSourceTypes == {"generic"}
=============================================================================
