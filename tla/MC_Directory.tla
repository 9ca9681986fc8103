---------------------------- MODULE MC_Directory ----------------------------
(* Model of Directory: one session, whose LDAP group exists under two spellings,
   on a branch that its beamline's staff may enter or on another beamline. *)
EXTENDS Directory

MCGroupNames == {<<"i15", 0>>, <<"session", "_">>, <<"session", "-">>}
MCStatic == <<[visits |-> {1, 2}, members |-> {}], [visits |-> {2}, members |-> {"s1"}]>>
MCSubjects == {"s1", "s2"}
=============================================================================
