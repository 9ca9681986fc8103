---------------------------- MODULE Instruments -----------------------------
(***************************************************************************)
(* Diamond's instruments and the LDAP groups that open them                *)
(* (sessionspaces/src/instruments.rs, permissionables/{mod,                *)
(* instrument_subjects}.rs).  Instrument i15-1 is <<"i15", 1>>, i15 is     *)
(* <<"i15", 0>>; the group of its staff has the name of the instrument.    *)
(***************************************************************************)
EXTENDS Naturals

Stems == {"b01", "b07", "b16", "b18", "b21", "b22", "b23", "b24", "e01", "e02", "e03", "i02", "i03", "i04",
          "i05", "i06", "i07", "i08", "i09", "i10", "i11", "i12", "i13", "i14", "i15", "i16", "i18", "i19",
          "i20", "i21", "i22", "i23", "i24", "k11", "labxchem", "m01", "m02", "m03", "m04", "m05", "m06",
          "m07", "m08", "m10", "m11", "m12", "m13", "m14", "p02", "p29", "p32", "p33", "p38", "p45", "p51",
          "p99", "s01", "s02", "s03", "s04", "t01"}

\* Instrument.
Instrument ==
    {<<s, 0>> : s \in Stems \ {"i02"}}
        \cup {<<s, 1>> : s \in {"b01", "b07", "b24", "i02", "i04", "i05", "i06", "i08", "i09", "i10", "i11",
                                "i13", "i15", "i19", "i20"}}
        \cup {<<s, 2>> : s \in {"i02", "i06", "i09", "i19"}}

\* InstrumentGroup: dls_dasc, the staff groups, and i15-1detector as <<"i15", 1>>.
Dasc == <<"dls_dasc", 0>>
InstrumentGroup ==
    {Dasc} \cup {<<s, 0>> : s \in Stems \ {"i02", "t01"}}
           \cup {<<"b01", 1>>, <<"i02", 1>>, <<"i02", 2>>, <<"i04", 1>>, <<"i15", 1>>}

\* allowed_instruments: some stems have a staff for each branch, the others one
\* staff for all; the detector group opens its own branch only.
AllowedInstruments(g) ==
    IF g = Dasc THEN Instrument
    ELSE IF g[1] \in {"b01", "i02", "i04"} \/ g[2] # 0 THEN {g}
    ELSE {i \in Instrument : i[1] = g[1]}

\* Session::directory.
HasDirectory(i) ==
    i \notin {<<"b01", 0>>, <<"i02", 1>>, <<"i02", 2>>, <<"labxchem", 0>>, <<"p51", 0>>, <<"t01", 0>>}

\* The tables agree with each other: every instrument but the test one is open to
\* a staff group of its own, and no staff group opens another stem.
ASSUME TablesAgree ==
    /\ \A i \in Instrument \ {<<"t01", 0>>} : \E g \in InstrumentGroup \ {Dasc} : i \in AllowedInstruments(g)
    /\ \A g \in InstrumentGroup \ {Dasc} : \A i \in AllowedInstruments(g) : i[1] = g[1]
=============================================================================
