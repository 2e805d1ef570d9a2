---------------------------- MODULE MCAximmPath ----------------------------
(***************************************************************************)
(* Instances of AximmPath for TLC, and the tables that connect the modules *)
(* of a design to the adapters.                                            *)
(***************************************************************************)
EXTENDS AximmPath, MCDesignContext, TLC

\* Transactions with data have two flits, the others one.
DataHasTwo == [t \in Types |-> IF t \in {"W", "R"} THEN 2 ELSE 1]
OneFlit    == [t \in Types |-> 1]

\* A VC for each type, as vcs_per_type gives them.
OwnVC == [AR |-> 0, AW |-> 1, W |-> 2, R |-> 3, B |-> 4]

\* Node clocks of four adapter cycles.
FourToOne == [req |-> 4, rsp |-> 4, adapter |-> 1]

\* Example design dlrm: nodes at 5.0 and 3.32 ns, adapters at 1.25 ns.
DlrmClocks == [req |-> 500, rsp |-> 332, adapter |-> 125]

AdaptersThenTick == <<"SlaveNoc", "MasterNoc", "Tick">>
=============================================================================
