------------------------------- MODULE MCFlakes -------------------------------
(***************************************************************************)
(* The flake reports with the quarantine that is decided by them, and the  *)
(* test reports, which have builds and a quarantine file of their own: a   *)
(* behaviour is one of them.                                               *)
(***************************************************************************)
EXTENDS Quarantine, TestReports, TLC

CONSTANTS p1, p2

VARIABLE program

\* One of the tests fails always, the other not or with it.
MCOutcomes == { [t1 |-> "failed", t2 |-> "passed"], [t1 |-> "failed", t2 |-> "failed"] }
MCPulls == {p1, p2}
Symmetric == Permutations(MCPulls)

\* The name of one of the records is part of both tests' names.
MCMatching == {<<"t", "t1">>, <<"t", "t2">>, <<"t2", "t2">>}
MCDontRun == {<<{"compute-1"}, {"t"}>>}
MCGroup == [j \in {"compute-1", "compute-2"} |-> {"virtualization", "network"}]
MCVersion == [j \in {"compute-1", "compute-2"} |-> "4.11"]
MCSig == ("t1" :> {"virtualization"} @@ "t2" :> {"network"})

vars == <<program, flakeVars, proposal, testReportVars>>

ASSUME FlakesAssumption
ASSUME QuarantineAssumption
ASSUME TestReportsAssumption

Init ==
    /\ program \in {"flakes", "test-report"}
    /\ FlakesInit /\ QuarantineInit /\ TestReportsInit
    /\ program = "flakes" => quarantined = <<"t">>

Next ==
    \/ program = "flakes" /\ QuarantineNext /\ UNCHANGED <<program, testReportVars>>
    \/ program = "test-report" /\ TestReportsNext /\ UNCHANGED <<program, flakeVars, proposal>>

Spec == Init /\ [][Next]_vars

-----------------------------------------------------------------------------
TypeOK == FlakesTypeOK /\ QuarantineTypeOK /\ TestReportsTypeOK
=============================================================================
