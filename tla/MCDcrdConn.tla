------------------------------ MODULE MCDcrdConn -----------------------------
(***************************************************************************)
(* A suitable node and two that fail at the first and the last check.      *)
(***************************************************************************)
EXTENDS DcrdConn

MCNodes == {"good", "otherchain", "oldversion"}
MCPasses(n, i) == (n = "otherchain" => i # 1) /\ (n = "oldversion" => i # 3)

Info(s, b, ibd) == [syncHeight |-> s, blocks |-> b, ibd |-> ibd]

\* Just started without peers, downloading, synced at the processed height, and
\* synced to a chain that is shorter than the processed one.
MCInfos == {Info(0, 0, TRUE), Info(2, 1, TRUE), Info(2, 2, FALSE), Info(1, 1, FALSE)}

=============================================================================
