----------------------------- MODULE MCRuntime -----------------------------
(***************************************************************************)
(* Instances of Runtime for TLC.                                           *)
(***************************************************************************)
EXTENDS Runtime, TLC

CONSTANTS tech, project, risk, report \* agents

ThreeSpecialists == {tech, project, risk}
ParallelOrNot ==
    {<<{tech, project}, {report}>>, <<{tech}, {project}, {risk}, {report}>>}
OneOrAll == {<<project>>, <<report, project, tech>>}

Coroutines == {tech, report}
ScopesOfThem == tech :> {"control", "agent:tech"} @@ report :> {"terminal"}
=============================================================================
