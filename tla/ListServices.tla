---------------------------- MODULE ListServices ----------------------------
(***************************************************************************)
(* The services that work on lists, on the slots of the services: the      *)
(* planner of a run, the tools its agents are offered, and the local tools *)
(* that read the lines of a resume.                                        *)
(***************************************************************************)
EXTENDS Slots

CONSTANTS \* planning
          RunTypes, Revisions, Policies, Caps, Weighs, Proposals,
          \* tools offered
          Defs, Requested, Route, Contexts, Streams,
          \* local tools
          Lines, MaxLines, Claims, Reports, Now

Planning == INSTANCE Coordinator WITH
    request <- s1, signals <- s2, phase <- s3, plan <- s4, weigh <- s5,
    cap <- s6, quota <- s7
Surface == INSTANCE ToolSurface WITH
    Answers <- Streams,
    context <- s1, live <- s2, definitions <- s3, agent <- s4, offered <- s5,
    aliases <- s6, exposed <- s7, meant <- s8, got <- s9, at <- s10,
    ran <- s11
Builtin == INSTANCE BuiltinTools WITH
    resume <- s1, claims <- s2, draft <- s3, result <- s4
==============================================================================
