--------------------------- MODULE MCAcaLifecycle ---------------------------
(* The two inner apps, or one of them, and a run of some workflows, all of *)
(* them free to overlap.                                                   *)
EXTENDS AcaLifecycle

CONSTANTS agent, mcp, resume, shutdown, smoke, deploy

MCApps == {agent, mcp}
MCOneApp == {agent}
MCResumes == {resume}
MCShutdowns == {shutdown}
MCSmokes == {smoke}
MCDeploys == {deploy}
MCNone == {}
MCGroup == [r \in Runs |-> r]

=============================================================================
