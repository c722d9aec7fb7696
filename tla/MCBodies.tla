------------------------------ MODULE MCBodies ------------------------------
(* The instance of Bodies that TLC explores: agents and model steps, some of *)
(* a class that may be repeated.                                             *)
EXTENDS Bodies

MCStepKinds == [type : {"model", "agent"}, repeatable : BOOLEAN]

\* An edit and a read, one start, two starts behind a read, and a call the agent
\* was not granted.
MCBatches ==
    {<<"apply_operation", "read_run">>, <<"start_run">>,
     <<"read_run", "start_run", "start_run">>, <<"decide_approval">>}
=============================================================================
