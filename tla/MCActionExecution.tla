-------------------------- MODULE MCActionExecution ---------------------------
(* An instance of ActionExecution for TLC. *)
EXTENDS ActionExecution, TLC

CONSTANT u1, u2

\* One remote that moves and one that does not.
MCMaxCommits == u1 :> 2 @@ u2 :> 1

\* A git action and a local one whose variable fits into a spare capacity of
\* one, and a local one whose two variables do not.
MCActions == {"fromGit", "local", "large"}

MCMapping == [a \in MCActions |->
    [type |-> IF a = "fromGit" THEN "http" ELSE "custom", git |-> a = "fromGit", url |-> u1,
     env |-> IF a = "large" THEN 2 ELSE 1]]

Message(name, oldName, type) ==
    [decodes |-> TRUE, mappedAction |-> name, action |-> oldName, actionType |-> type]

MCPayloads ==
    {Message("fromGit", "unknown", "http"), Message(NoName, "local", "custom"),
     Message("large", NoName, "custom"),
     Message(NoName, NoName, "custom"), Message("unknown", "local", "custom"),
     Message("fromGit", NoName, "custom"), NoMessage}
=============================================================================
