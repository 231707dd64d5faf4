-------------------------- MODULE MCShellPipeline --------------------------
(* Pipelines of the commands that differ in what they do with their ends. *)
EXTENDS ShellPipeline

TypedCommands == {<<"gen">>, <<"cat">>, <<"head">>, <<"cat", "<", "f">>,
                  <<"gen", ">", "f">>, <<"cat", "<", "missing", ">>", "f">>,
                  <<"gen", ">>", "denied">>, <<">", "f">>}
=============================================================================
