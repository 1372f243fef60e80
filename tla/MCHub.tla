-------------------------------- MODULE MCHub --------------------------------
(***************************************************************************)
(* Small instances of the hub's run queue for TLC.                         *)
(***************************************************************************)
EXTENDS HubRuns

RunPrompt == {"a"}
DirectPrompt == {"b"}
Prompts == RunPrompt \cup DirectPrompt

AllUpsets == {"direct", "edit", "timeout", "end session", "stop hub",
              "crash", "failure", "drain"}
=============================================================================
