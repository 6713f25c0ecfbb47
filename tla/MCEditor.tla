------------------------------ MODULE MCEditor ------------------------------
(* The instance of EditorConfig for TLC: the two clients with hooks and one *)
(* of each way to keep servers, with the contents that differ for them.     *)
EXTENDS EditorConfig, TLC

TwoHookClients == <<"zcode", "claude-code">>
ThreeServerClients == <<"codex", "cursor", "continue">>

Hooks(enabled, events) == [enabled |-> enabled, events |-> events @@ NoEvents]
Servers(shape, ours, others, comments) ==
  [shape |-> shape, ours |-> ours, others |-> others, comments |-> comments]

Theirs == <<Foreign>>
SomeSettings ==
  [c \in {"zcode", "claude-code", "codex", "cursor", "continue"} |->
     CASE c = "zcode" ->
            {Hooks("off", <<>>), Hooks("absent", Start :> <<Theirs, Theirs>>),
             Hooks("off", Start :> <<>> @@ "Stop" :> <<Theirs>>)}
       [] c = "claude-code" ->
            {Hooks("absent", "Stop" :> <<Theirs>> @@ Start :> << <<0>>, Theirs>>)}
       [] c = "codex" -> {Servers("toml", ours, TRUE, TRUE) : ours \in {None, Mentioned}}
       [] c = "continue" ->
            {Servers("object", None, TRUE, TRUE), Servers("list", 0, TRUE, FALSE)}
       [] OTHER ->
            {Servers("list", None, TRUE, FALSE)}]

NoSettings ==
  [c \in {"zcode", "claude-code", "codex", "cursor", "continue"} |->
     CASE c \in {"zcode", "claude-code"} -> Hooks("absent", <<>>)
       [] c = "codex" -> Servers("toml", None, FALSE, FALSE)
       [] OTHER -> Servers("absent", None, FALSE, FALSE)]
=============================================================================
