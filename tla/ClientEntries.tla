--------------------------- MODULE ClientEntries ---------------------------
(***************************************************************************)
(* What agent-mem puts into the configuration of an editor and takes out   *)
(* of it: a session hook (src/lifecycle.rs) or an MCP server               *)
(* (src/installer.rs).  A configuration with hooks is                      *)
(*   enabled   hooks.enabled of ZCode: "on", "off" or "absent"             *)
(*   events    event name -> entries, each a sequence of hooks, or None    *)
(* where a hook is the binary it runs, or Foreign.  One with servers is    *)
(*   shape     of the container: "absent", "object", "list", "other" or    *)
(*             "toml"                                                      *)
(*   ours      the binary that runs as the server agent-mem, None, or      *)
(*             Mentioned, for a header that is not a line of its own       *)
(*   others    whether it has other servers                                *)
(*   comments  whether it has comments                                     *)
(* Empty objects are as absent ones, and all other settings are left out.  *)
(***************************************************************************)
EXTENDS Integers, Sequences, SequencesExt, Filtering

CONSTANTS
  Foreign,    \* a hook that is not ours
  None, Mentioned,
  Events      \* the names of events

----------------------------------------------------------------------------
(* Session hooks.                                                          *)

Start == "SessionStart"

Hook == Nat \cup {Foreign}

HookConfig ==
  [enabled : {"on", "off", "absent"},
   events : [Events -> Seq(Seq(Hook)) \cup {None}]]

NoEvents == [e \in Events |-> None]

Entries(c) == IF c.events[Start] = None THEN <<>> ELSE c.events[Start]

WithStart(c, entries) == [c EXCEPT !.events[Start] = entries]

\* An entry is ours if any of its hooks is.
Owned(entry) == \E i \in DOMAIN entry : entry[i] # Foreign

NotOwned(entries) == Filtered(entries, {e \in ToSet(entries) : ~Owned(e)})

\* install_session_hooks writes nothing if its one entry is already there.
HookThere(c, binary) ==
  Filtered(Entries(c), {e \in ToSet(Entries(c)) : Owned(e)}) = << <<binary>> >>

WithHook(client, c, binary) ==
  WithStart(IF client = "zcode" THEN [c EXCEPT !.enabled = "on"] ELSE c,
            Append(NotOwned(Entries(c)), <<binary>>))

\* cleanup_empty, then restore_enabled_state from the backup.
Cleaned(c) ==
  [c EXCEPT !.events = [e \in Events |-> IF @[e] = <<>> THEN None ELSE @[e]]]

WithoutHook_LeavesEnabled(client, c, backup) == Cleaned(WithStart(c, NotOwned(Entries(c))))

WithoutHook(client, c, backup) ==
  LET cleaned == Cleaned(WithStart(c, NotOwned(Entries(c)))) IN
  IF client = "zcode" /\ cleaned.events = NoEvents
  THEN [cleaned EXCEPT !.enabled = IF backup = None THEN "absent" ELSE backup.enabled]
  ELSE cleaned

----------------------------------------------------------------------------
(* MCP servers.                                                            *)

ServerConfig(client) ==
  [shape : IF client = "codex" THEN {"toml"} ELSE {"absent", "object", "list", "other"},
   ours : Nat \cup {None} \cup (IF client = "codex" THEN {Mentioned} ELSE {}),
   others : BOOLEAN, comments : BOOLEAN]

\* install_to_path: a container of another shape is replaced.
WithServer(client, c, binary) ==
  CASE client = "codex" -> [c EXCEPT !.ours = binary]
    [] client = "continue" ->
         [c EXCEPT !.ours = binary, !.comments = FALSE,
                   !.shape = IF @ = "object" THEN "object" ELSE "list",
                   !.others = @ /\ c.shape # "other"]
    [] OTHER ->
         [c EXCEPT !.ours = binary, !.comments = FALSE, !.shape = "object",
                   !.others = @ /\ c.shape = "object"]

\* uninstall_from_path.
ServerThere_OnlyObjects(client, c) == c.ours \notin {None, Mentioned} /\ c.shape # "list"

ServerThere(client, c) == c.ours \notin {None, Mentioned}

WithoutServer(client, c) ==
  [c EXCEPT !.ours = None, !.comments = client = "codex" /\ @]

\* check_client_status.
Configured(client, c) ==
  CASE client = "codex" -> c.ours # None
    [] client = "continue" -> c.ours # None /\ c.shape \in {"object", "list"}
    [] OTHER -> c.ours # None /\ c.shape = "object"
=============================================================================
