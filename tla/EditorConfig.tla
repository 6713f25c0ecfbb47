---------------------------- MODULE EditorConfig ----------------------------
(***************************************************************************)
(* The configuration files of editors and the commands that put agent-mem  *)
(* into them and take it out (src/lifecycle.rs, src/installer.rs).  A      *)
(* command goes through its clients: it loads a file, makes the new        *)
(* content and writes it, a backup first and a rename last.  It can be     *)
(* killed at each step, users and editors write or delete the same files   *)
(* meanwhile, and agent-mem gets new versions.  Commands run one at a time.*)
(***************************************************************************)
EXTENDS ClientEntries

CONSTANTS
  HookClients,    \* sequence of clients with session hooks
  ServerClients,  \* sequence of clients with MCP servers
  Settings,       \* client -> contents that users write
  Empty,          \* client -> what an absent file stands for
  Broken,         \* a content that does not parse
  Half,           \* a file in the middle of a copy or a write
  NotKnown,
  Windows,        \* whether rename cannot replace a file
  MaxRuns,        \* bound on commands
  MaxEdits        \* bound on edits and new versions

VARIABLES
  file,      \* client -> content or None
  backup,    \* client -> content or None
  command,   \* the command under way: [pc, cmd, todo, every, plan, source]
  binary,    \* resolve_binary_command, a number for each version
  runs,
  edits,
  touched,   \* history variable: where the command was when its file was
             \* edited, since it was loaded
  first,     \* history variable: client -> its content without us, None if
             \* absent, NotKnown after what uninstall does not undo
  settled    \* history variable: client -> what was last written to its file
             \* by others or by a command that finished with it

vars == <<file, backup, command, binary, runs, edits, touched, first, settled>>

Clients == ToSet(HookClients) \cup ToSet(ServerClients)
IsHook(c) == c \in ToSet(HookClients)

\* What a file that parses can hold.  The files of hooks and of servers are
\* not the same, not even those of Claude Code.
Contents(c) == IF IsHook(c) THEN HookConfig ELSE ServerConfig(c)

ASSUME EditorAssumption ==
  /\ HookClients \in Seq(STRING) /\ ServerClients \in Seq(STRING)
  /\ ToSet(HookClients) \cap ToSet(ServerClients) = {} /\ "codex" \notin ToSet(HookClients)
  /\ Start \in Events /\ MaxRuns \in Nat /\ MaxEdits \in Nat
  /\ Foreign \notin Nat /\ None \notin Nat \cup Seq(Seq(Hook)) /\ Mentioned \notin Nat \cup {None}
  /\ None \notin {Broken, Half, NotKnown} /\ Broken \notin {Half, NotKnown} /\ Half # NotKnown
  /\ \A c \in Clients :
       /\ {None, Broken, Half, NotKnown} \cap Contents(c) = {}
       /\ Settings[c] \subseteq Contents(c) /\ Empty[c] \in Contents(c)
       /\ IF IsHook(c) THEN Empty[c] = [enabled |-> "absent", events |-> NoEvents]
          ELSE Empty[c].ours = None
Whole(x) == x \notin {None, Half, Broken}

Idle == [pc |-> "idle", cmd |-> "none", todo |-> <<>>, every |-> FALSE,
         plan |-> None, source |-> None]
Client == Head(command.todo)
At(pc) == command.pc = pc
Go(pc) == command' = [command EXCEPT !.pc = pc]

HasOurs(c, x) ==
  Whole(x) /\ IF IsHook(c) THEN \E i \in DOMAIN Entries(x) : Owned(Entries(x)[i])
              ELSE x.ours # None

\* session_hooks_status and check_client_status.
Status(c) == IF IsHook(c) THEN HasOurs(c, file[c]) ELSE Whole(file[c]) /\ Configured(c, file[c])

----------------------------------------------------------------------------
(* Which clients.                                                          *)

\* A named client, or the hook clients with a file, all of them to
\* uninstall, or every client with a server, which all are installed; to
\* uninstall, each is skipped unless it is configured when its turn comes.
Targets(cmd) ==
  {<<c>> : c \in Clients}
    \cup {Filtered(HookClients, {c \in ToSet(HookClients) : cmd = "uninstall" \/ file[c] # None})}
    \cup {ServerClients}

Run(cmd) ==
  /\ At("idle") /\ runs < MaxRuns
  /\ \E todo \in Targets(cmd) \ {<<>>} :
       command' = [Idle EXCEPT !.pc = "load", !.cmd = cmd, !.todo = todo,
                               !.every = (todo = ServerClients)]
  /\ runs' = runs + 1
  /\ touched' = {}
  /\ UNCHANGED <<file, backup, binary, edits, first, settled>>

NextClient ==
  IF Len(command.todo) = 1 THEN Idle
  ELSE [Idle EXCEPT !.pc = "load", !.cmd = command.cmd, !.todo = Tail(command.todo),
                    !.every = command.every]

Skipped(c) ==
  command.cmd = "uninstall" /\ (file[c] = None \/ (command.every /\ ~Status(c)))

----------------------------------------------------------------------------
(* Load and change.                                                        *)

\* What a command writes for a content, None if nothing.
Plan(c, x) ==
  CASE command.cmd = "install" /\ IsHook(c) ->
         IF HookThere(x, binary) THEN None ELSE WithHook(c, x, binary)
    [] command.cmd = "uninstall" /\ IsHook(c) ->
         IF HasOurs(c, x)
         THEN WithoutHook(c, x, IF Whole(backup[c]) THEN backup[c] ELSE None)
         ELSE None
    [] command.cmd = "install" /\ ~IsHook(c) ->
         IF c = "codex" /\ x.ours # None THEN None ELSE WithServer(c, x, binary)
    [] command.cmd = "uninstall" /\ ~IsHook(c) ->
         IF ServerThere(c, x) THEN WithoutServer(c, x) ELSE None

InPlace == Client = "codex" /\ command.cmd = "uninstall"

\* What a file is read as.  Half a configuration of Codex, which is not
\* parsed, may be any shorter one, or be cut inside of a character.
ReadAs(c) ==
  CASE file[c] = None -> {Empty[c]}
    [] c = "codex" /\ file[c] = Half -> Settings[c] \cup {Empty[c], Half}
    [] OTHER -> {file[c]}

\* A file that does not parse ends the command, but for an uninstall of
\* servers, which goes on to the next client.
Unreadable(x) == x \in {Half, Broken}

Load ==
  LET c == Client IN
  /\ At("load")
  /\ \E x \in ReadAs(c) :
       command' =
         CASE Skipped(c) -> NextClient
           [] Unreadable(x) /\ ~Skipped(c) ->
                IF command.cmd = "uninstall" /\ ~IsHook(c) THEN NextClient ELSE Idle
           [] ~Unreadable(x) /\ ~Skipped(c) ->
                IF Plan(c, x) = None THEN NextClient
                ELSE [command EXCEPT !.plan = Plan(c, x),
                                     !.pc = IF InPlace THEN "write" ELSE "backup"]
  /\ touched' = {}
  /\ UNCHANGED <<file, backup, binary, runs, edits, first, settled>>

----------------------------------------------------------------------------
(* write_config_safely.                                                    *)

StartBackup_Skipped ==
  /\ At("backup")
  /\ Go("replace")
  /\ UNCHANGED backup

StartBackup ==
  /\ At("backup")
  /\ IF file[Client] = None THEN Go("replace") /\ UNCHANGED backup
     ELSE /\ backup' = [backup EXCEPT ![Client] = Half]
          /\ command' = [command EXCEPT !.pc = "copy", !.source = file[Client]]

BackUp ==
  /\ \/ StartBackup
     \/ /\ At("copy")
        /\ backup' = [backup EXCEPT ![Client] = command.source]
        /\ command' = [command EXCEPT !.pc = "replace", !.source = None]
  /\ UNCHANGED <<file, binary, runs, edits, touched, first, settled>>

RemoveOld ==
  /\ At("replace") /\ Windows /\ file[Client] # None
  /\ Go("rename")
  /\ file' = [file EXCEPT ![Client] = None]
  /\ UNCHANGED <<backup, binary, runs, edits, touched, first, settled>>

\* What is written over an edit is not what the command was asked for.
Finish ==
  /\ file' = [file EXCEPT ![Client] = command.plan]
  /\ first' = IF touched # {} THEN [first EXCEPT ![Client] = NotKnown] ELSE first
  /\ settled' = [settled EXCEPT ![Client] = command.plan]
  /\ command' = NextClient
  /\ UNCHANGED <<backup, binary, runs, edits, touched>>

Rename ==
  /\ At("rename") \/ (At("replace") /\ ~(Windows /\ file[Client] # None))
  /\ Finish

\* Codex uninstalls in place and without a backup.
Write ==
  \/ /\ At("write")
     /\ Go("writing")
     /\ file' = [file EXCEPT ![Client] = Half]
     /\ UNCHANGED <<backup, binary, runs, edits, touched, first, settled>>
  \/ /\ At("writing")
     /\ Finish

Crash ==
  /\ ~At("idle")
  /\ command' = Idle
  /\ first' = [first EXCEPT ![Client] = NotKnown]
  /\ UNCHANGED <<file, backup, binary, runs, edits, touched, settled>>

----------------------------------------------------------------------------
(* Users, editors and new versions.                                        *)

\* A file that was deleted leaves a backup that the next install does not
\* replace, and that an uninstall takes the enabled flag of ZCode from.
StaleBackup(c, x) == c = "zcode" /\ x = None /\ backup[c] # None

\* Another content, one that does not parse, or none: the file is deleted.
Edit(c, x) ==
  /\ edits < MaxEdits /\ x # file[c]
  /\ file' = [file EXCEPT ![c] = x]
  /\ edits' = edits + 1
  /\ touched' = IF ~At("idle") /\ c = Client THEN touched \cup {command.pc} ELSE touched
  /\ first' = [first EXCEPT ![c] =
                 IF At("idle") /\ ~HasOurs(c, x) /\ ~StaleBackup(c, x) THEN x ELSE NotKnown]
  /\ settled' = [settled EXCEPT ![c] = x]
  /\ UNCHANGED <<backup, command, binary, runs>>

Upgrade ==
  /\ edits < MaxEdits
  /\ binary' = binary + 1
  /\ edits' = edits + 1
  /\ first' = [c \in Clients |-> IF HasOurs(c, file[c]) \/ ~At("idle") THEN NotKnown ELSE first[c]]
  /\ UNCHANGED <<file, backup, command, runs, touched, settled>>

Init ==
  /\ \E c \in Clients : \E x \in Settings[c] \cup {Broken} :
       file = [d \in Clients |-> IF d = c THEN x ELSE None]
  /\ backup = [c \in Clients |-> None]
  /\ command = Idle
  /\ binary = 1
  /\ runs = 0 /\ edits = 0
  /\ touched = {}
  /\ first = [c \in Clients |-> IF HasOurs(c, file[c]) THEN NotKnown ELSE file[c]]
  /\ settled = file

Next ==
  \/ \E cmd \in {"install", "uninstall"} : Run(cmd)
  \/ Load \/ BackUp \/ RemoveOld \/ Rename \/ Write \/ Crash
  \/ \E c \in Clients : \E x \in Settings[c] \cup {None, Broken} : Edit(c, x)
  \/ Upgrade

Spec == Init /\ [][Next]_vars

----------------------------------------------------------------------------
(* Correctness.                                                            *)

Steps == {"idle", "load", "backup", "copy", "replace", "rename", "write", "writing"}

\* The types of the variables; a command that is under way has a client, and
\* what it is going to write parses.
TypeOK ==
  /\ DOMAIN file = Clients /\ DOMAIN backup = Clients
  /\ DOMAIN first = Clients /\ DOMAIN settled = Clients
  /\ \A c \in Clients :
       /\ {file[c], backup[c]} \subseteq Contents(c) \cup {None, Broken, Half}
       /\ first[c] \in Contents(c) \cup {None, Broken, NotKnown}
       /\ settled[c] \in Contents(c) \cup {None, Broken}
  /\ DOMAIN command = DOMAIN Idle
  /\ command.pc \in Steps
  /\ command.cmd \in {"none", "install", "uninstall"}
  /\ command.todo \in Seq(Clients)
  /\ ~At("idle") => command.cmd # "none" /\ command.todo # <<>>
  /\ command.pc \notin {"idle", "load"} => command.plan \in Contents(Client)
  /\ At("copy") => command.source \in Contents(Client) \cup {Broken, Half}
  /\ binary \in Nat /\ runs \in 0..MaxRuns /\ edits \in 0..MaxEdits
  /\ touched \subseteq Steps

\* An edit that was made after the copy was begun.
EditedLate == touched \cap {"copy", "replace", "rename"} # {}

\* What was last written to a file is in it or whole in its backup, until
\* others write another content: no step of a command takes it from both,
\* wherever commands are killed and begin again ("creates a backup",
\* README.md:157).  An edit is not kept if it was made after the copy was
\* begun; Codex is uninstalled in place, without a backup.
NothingIsLost ==
  [][\A c \in Clients \ {"codex"} :
       settled[c] # None /\ settled[c] \in {file[c], backup[c]} =>
         \/ settled[c] \in {file'[c], backup'[c]}
         \/ Edit(c, file'[c])
         \/ ~At("idle") /\ c = Client /\ EditedLate]_vars

\* A command that has gone through a client, with no edit in between, leaves
\* it as the status reports it: configured after an install and not after
\* an uninstall, whatever was in the file; a header of Codex that is not a
\* line of its own is found by the one and not by the other.
StatusFollows ==
  [][\A c \in Clients :
       /\ ~At("idle") /\ c = Client /\ command'.todo # command.todo
       /\ Load \/ Rename \/ Write
       /\ touched = {}
       /\ At("load") => ~Unreadable(file[c]) /\ ~(c = "codex" /\ HasOurs(c, file[c]))
       => (Status(c)' <=> command.cmd = "install")]_vars

\* An uninstall gives back what was there before the first of any number of
\* installs: the hooks and servers of others, and the enabled flag of ZCode
\* ("idempotent, scoped to our own hook entries, and fully reversible",
\* lifecycle.rs:7).  It does so if, since then, no file was edited during a
\* command or with our entries in it, none of ZCode was deleted that had a
\* backup, no new version came while our entries were there, and no command
\* was killed; the flag if no other event has hooks; and the servers of
\* others if the container had a shape that an install keeps.
UninstallRestores ==
  At("idle") =>
    \A c \in Clients :
      first[c] # NotKnown /\ Whole(file[c]) /\ ~HasOurs(c, file[c]) =>
        LET was == IF first[c] = None THEN Empty[c] ELSE first[c] IN
        IF IsHook(c)
        THEN /\ Cleaned(file[c]).events = Cleaned(was).events
             /\ Cleaned(was).events = NoEvents => file[c].enabled = was.enabled
        ELSE was.shape \in {"object", "toml", IF c = "continue" THEN "list" ELSE "object"} =>
               file[c].others = was.others
=============================================================================
