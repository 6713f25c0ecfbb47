------------------------ MODULE EditorConfigProofs ------------------------
(***************************************************************************)
(* Theorems of EditorConfig, for any clients, contents and numbers of      *)
(* commands and edits, with or without Windows.                            *)
(***************************************************************************)
EXTENDS EditorConfig, FilteringProofs

----------------------------------------------------------------------------
(* Contents.                                                               *)

LEMMA ClientsFacts ==
  /\ HookClients \in Seq(Clients) /\ ServerClients \in Seq(Clients)
  /\ "codex" \in Clients => ~IsHook("codex")
  /\ \A c \in Clients : Empty[c] \in Contents(c) /\ Settings[c] \subseteq Contents(c)
  /\ \A c \in Clients : \A x \in Contents(c) : x \notin {None, Broken, Half, NotKnown} /\ Whole(x)
<1>1. \A s \in Seq(STRING) : s \in Seq(ToSet(s))
  BY DEF ToSet
<1>2. HookClients \in Seq(Clients) /\ ServerClients \in Seq(Clients)
  <2>1. \A S, T : S \subseteq T => Seq(S) \subseteq Seq(T)
    OBVIOUS
  <2> QED
    BY <1>1, <2>1, EditorAssumption DEF Clients
<1> QED
  BY <1>2, EditorAssumption DEF IsHook, Whole

LEMMA EntriesType ==
  ASSUME NEW x \in HookConfig
  PROVE  Entries(x) \in Seq(Seq(Hook))
BY EditorAssumption DEF HookConfig, Entries

LEMMA NotOwnedFacts ==
  ASSUME NEW s \in Seq(Seq(Hook))
  PROVE  /\ NotOwned(s) \in Seq(Seq(Hook))
         /\ \A i \in DOMAIN NotOwned(s) : ~Owned(NotOwned(s)[i])
         /\ (\A i \in DOMAIN s : ~Owned(s[i])) => NotOwned(s) = s
<1> DEFINE S == {e \in ToSet(s) : ~Owned(e)}
<1>1. /\ NotOwned(s) \in Seq(Seq(Hook) \cap S)
      /\ ToSet(NotOwned(s)) = ToSet(s) \cap S
      /\ ToSet(s) \subseteq S => NotOwned(s) = s
  BY FilteredFacts, Zenon DEF NotOwned
<1>2. NotOwned(s) \in Seq(Seq(Hook))
  BY <1>1
<1>3. \A i \in DOMAIN NotOwned(s) : NotOwned(s)[i] \in S
  BY <1>1 DEF ToSet
<1>4. (\A i \in DOMAIN s : ~Owned(s[i])) => ToSet(s) \subseteq S
  BY DEF ToSet
<1> QED
  BY <1>1, <1>2, <1>3, <1>4

LEMMA HookTypes ==
  ASSUME NEW x \in HookConfig, NEW client, NEW b \in Nat, NEW old \in HookConfig \cup {None}
  PROVE  /\ WithHook(client, x, b) \in HookConfig
         /\ Cleaned(x) \in HookConfig
         /\ WithoutHook(client, x, old) \in HookConfig
<1>1. Entries(x) \in Seq(Seq(Hook)) /\ Start \in Events
  BY EntriesType, EditorAssumption
<1>2. NotOwned(Entries(x)) \in Seq(Seq(Hook))
  BY <1>1, NotOwnedFacts
<1>3. \A y \in HookConfig : \A s \in Seq(Seq(Hook)) : WithStart(y, s) \in HookConfig
  BY <1>1 DEF WithStart, HookConfig
<1>4. \A y \in HookConfig : Cleaned(y) \in HookConfig
  BY DEF Cleaned, HookConfig
<1>5. Append(NotOwned(Entries(x)), <<b>>) \in Seq(Seq(Hook))
  <2>1. <<b>> \in Seq(Hook)
    BY DEF Hook
  <2> QED
    BY <1>2, <2>1
<1>6. [x EXCEPT !.enabled = "on"] \in HookConfig
  BY DEF HookConfig
<1>7. WithHook(client, x, b) \in HookConfig
  BY <1>3, <1>5, <1>6 DEF WithHook
<1>8. WithoutHook(client, x, old) \in HookConfig
  <2> DEFINE y == Cleaned(WithStart(x, NotOwned(Entries(x))))
  <2>1. y \in HookConfig
    BY <1>2, <1>3, <1>4
  <2>2. \A z \in HookConfig : \A e \in {"on", "off", "absent"} : [z EXCEPT !.enabled = e] \in HookConfig
    BY DEF HookConfig
  <2>3. old # None => old.enabled \in {"on", "off", "absent"}
    BY DEF HookConfig
  <2> HIDE DEF y
  <2> QED
    BY <2>1, <2>2, <2>3 DEF WithoutHook, y
<1> QED
  BY <1>4, <1>7, <1>8

LEMMA ServerTypes ==
  ASSUME NEW client, NEW x \in ServerConfig(client), NEW b \in Nat
  PROVE  /\ WithServer(client, x, b) \in ServerConfig(client)
         /\ WithoutServer(client, x) \in ServerConfig(client)
<1>1. CASE client = "codex"
  BY <1>1 DEF WithServer, WithoutServer, ServerConfig
<1>2. CASE client # "codex"
  <2>1. CASE client = "continue"
    BY <1>2, <2>1 DEF WithServer, WithoutServer, ServerConfig
  <2>2. CASE client # "continue"
    BY <1>2, <2>2 DEF WithServer, WithoutServer, ServerConfig
  <2> QED
    BY <2>1, <2>2
<1> QED
  BY <1>1, <1>2
----------------------------------------------------------------------------
(* Types.                                                                  *)

LEMMA PlanType ==
  ASSUME TypeOK, NEW c \in Clients, NEW x \in Contents(c), command.cmd # "none"
  PROVE  Plan(c, x) \in Contents(c) \cup {None}
<1>1. binary \in Nat /\ command.cmd \in {"install", "uninstall"}
  BY DEF TypeOK
<1>2. CASE IsHook(c)
  <2>1. Contents(c) = HookConfig
    BY <1>2 DEF Contents
  <2>2. (IF Whole(backup[c]) THEN backup[c] ELSE None) \in HookConfig \cup {None}
    BY <2>1 DEF TypeOK, Whole
  <2>3. WithHook(c, x, binary) \in HookConfig
    BY <1>1, <2>1, HookTypes
  <2>4. WithoutHook(c, x, IF Whole(backup[c]) THEN backup[c] ELSE None) \in HookConfig
    BY <1>1, <2>1, <2>2, HookTypes
  <2> QED
    BY <1>1, <1>2, <2>1, <2>3, <2>4 DEF Plan
<1>3. CASE ~IsHook(c)
  <2>1. Contents(c) = ServerConfig(c)
    BY <1>3 DEF Contents
  <2>2. WithServer(c, x, binary) \in ServerConfig(c) /\ WithoutServer(c, x) \in ServerConfig(c)
    BY <1>1, <2>1, ServerTypes
  <2> QED
    BY <1>1, <1>3, <2>1, <2>2 DEF Plan
<1> QED
  BY <1>2, <1>3

LEMMA ClientType ==
  ASSUME TypeOK, ~At("idle")
  PROVE  Client \in Clients
BY DEF TypeOK, Client, At

LEMMA TailFacts ==
  ASSUME NEW S, NEW s \in Seq(S), s # <<>>, Len(s) # 1
  PROVE  Tail(s) \in Seq(S) /\ Tail(s) # <<>>
<1>1. Len(s) \in Nat /\ Len(s) # 0
  OBVIOUS
<1>2. Tail(s) \in Seq(S) /\ Len(Tail(s)) = Len(s) - 1
  OBVIOUS
<1>3. Len(Tail(s)) # 0
  BY <1>1, <1>2
<1> QED
  BY <1>2, <1>3

LEMMA NextClientType ==
  ASSUME TypeOK, ~At("idle")
  PROVE  /\ DOMAIN NextClient = DOMAIN Idle
         /\ NextClient.pc \in {"idle", "load"}
         /\ NextClient.cmd \in {"none", "install", "uninstall"}
         /\ NextClient.todo \in Seq(Clients)
         /\ NextClient.pc # "idle" => NextClient.cmd # "none" /\ NextClient.todo # <<>>
<1>1. command.todo \in Seq(Clients) /\ command.todo # <<>> /\ command.cmd \in {"install", "uninstall"}
  BY DEF TypeOK
<1>2. CASE Len(command.todo) = 1
  BY <1>2 DEF NextClient, Idle
<1>3. CASE Len(command.todo) # 1
  <2>1. Tail(command.todo) \in Seq(Clients) /\ Tail(command.todo) # <<>>
    BY <1>1, <1>3, TailFacts
  <2> QED
    BY <1>1, <1>3, <2>1 DEF NextClient, Idle
<1> QED
  BY <1>2, <1>3

\* What a command reads.
LEMMA ReadAsType ==
  ASSUME TypeOK, ~At("idle"), NEW x \in ReadAs(Client), ~Unreadable(x)
  PROVE  x \in Contents(Client)
<1>1. Client \in Clients
  BY ClientType
<1>2. /\ file[Client] \in Contents(Client) \cup {None, Broken, Half}
      /\ Empty[Client] \in Contents(Client) /\ Settings[Client] \subseteq Contents(Client)
  BY <1>1, ClientsFacts DEF TypeOK
<1> QED
  BY <1>2 DEF ReadAs, Unreadable

\* TypeOK in parts, for the command and for the rest.
CommandType ==
  /\ DOMAIN command = DOMAIN Idle
  /\ command.pc \in Steps
  /\ command.cmd \in {"none", "install", "uninstall"}
  /\ command.todo \in Seq(Clients)
  /\ ~At("idle") => command.cmd # "none" /\ command.todo # <<>>
  /\ command.pc \notin {"idle", "load"} => command.plan \in Contents(Client)
  /\ At("copy") => command.source \in Contents(Client) \cup {Broken, Half}

FileType ==
  /\ DOMAIN file = Clients /\ DOMAIN backup = Clients
  /\ DOMAIN first = Clients /\ DOMAIN settled = Clients
  /\ \A c \in Clients :
       /\ {file[c], backup[c]} \subseteq Contents(c) \cup {None, Broken, Half}
       /\ first[c] \in Contents(c) \cup {None, Broken, NotKnown}
       /\ settled[c] \in Contents(c) \cup {None, Broken}

CountType ==
  /\ binary \in Nat /\ runs \in 0..MaxRuns /\ edits \in 0..MaxEdits
  /\ touched \subseteq Steps

LEMMA IdleType == command' = Idle => CommandType'
BY DEF Idle, CommandType, At, Steps

LEMMA NextType ==
  ASSUME TypeOK, ~At("idle"), command' = NextClient
  PROVE  CommandType'
BY NextClientType DEF CommandType, At, Steps

\* The command goes on with its client.
LEMMA GoType ==
  ASSUME TypeOK, ~At("idle"), ~At("load"),
         command'.pc \in {"backup", "copy", "replace", "rename", "write", "writing"},
         DOMAIN command' = DOMAIN command, command'.cmd = command.cmd, command'.todo = command.todo,
         command'.plan = command.plan,
         command'.pc = "copy" => command'.source \in Contents(Client) \cup {Broken, Half}
  PROVE  CommandType'
<1>1. command.plan \in Contents(Client) /\ Client' = Client
  BY DEF TypeOK, At, Client
<1>2. Contents(Client)' = Contents(Client)
  BY <1>1 DEF Contents
<1> QED
  BY <1>1, <1>2 DEF TypeOK, CommandType, At, Steps
\* What the steps of a command and of others leave.
LEMMA LoadType ==
  ASSUME TypeOK, Load
  PROVE  CommandType'
<1>1. ~At("idle") /\ At("load") /\ command.cmd # "none"
  BY DEF Load, At, TypeOK
<1>2. PICK x \in ReadAs(Client) :
        command' = CASE Skipped(Client) -> NextClient
                     [] Unreadable(x) /\ ~Skipped(Client) ->
                          IF command.cmd = "uninstall" /\ ~IsHook(Client) THEN NextClient ELSE Idle
                     [] ~Unreadable(x) /\ ~Skipped(Client) ->
                          IF Plan(Client, x) = None THEN NextClient
                          ELSE [command EXCEPT !.plan = Plan(Client, x),
                                               !.pc = IF InPlace THEN "write" ELSE "backup"]
  BY DEF Load
<1>3. CASE command' = NextClient
  BY <1>1, <1>3, NextType
<1>4. CASE command' = Idle
  BY <1>4, IdleType
<1>5. CASE /\ ~Unreadable(x) /\ Plan(Client, x) # None
           /\ command' = [command EXCEPT !.plan = Plan(Client, x),
                                         !.pc = IF InPlace THEN "write" ELSE "backup"]
  <2> DEFINE c == Client
             p == Plan(Client, x)
  <2>1. c \in Clients /\ x \in Contents(c)
    BY <1>1, <1>5, ClientType, ReadAsType
  <2>2. p \in Contents(c)
    BY <1>1, <1>5, <2>1, PlanType
  <2>3. /\ command'.pc \in {"write", "backup"} /\ command'.cmd = command.cmd
        /\ command'.todo = command.todo /\ command'.plan = p
        /\ DOMAIN command' = DOMAIN command
    <3> HIDE DEF p
    <3>1. DOMAIN command = {"pc", "cmd", "todo", "every", "plan", "source"}
      BY DEF TypeOK, Idle
    <3> QED
      BY <1>5, <3>1 DEF p
  <2> QED
    BY <1>1, <2>2, <2>3 DEF TypeOK, CommandType, At, Client, Contents, Steps
<1> QED
  BY <1>2, <1>3, <1>4, <1>5
\* What Go and the steps of a copy leave of a command.
LEMMA GoIs ==
  ASSUME TypeOK, NEW p
  PROVE  /\ [command EXCEPT !.pc = p].pc = p
         /\ DOMAIN [command EXCEPT !.pc = p] = DOMAIN command
         /\ [command EXCEPT !.pc = p].cmd = command.cmd
         /\ [command EXCEPT !.pc = p].todo = command.todo
         /\ [command EXCEPT !.pc = p].plan = command.plan
         /\ [command EXCEPT !.pc = p].source = command.source
<1>1. DOMAIN command = {"pc", "cmd", "todo", "every", "plan", "source"}
  BY DEF TypeOK, Idle
<1> QED
  BY <1>1

LEMMA CopyIs ==
  ASSUME TypeOK, NEW p, NEW x
  PROVE  /\ [command EXCEPT !.pc = p, !.source = x].pc = p
         /\ [command EXCEPT !.pc = p, !.source = x].source = x
         /\ DOMAIN [command EXCEPT !.pc = p, !.source = x] = DOMAIN command
         /\ [command EXCEPT !.pc = p, !.source = x].cmd = command.cmd
         /\ [command EXCEPT !.pc = p, !.source = x].todo = command.todo
         /\ [command EXCEPT !.pc = p, !.source = x].plan = command.plan
<1>1. DOMAIN command = {"pc", "cmd", "todo", "every", "plan", "source"}
  BY DEF TypeOK, Idle
<1> QED
  BY <1>1

LEMMA TypeStep ==
  ASSUME TypeOK, [Next]_vars
  PROVE  TypeOK'
<1>0. TypeOK' <=> CommandType' /\ FileType' /\ CountType'
  BY DEF TypeOK, CommandType, FileType, CountType
<1> DEFINE All == CommandType' /\ FileType' /\ CountType'
<1>t. CommandType /\ FileType /\ CountType
  BY DEF TypeOK, CommandType, FileType, CountType
<1>s. \A c : Contents(c)' = Contents(c) /\ Clients' = Clients
  BY DEF Contents
<1>c. ASSUME UNCHANGED command PROVE CommandType'
  BY <1>t, <1>c DEF CommandType, Client, At, Contents
<1>f. ASSUME UNCHANGED <<file, backup, first, settled>> PROVE FileType'
  BY <1>t, <1>f DEF FileType, Contents
<1>n. ASSUME UNCHANGED <<binary, runs, edits, touched>> PROVE CountType'
  BY <1>t, <1>n DEF CountType
<1>1. ASSUME NEW cmd \in {"install", "uninstall"}, Run(cmd) PROVE All
  <2>1. PICK todo \in Targets(cmd) \ {<<>>} :
          command' = [Idle EXCEPT !.pc = "load", !.cmd = cmd, !.todo = todo,
                                  !.every = (todo = ServerClients)]
    BY <1>1 DEF Run
  <2>2. todo \in Seq(Clients)
    <3>1. \A c \in Clients : <<c>> \in Seq(Clients)
      OBVIOUS
    <3>2. Filtered(HookClients, {c \in ToSet(HookClients) :
                                   cmd = "uninstall" \/ file[c] # None}) \in Seq(Clients)
      <4>1. \A S : Filtered(HookClients, S) \in Seq(Clients \cap S)
        BY ClientsFacts, FilteredFacts, Zenon
      <4>2. \A S : Seq(Clients \cap S) \subseteq Seq(Clients)
        OBVIOUS
      <4> QED
        BY <4>1, <4>2, Zenon
    <3> QED
      BY <2>1, <3>1, <3>2, ClientsFacts, Zenon DEF Targets
  <2>3. CommandType'
    BY <1>1, <2>1, <2>2 DEF CommandType, Idle, At, Steps
  <2>4. CountType'
    <3>1. runs' \in 0..MaxRuns
      BY <1>t, <1>1, EditorAssumption DEF Run, CountType
    <3> QED
      BY <1>t, <1>1, <3>1 DEF Run, CountType
  <2> QED
    BY <1>1, <1>f, <2>3, <2>4 DEF Run
<1>2. ASSUME Load PROVE All
  <2>1. CountType'
    BY <1>t, <1>2 DEF Load, CountType
  <2> QED
    BY <1>2, <1>f, <2>1, LoadType DEF Load
<1>3. ASSUME BackUp PROVE All
  <2>1. ~At("idle") /\ ~At("load") /\ Client \in Clients
    BY <1>3, ClientType DEF BackUp, StartBackup, At
  <2>2. CASE StartBackup
    <3>1. CommandType'
      <4>1. CASE file[Client] = None
        <5>1. command' = [command EXCEPT !.pc = "replace"]
          BY <2>2, <4>1 DEF StartBackup, Go
        <5> QED
          BY <2>1, <5>1, GoIs, GoType
      <4>2. CASE file[Client] # None
        <5>1. file[Client] \in Contents(Client) \cup {Broken, Half}
          BY <2>1, <4>2 DEF TypeOK
        <5>2. command' = [command EXCEPT !.pc = "copy", !.source = file[Client]]
          BY <2>2, <4>2 DEF StartBackup
        <5> QED
          BY <2>1, <5>1, <5>2, CopyIs, GoType
      <4> QED
        BY <4>1, <4>2
    <3>2. FileType'
      BY <1>t, <1>3, <1>s, <2>1, <2>2 DEF FileType, StartBackup, BackUp
    <3> QED
      BY <1>3, <1>n, <3>1, <3>2 DEF BackUp
  <2>3. CASE /\ At("copy")
             /\ backup' = [backup EXCEPT ![Client] = command.source]
             /\ command' = [command EXCEPT !.pc = "replace", !.source = None]
    <3>1. CommandType'
      BY <2>1, <2>3, CopyIs, GoType
    <3>2. FileType'
      BY <1>t, <1>3, <1>s, <2>1, <2>3 DEF FileType, CommandType, BackUp
    <3> QED
      BY <1>3, <1>n, <3>1, <3>2 DEF BackUp
  <2> QED
    BY <1>3, <2>2, <2>3 DEF BackUp
<1>4. ASSUME RemoveOld PROVE All
  <2>1. ~At("idle") /\ ~At("load") /\ Client \in Clients
    BY <1>4, ClientType DEF RemoveOld, At
  <2>2. CommandType'
    BY <1>4, <2>1, GoIs, GoType DEF RemoveOld, Go
  <2>3. FileType'
    BY <1>t, <1>4, <1>s, <2>1 DEF FileType, RemoveOld
  <2> QED
    BY <1>4, <1>n, <2>2, <2>3 DEF RemoveOld
<1>5. ASSUME Finish, ~At("idle"), ~At("load") PROVE All
  <2>1. Client \in Clients /\ command.plan \in Contents(Client)
    BY <1>5, ClientType DEF TypeOK, At
  <2>2. CommandType'
    BY <1>5, NextType DEF Finish
  <2>3. FileType'
    BY <1>t, <1>5, <1>s, <2>1 DEF FileType, Finish
  <2>4. CountType'
    BY <1>t, <1>5, <2>1 DEF CountType, Finish
  <2> QED
    BY <2>2, <2>3, <2>4
<1>6. ASSUME Rename PROVE All
  BY <1>5, <1>6 DEF Rename, At
<1>7. ASSUME Write PROVE All
  <2>1. CASE At("writing") /\ Finish
    BY <1>5, <2>1 DEF At
  <2>2. CASE /\ At("write") /\ Go("writing") /\ file' = [file EXCEPT ![Client] = Half]
             /\ UNCHANGED <<backup, binary, runs, edits, touched, first, settled>>
    <3>1. ~At("idle") /\ ~At("load") /\ Client \in Clients
      BY <2>2, ClientType DEF At
    <3>2. CommandType'
      BY <2>2, <3>1, GoIs, GoType DEF Go
    <3>3. FileType'
      BY <1>t, <1>s, <2>2, <3>1 DEF FileType
    <3> QED
      BY <1>n, <2>2, <3>2, <3>3
  <2> QED
    BY <1>7, <2>1, <2>2 DEF Write
<1>8. ASSUME Crash PROVE All
  <2>1. Client \in Clients
    BY <1>8, ClientType DEF Crash
  <2>2. FileType'
    BY <1>t, <1>8, <1>s, <2>1 DEF FileType, Crash
  <2> QED
    BY <1>8, <1>n, <2>2, IdleType DEF Crash
<1>9. ASSUME NEW c \in Clients, NEW x \in Settings[c] \cup {None, Broken}, Edit(c, x) PROVE All
  <2>1. x \in Contents(c) \cup {None, Broken}
    BY ClientsFacts
  <2>2. FileType'
    BY <1>t, <1>9, <1>s, <2>1 DEF FileType, Edit
  <2>3. CountType'
    <3>1. command.pc \in Steps
      BY DEF TypeOK
    <3> QED
      BY <1>t, <1>9, <3>1, EditorAssumption DEF CountType, Edit
  <2> QED
    BY <1>9, <1>c, <2>2, <2>3 DEF Edit
<1>10. ASSUME Upgrade PROVE All
  <2>1. FileType'
    BY <1>t, <1>10, <1>s DEF FileType, Upgrade
  <2>2. CountType'
    BY <1>t, <1>10, EditorAssumption DEF CountType, Upgrade
  <2> QED
    BY <1>10, <1>c, <2>1, <2>2 DEF Upgrade
<1>11. ASSUME UNCHANGED vars PROVE All
  BY <1>11, <1>c, <1>f, <1>n DEF vars
<1> QED
  BY <1>0, <1>1, <1>2, <1>3, <1>4, <1>6, <1>7, <1>8, <1>9, <1>10, <1>11 DEF Next
LEMMA InitType == Init => TypeOK
<1> SUFFICES ASSUME Init PROVE TypeOK
  OBVIOUS
<1>0. PICK d \in Clients : \E y \in Settings[d] \cup {Broken} :
        file = [c \in Clients |-> IF c = d THEN y ELSE None]
  BY DEF Init
<1>1. PICK y \in Settings[d] \cup {Broken} :
        file = [c \in Clients |-> IF c = d THEN y ELSE None]
  BY <1>0
<1>2. FileType
  BY <1>1, ClientsFacts DEF Init, FileType
<1>3. CommandType
  BY DEF Init, CommandType, Idle, At, Steps
<1>4. CountType
  <2>1. 0 \in 0..MaxRuns /\ 0 \in 0..MaxEdits
    BY EditorAssumption
  <2> QED
    BY <2>1 DEF Init, CountType
<1> QED
  BY <1>2, <1>3, <1>4 DEF TypeOK, FileType, CommandType, CountType

\* TypeOK is an invariant: commands have a client whenever they act on one,
\* and what they write parses.
THEOREM TypeCorrect == Spec => []TypeOK
<1> QED
  BY InitType, TypeStep, PTL DEF Spec

----------------------------------------------------------------------------
(* A kill at any step.                                                     *)

\* Why nothing is lost: only the file of Codex is ever half written, what is
\* copied is what was last written, and a file that is about to be replaced
\* has a whole backup, unless it was edited since.
SavedInv ==
  /\ \A c \in Clients \ {"codex"} : file[c] \in {None, settled[c]}
  /\ command.pc \in {"write", "writing"} => Client = "codex"
  /\ At("copy") /\ ~EditedLate /\ Client # "codex" => command.source = settled[Client]
  /\ command.pc \in {"replace", "rename"} /\ ~EditedLate /\ Client # "codex"
       /\ file[Client] # None => backup[Client] = settled[Client]

\* Where a command is after it has loaded a file.
LEMMA LoadedAt ==
  ASSUME TypeOK, Load
  PROVE  \/ command'.pc \in {"idle", "load", "backup"}
         \/ command'.pc = "write" /\ Client' = "codex"
<1>1. ~At("idle")
  BY DEF Load, At
<1>2. PICK x \in ReadAs(Client) :
        command' = CASE Skipped(Client) -> NextClient
                     [] Unreadable(x) /\ ~Skipped(Client) ->
                          IF command.cmd = "uninstall" /\ ~IsHook(Client) THEN NextClient ELSE Idle
                     [] ~Unreadable(x) /\ ~Skipped(Client) ->
                          IF Plan(Client, x) = None THEN NextClient
                          ELSE [command EXCEPT !.plan = Plan(Client, x),
                                               !.pc = IF InPlace THEN "write" ELSE "backup"]
  BY DEF Load
<1>3. CASE command' = NextClient \/ command' = Idle
  BY <1>1, <1>3, NextClientType DEF Idle
<1>4. CASE command' = [command EXCEPT !.plan = Plan(Client, x),
                                      !.pc = IF InPlace THEN "write" ELSE "backup"]
  <2>1. DOMAIN command = {"pc", "cmd", "todo", "every", "plan", "source"}
    BY DEF TypeOK, Idle
  <2>2. command'.todo = command.todo /\ command'.pc = IF InPlace THEN "write" ELSE "backup"
    BY <1>4, <2>1
  <2> QED
    BY <2>2 DEF InPlace, Client
<1> QED
  BY <1>2, <1>3, <1>4

LEMMA SavedStep ==
  ASSUME TypeOK, TypeOK', SavedInv, [Next]_vars
  PROVE  SavedInv'
\* A step that leaves the files and either leaves the command, or puts it
\* before the writing of a file.
<1>u. ASSUME UNCHANGED <<file, backup, settled>>,
             \/ UNCHANGED <<command, touched>>
             \/ command'.pc \in {"idle", "load", "backup"}
             \/ command'.pc = "write" /\ Client' = "codex"
      PROVE  SavedInv'
  BY <1>u DEF SavedInv, At, Client, EditedLate
<1>1. ASSUME NEW cmd \in {"install", "uninstall"}, Run(cmd) PROVE SavedInv'
  <2>1. command'.pc = "load"
    BY <1>1 DEF Run, Idle
  <2> QED
    BY <1>1, <1>u, <2>1 DEF Run
<1>2. ASSUME Load PROVE SavedInv'
  <2>1. UNCHANGED <<file, backup, settled>>
    BY <1>2 DEF Load
  <2> QED
    BY <1>2, <1>u, <2>1, LoadedAt
<1>3. ASSUME BackUp PROVE SavedInv'
  <2>1. ~At("idle") /\ Client \in Clients /\ UNCHANGED <<file, settled, touched>>
    BY <1>3, ClientType DEF BackUp, StartBackup, At
  <2>2. CASE At("backup") /\ file[Client] = None
    <3>1. command' = [command EXCEPT !.pc = "replace"]
      BY <1>3, <2>2 DEF BackUp, StartBackup, Go, At
    <3>2. command'.pc = "replace" /\ Client' = Client
      BY <3>1, GoIs DEF Client
    <3> QED
      BY <2>1, <2>2, <3>2 DEF SavedInv, At
  <2>3. CASE At("backup") /\ file[Client] # None
    <3>1. command' = [command EXCEPT !.pc = "copy", !.source = file[Client]]
      BY <1>3, <2>3 DEF BackUp, StartBackup, At
    <3>2. command'.pc = "copy" /\ command'.source = file[Client] /\ Client' = Client
      BY <3>1, CopyIs DEF Client
    <3>3. Client # "codex" => file[Client] = settled[Client]
      BY <2>1, <2>3 DEF SavedInv
    <3> QED
      BY <2>1, <3>2, <3>3 DEF SavedInv, At
  <2>4. CASE At("copy")
    <3>1. /\ command' = [command EXCEPT !.pc = "replace", !.source = None]
          /\ backup' = [backup EXCEPT ![Client] = command.source]
      BY <1>3, <2>4 DEF BackUp, StartBackup, At
    <3>2. command'.pc = "replace" /\ Client' = Client
      BY <3>1, CopyIs DEF Client
    <3>3. backup'[Client] = command.source
      BY <2>1, <3>1 DEF TypeOK
    <3> QED
      BY <2>1, <2>4, <3>2, <3>3 DEF SavedInv, At, EditedLate
  <2> QED
    BY <1>3, <2>2, <2>3, <2>4 DEF BackUp, StartBackup
<1>4. ASSUME RemoveOld PROVE SavedInv'
  <2>1. At("replace") /\ Client \in Clients /\ file' = [file EXCEPT ![Client] = None]
    BY <1>4, ClientType DEF RemoveOld, At
  <2>2. command'.pc = "rename" /\ Client' = Client /\ UNCHANGED settled
    BY <1>4, GoIs DEF RemoveOld, Go, Client
  <2>3. file'[Client] = None /\ \A c \in Clients : c # Client => file'[c] = file[c]
    BY <2>1 DEF TypeOK
  <2> QED
    BY <2>2, <2>3 DEF SavedInv, At
<1>5. ASSUME Finish, ~At("idle"), ~At("load") PROVE SavedInv'
  <2>1. Client \in Clients /\ command'.pc \in {"idle", "load"}
    BY <1>5, ClientType, NextClientType DEF Finish
  <2>2. \A c \in Clients : \/ file'[c] = settled'[c]
                          \/ (file'[c] = file[c] /\ settled'[c] = settled[c])
    BY <1>5, <2>1 DEF Finish, TypeOK
  <2> QED
    BY <2>1, <2>2 DEF SavedInv, At
<1>6. ASSUME Rename PROVE SavedInv'
  BY <1>5, <1>6 DEF Rename, At
<1>7. ASSUME Write PROVE SavedInv'
  <2>1. CASE At("writing") /\ Finish
    BY <1>5, <2>1 DEF At
  <2>2. CASE /\ At("write") /\ Go("writing") /\ file' = [file EXCEPT ![Client] = Half]
             /\ UNCHANGED <<backup, binary, runs, edits, touched, first, settled>>
    <3>1. Client = "codex" /\ Client \in Clients
      BY <2>2, ClientType DEF At, SavedInv
    <3>2. command'.pc = "writing" /\ Client' = Client
      BY <2>2, GoIs DEF Go, Client
    <3>3. \A c \in Clients : c # Client => file'[c] = file[c]
      BY <2>2, <3>1 DEF TypeOK
    <3> QED
      BY <2>2, <3>1, <3>2, <3>3 DEF SavedInv, At
  <2> QED
    BY <1>7, <2>1, <2>2 DEF Write
<1>8. ASSUME Crash PROVE SavedInv'
  <2>1. command'.pc = "idle"
    BY <1>8 DEF Crash, Idle
  <2> QED
    BY <1>8, <1>u, <2>1 DEF Crash
<1>9. ASSUME NEW c \in Clients, NEW x \in Settings[c] \cup {None, Broken}, Edit(c, x)
      PROVE  SavedInv'
  <2>1. /\ UNCHANGED <<backup, command>> /\ Client' = Client
        /\ file'[c] = x /\ settled'[c] = x
        /\ \A d \in Clients : d # c => file'[d] = file[d] /\ settled'[d] = settled[d]
    BY <1>9 DEF Edit, TypeOK, Client
  <2>2. command.pc \in {"copy", "replace", "rename"} => EditedLate' \/ c # Client
    BY <1>9 DEF Edit, EditedLate, At
  <2>3. EditedLate => EditedLate'
    BY <1>9 DEF Edit, EditedLate
  <2>4. command.pc \in {"copy", "replace", "rename"} => Client \in Clients
    BY ClientType DEF At
  <2> QED
    BY <2>1, <2>2, <2>3, <2>4 DEF SavedInv, At
<1>10. ASSUME Upgrade PROVE SavedInv'
  BY <1>10, <1>u DEF Upgrade
<1>11. ASSUME UNCHANGED vars PROVE SavedInv'
  BY <1>11, <1>u DEF vars
<1> QED
  BY <1>1, <1>2, <1>3, <1>4, <1>6, <1>7, <1>8, <1>9, <1>10, <1>11 DEF Next

LEMMA LossStep ==
  ASSUME TypeOK, SavedInv, Next,
         NEW c \in Clients \ {"codex"}, settled[c] # None, settled[c] \in {file[c], backup[c]},
         ~(~At("idle") /\ c = Client /\ EditedLate)
  PROVE  settled[c] \in {file'[c], backup'[c]} \/ Edit(c, file'[c])
<1>u. ASSUME file'[c] = file[c], backup'[c] = backup[c]
      PROVE  settled[c] \in {file'[c], backup'[c]}
  BY <1>u
<1>1. ASSUME NEW cmd \in {"install", "uninstall"}, Run(cmd)
      PROVE  settled[c] \in {file'[c], backup'[c]}
  BY <1>1 DEF Run
<1>2. ASSUME Load PROVE settled[c] \in {file'[c], backup'[c]}
  BY <1>2 DEF Load
<1>3. ASSUME BackUp PROVE settled[c] \in {file'[c], backup'[c]}
  <2>1. ~At("idle") /\ Client \in Clients /\ UNCHANGED file
    BY <1>3, ClientType DEF BackUp, StartBackup, At
  <2>2. CASE c # Client
    BY <1>3, <2>1, <2>2 DEF BackUp, StartBackup, TypeOK
  <2>3. CASE c = Client /\ At("copy")
    <3>1. backup'[c] = command.source
      BY <1>3, <2>1, <2>3 DEF BackUp, StartBackup, At, TypeOK
    <3> QED
      BY <2>1, <2>3, <3>1 DEF SavedInv
  <2>4. CASE c = Client /\ ~At("copy")
    <3>1. file[c] = None => UNCHANGED backup
      BY <1>3, <2>4 DEF BackUp, StartBackup
    <3> QED
      BY <2>1, <3>1 DEF SavedInv
  <2> QED
    BY <2>2, <2>3, <2>4
<1>4. ASSUME RemoveOld PROVE settled[c] \in {file'[c], backup'[c]}
  <2>1. At("replace") /\ ~At("idle") /\ Client \in Clients /\ UNCHANGED backup
        /\ file[Client] # None /\ file' = [file EXCEPT ![Client] = None]
    BY <1>4, ClientType DEF RemoveOld, At
  <2>2. CASE c # Client
    BY <2>1, <2>2 DEF TypeOK
  <2>3. CASE c = Client
    BY <2>1, <2>3 DEF SavedInv, At
  <2> QED
    BY <2>2, <2>3
<1>5. ASSUME Finish, command.pc \in {"replace", "rename", "writing"}
      PROVE  settled[c] \in {file'[c], backup'[c]}
  <2>1. ~At("idle") /\ Client \in Clients /\ UNCHANGED backup
        /\ file' = [file EXCEPT ![Client] = command.plan]
    BY <1>5, ClientType DEF Finish, At
  <2>2. CASE c # Client
    BY <2>1, <2>2 DEF TypeOK
  <2>3. CASE c = Client
    <3>1. command.pc \in {"replace", "rename"} /\ ~EditedLate
      BY <1>5, <2>1, <2>3 DEF SavedInv
    <3> QED
      BY <2>1, <2>3, <3>1 DEF SavedInv
  <2> QED
    BY <2>2, <2>3
<1>6. ASSUME Rename PROVE settled[c] \in {file'[c], backup'[c]}
  BY <1>5, <1>6 DEF Rename, At
<1>7. ASSUME Write PROVE settled[c] \in {file'[c], backup'[c]}
  <2>1. CASE At("writing") /\ Finish
    BY <1>5, <2>1 DEF At
  <2>2. CASE At("write") /\ file' = [file EXCEPT ![Client] = Half] /\ UNCHANGED backup
    <3>1. c # Client /\ Client \in Clients
      BY <2>2, ClientType DEF At, SavedInv
    <3> QED
      BY <2>2, <3>1 DEF TypeOK
  <2> QED
    BY <1>7, <2>1, <2>2 DEF Write
<1>8. ASSUME Crash PROVE settled[c] \in {file'[c], backup'[c]}
  BY <1>8 DEF Crash
<1>9. ASSUME NEW d \in Clients, NEW x \in Settings[d] \cup {None, Broken}, Edit(d, x)
      PROVE  settled[c] \in {file'[c], backup'[c]} \/ Edit(c, file'[c])
  <2>1. CASE c = d
    <3>1. file'[c] = x
      BY <1>9, <2>1 DEF Edit, TypeOK
    <3> QED
      BY <1>9, <2>1, <3>1
  <2>2. CASE c # d
    BY <1>9, <2>2 DEF Edit, TypeOK
  <2> QED
    BY <2>1, <2>2
<1>10. ASSUME Upgrade PROVE settled[c] \in {file'[c], backup'[c]}
  BY <1>10 DEF Upgrade
<1> QED
  BY <1>1, <1>2, <1>3, <1>4, <1>6, <1>7, <1>8, <1>9, <1>10 DEF Next

\* What was last written to a file is in it or whole in its backup, wherever
\* commands are killed, unless it was edited after the copy was begun.
THEOREM BackupCorrect == Spec => NothingIsLost
<1> DEFINE Step ==
  \A c \in Clients \ {"codex"} :
    settled[c] # None /\ settled[c] \in {file[c], backup[c]} =>
      \/ settled[c] \in {file'[c], backup'[c]}
      \/ Edit(c, file'[c])
      \/ ~At("idle") /\ c = Client /\ EditedLate
<1>1. Init => SavedInv
  BY DEF Init, SavedInv, Idle, At
<1>2. TypeOK /\ SavedInv /\ [Next]_vars => [Step]_vars
  BY LossStep
<1> QED
  BY <1>1, <1>2, InitType, TypeStep, SavedStep, PTL DEF Spec, NothingIsLost
----------------------------------------------------------------------------
(* What a command writes.                                                  *)

LEMMA WithStartFacts ==
  ASSUME NEW x \in HookConfig, NEW s \in Seq(Seq(Hook))
  PROVE  /\ WithStart(x, s) \in HookConfig
         /\ Entries(WithStart(x, s)) = s
         /\ WithStart(x, s).enabled = x.enabled
         /\ WithStart(x, s).events = [e \in Events |-> IF e = Start THEN s ELSE x.events[e]]
<1>1. s # None /\ Start \in Events
  BY EditorAssumption
<1>2. x.events \in [Events -> Seq(Seq(Hook)) \cup {None}]
  BY DEF HookConfig
<1>3. WithStart(x, s).events = [x.events EXCEPT ![Start] = s]
  BY DEF WithStart, HookConfig
<1>4. WithStart(x, s).enabled = x.enabled
  BY DEF WithStart, HookConfig
<1>5. WithStart(x, s) \in HookConfig
  BY <1>1, <1>2 DEF WithStart, HookConfig
<1>6. [x.events EXCEPT ![Start] = s] = [e \in Events |-> IF e = Start THEN s ELSE x.events[e]]
  BY <1>2
<1> QED
  BY <1>1, <1>3, <1>4, <1>5, <1>6 DEF Entries

LEMMA CleanedFacts ==
  ASSUME NEW x \in HookConfig
  PROVE  /\ Cleaned(x) \in HookConfig
         /\ Cleaned(x).enabled = x.enabled
         /\ Cleaned(x).events = [e \in Events |-> IF x.events[e] = <<>> THEN None ELSE x.events[e]]
         /\ Entries(Cleaned(x)) = Entries(x)
BY EditorAssumption DEF Cleaned, HookConfig, Entries

\* A configuration without our entries.
Base(x) == Cleaned(WithStart(x, NotOwned(Entries(x))))

LEMMA BaseFacts ==
  ASSUME NEW x \in HookConfig
  PROVE  /\ Base(x) \in HookConfig
         /\ Base(x).enabled = x.enabled
         /\ Entries(Base(x)) = NotOwned(Entries(x))
         /\ Base(x).events = [e \in Events |->
              LET s == IF e = Start THEN NotOwned(Entries(x)) ELSE x.events[e] IN
              IF s = <<>> THEN None ELSE s]
<1> DEFINE n == NotOwned(Entries(x))
<1>1. n \in Seq(Seq(Hook))
  BY EntriesType, NotOwnedFacts
<1>2. WithStart(x, n) \in HookConfig
  BY <1>1, WithStartFacts
<1> DEFINE w == WithStart(x, n)
<1>3. /\ w \in HookConfig /\ Entries(w) = n /\ w.enabled = x.enabled
      /\ w.events = [e \in Events |-> IF e = Start THEN n ELSE x.events[e]]
  BY <1>1, WithStartFacts
<1> HIDE DEF n, w
<1>4. /\ Cleaned(w) \in HookConfig /\ Cleaned(w).enabled = w.enabled
      /\ Cleaned(w).events = [e \in Events |-> IF w.events[e] = <<>> THEN None ELSE w.events[e]]
      /\ Entries(Cleaned(w)) = Entries(w)
  BY <1>3, CleanedFacts
<1>5. Base(x) = Cleaned(w)
  BY DEF Base, w, n
<1>6. Cleaned(w).events = [e \in Events |->
        LET s == IF e = Start THEN n ELSE x.events[e] IN IF s = <<>> THEN None ELSE s]
  BY <1>3, <1>4
<1> QED
  BY <1>3, <1>4, <1>5, <1>6 DEF n

LEMMA AppendSet ==
  ASSUME NEW A, NEW s \in Seq(A), NEW e \in A
  PROVE  Append(s, e) \in Seq(A) /\ ToSet(Append(s, e)) = ToSet(s) \cup {e}
<1> DEFINE t == Append(s, e)
<1>1. /\ t \in Seq(A) /\ Len(s) \in Nat /\ Len(t) = Len(s) + 1
      /\ \A i \in 1..Len(s) : t[i] = s[i]
      /\ t[Len(s) + 1] = e
  OBVIOUS
<1>2. DOMAIN s = 1..Len(s) /\ DOMAIN t = 1..Len(t)
  BY <1>1
<1> HIDE DEF t
<1>3. 1..Len(t) = 1..Len(s) \cup {Len(s) + 1}
  BY <1>1
<1> QED
  BY <1>1, <1>2, <1>3 DEF ToSet, t

\* An entry of ours after those that are not ours.
LEMMA OursFacts ==
  ASSUME NEW e \in Seq(Hook), Owned(e), NEW s \in Seq(Seq(Hook))
  PROVE  /\ Append(NotOwned(s), e) \in Seq(Seq(Hook))
         /\ NotOwned(Append(NotOwned(s), e)) = NotOwned(s)
         /\ Filtered(Append(NotOwned(s), e),
              {f \in ToSet(Append(NotOwned(s), e)) : Owned(f)}) = <<e>>
         /\ \E i \in DOMAIN Append(NotOwned(s), e) : Owned(Append(NotOwned(s), e)[i])
<1> DEFINE n == NotOwned(s)
           t == Append(n, e)
           Ours(u) == {f \in ToSet(u) : Owned(f)}
           Theirs(u) == {f \in ToSet(u) : ~Owned(f)}
<1>2. /\ n \in Seq(Seq(Hook)) /\ \A i \in DOMAIN n : ~Owned(n[i])
      /\ NotOwned(n) = n
  BY NotOwnedFacts
<1>3. \A f \in ToSet(n) : ~Owned(f)
  BY <1>2 DEF ToSet
<1> HIDE DEF n
<1>5. t \in Seq(Seq(Hook)) /\ ToSet(t) = ToSet(n) \cup {e}
  BY <1>2, AppendSet
<1>6. NotOwned(t) = n
  <2>1. NotOwned(t) = Filtered(n, Theirs(t))
    <3>1. e \notin Theirs(t)
      OBVIOUS
    <3> HIDE DEF Theirs
    <3>2. Filtered(t, Theirs(t)) = Filtered(n, Theirs(t))
      BY <1>2, <3>1, FilteredAppend
    <3> QED
      BY <3>2 DEF NotOwned, Theirs
  <2>2. Filtered(n, Theirs(t)) = Filtered(n, Theirs(n))
    <3>1. \A f \in ToSet(n) : f \in Theirs(t) <=> f \in Theirs(n)
      BY <1>5
    <3> HIDE DEF Theirs
    <3> QED
      BY <1>2, <3>1, FilteredSame
  <2> QED
    BY <1>2, <2>1, <2>2 DEF NotOwned
<1>7. Filtered(t, Ours(t)) = <<e>>
  <2>1. Filtered(t, Ours(t)) = Append(Filtered(n, Ours(t)), e)
    <3>1. e \in Ours(t)
      BY <1>5
    <3> HIDE DEF Ours
    <3> DEFINE o == Ours(t)
    <3>2. e \in o
      BY <3>1
    <3> HIDE DEF o
    <3>3. Filtered(t, o) = Append(Filtered(n, o), e)
      BY <1>2, <3>2, FilteredAppend
    <3> QED
      BY <3>3 DEF o
  <2>2. Filtered(n, Ours(t)) = <<>>
    <3> DEFINE o == Ours(t)
               r == Filtered(n, o)
    <3>0. ToSet(n) \cap o = {}
      BY <1>3
    <3> HIDE DEF o
    <3>1. r \in Seq(Seq(Hook) \cap o) /\ ToSet(r) = ToSet(n) \cap o
      BY <1>2, FilteredFacts, Zenon
    <3> HIDE DEF r
    <3>2. r \in Seq(Seq(Hook)) /\ ToSet(r) = {}
      BY <3>0, <3>1
    <3>3. r = <<>>
      <4>1. Len(r) \in Nat /\ \A i \in 1..Len(r) : r[i] \in ToSet(r)
        BY <3>2 DEF ToSet
      <4>2. 1..Len(r) = {}
        BY <3>2, <4>1
      <4>3. Len(r) = 0
        BY <4>1, <4>2
      <4> QED
        BY <3>2, <4>3
    <3> QED
      BY <3>3 DEF r, o
  <2>3. Append(<<>>, e) = <<e>>
    OBVIOUS
  <2> HIDE DEF Ours, t
  <2> QED
    BY <2>1, <2>2, <2>3
<1>8. \E i \in DOMAIN t : Owned(t[i])
  <2>1. e \in ToSet(t)
    BY <1>5
  <2> QED
    BY <2>1 DEF ToSet
<1> QED
  BY <1>5, <1>6, <1>7, <1>8 DEF n
\* What installing and uninstalling a hook do to a configuration.
LEMMA InstallFacts ==
  ASSUME NEW x \in HookConfig, NEW b \in Nat, NEW client
  PROVE  LET p == WithHook(client, x, b) IN
         /\ p \in HookConfig
         /\ Base(p).events = Base(x).events
         /\ HookThere(p, b)
         /\ \E i \in DOMAIN Entries(p) : Owned(Entries(p)[i])
         /\ p.enabled = IF client = "zcode" THEN "on" ELSE x.enabled
<1> DEFINE y == IF client = "zcode" THEN [x EXCEPT !.enabled = "on"] ELSE x
           e == <<b>>
           s == Entries(x)
           t == Append(NotOwned(s), e)
           p == WithStart(y, t)
<1>1. /\ y \in HookConfig /\ y.events = x.events
      /\ y.enabled = IF client = "zcode" THEN "on" ELSE x.enabled
  BY DEF HookConfig
<1>2. e \in Seq(Hook) /\ Owned(e) /\ s \in Seq(Seq(Hook))
  BY EntriesType, EditorAssumption DEF Owned, Hook
<1>3. /\ t \in Seq(Seq(Hook)) /\ NotOwned(t) = NotOwned(s)
      /\ Filtered(t, {f \in ToSet(t) : Owned(f)}) = <<e>>
      /\ \E i \in DOMAIN t : Owned(t[i])
  <2> HIDE DEF e, s
  <2> QED
    BY <1>2, OursFacts
<1>4. p = WithHook(client, x, b)
  BY DEF WithHook
<1> HIDE DEF y, s, e, t
<1>5. /\ p \in HookConfig /\ Entries(p) = t /\ p.enabled = y.enabled
      /\ p.events = [d \in Events |-> IF d = Start THEN t ELSE y.events[d]]
  BY <1>1, <1>3, WithStartFacts
<1> HIDE DEF p
<1>6. Base(p).events = Base(x).events
  <2>1. Base(p).events = [d \in Events |->
          LET u == IF d = Start THEN NotOwned(Entries(p)) ELSE p.events[d] IN
          IF u = <<>> THEN None ELSE u]
    BY <1>5, BaseFacts
  <2>2. Base(x).events = [d \in Events |->
          LET u == IF d = Start THEN NotOwned(s) ELSE x.events[d] IN
          IF u = <<>> THEN None ELSE u]
    BY BaseFacts DEF s
  <2> QED
    BY <1>1, <1>3, <1>5, <2>1, <2>2
<1>7. HookThere(p, b)
  BY <1>3, <1>5 DEF HookThere, e
<1> QED
  BY <1>1, <1>3, <1>4, <1>5, <1>6, <1>7

LEMMA UninstallFacts ==
  ASSUME NEW x \in HookConfig, NEW old \in HookConfig \cup {None}, NEW client
  PROVE  LET q == WithoutHook(client, x, old) IN
         /\ q \in HookConfig
         /\ Base(q).events = Base(x).events
         /\ \A i \in DOMAIN Entries(q) : ~Owned(Entries(q)[i])
         /\ q.enabled = IF client = "zcode" /\ Base(x).events = NoEvents
                        THEN IF old = None THEN "absent" ELSE old.enabled
                        ELSE x.enabled
<1> DEFINE y == Base(x)
           flag == IF client = "zcode" /\ y.events = NoEvents
                   THEN IF old = None THEN "absent" ELSE old.enabled
                   ELSE x.enabled
           q == WithoutHook(client, x, old)
           n == NotOwned(Entries(x))
<1>1. /\ n \in Seq(Seq(Hook)) /\ NotOwned(n) = n /\ \A i \in DOMAIN n : ~Owned(n[i])
  <2>1. Entries(x) \in Seq(Seq(Hook))
    BY EntriesType
  <2> QED
    BY <2>1, NotOwnedFacts
<1> HIDE DEF n
<1>2. /\ y \in HookConfig /\ y.enabled = x.enabled /\ Entries(y) = n
      /\ y.events = [d \in Events |->
           LET u == IF d = Start THEN n ELSE x.events[d] IN IF u = <<>> THEN None ELSE u]
  BY BaseFacts DEF n
<1>3. q = IF client = "zcode" /\ y.events = NoEvents THEN [y EXCEPT !.enabled = flag] ELSE y
  BY DEF WithoutHook, Base
<1> HIDE DEF y, q
<1>4. q.events = y.events /\ q.enabled = flag /\ q \in HookConfig
  <2>1. old # None => old.enabled \in {"on", "off", "absent"}
    BY DEF HookConfig
  <2> QED
    BY <1>2, <1>3, <2>1 DEF HookConfig
<1>5. Entries(q) = n
  BY <1>2, <1>4 DEF Entries
<1>6. Base(q).events = y.events
  <2>1. Base(q).events = [d \in Events |->
          LET u == IF d = Start THEN NotOwned(Entries(q)) ELSE q.events[d] IN
          IF u = <<>> THEN None ELSE u]
    BY <1>4, BaseFacts
  <2>2. Base(q).events = [d \in Events |->
          LET u == IF d = Start THEN n ELSE y.events[d] IN IF u = <<>> THEN None ELSE u]
    BY <1>1, <1>4, <1>5, <2>1
  <2>3. ASSUME NEW d \in Events
        PROVE  (LET u == IF d = Start THEN n ELSE y.events[d] IN IF u = <<>> THEN None ELSE u)
                 = y.events[d]
    BY <1>2
  <2>4. y.events = [d \in Events |-> y.events[d]]
    BY <1>2
  <2> QED
    BY <2>2, <2>3, <2>4
<1> QED
  BY <1>1, <1>4, <1>5, <1>6 DEF q, y
LEMMA ThereFacts ==
  ASSUME NEW x \in HookConfig, NEW b \in Nat, HookThere(x, b)
  PROVE  \E i \in DOMAIN Entries(x) : Owned(Entries(x)[i])
<1> DEFINE s == Entries(x)
           o == {e \in ToSet(s) : Owned(e)}
<1>1. s \in Seq(Seq(Hook)) /\ Filtered(s, o) = << <<b>> >>
  BY EntriesType DEF HookThere
<1>2. \A f : f \in ToSet(<<f>>)
  BY DEF ToSet
<1>3. <<b>> \in ToSet(Filtered(s, o))
  BY <1>1, <1>2
<1>4. ToSet(Filtered(s, o)) = ToSet(s) \cap o
  <2> HIDE DEF s, o
  <2> QED
    BY <1>1, FilteredFacts, Zenon
<1>5. \E f \in ToSet(s) : Owned(f)
  BY <1>3, <1>4
<1> QED
  BY <1>5 DEF ToSet

\* The ways that a load goes.
LEMMA LoadCases ==
  ASSUME TypeOK, Load
  PROVE  /\ At("load") /\ Client \in Clients /\ command.cmd \in {"install", "uninstall"}
         /\ \/ Skipped(Client) /\ command' = NextClient
            \/ \E x \in ReadAs(Client) :
                 /\ ~Skipped(Client)
                 /\ \/ Unreadable(x) /\ command' \in {NextClient, Idle}
                    \/ /\ ~Unreadable(x) /\ x \in Contents(Client)
                       /\ Plan(Client, x) = None /\ command' = NextClient
                    \/ /\ ~Unreadable(x) /\ x \in Contents(Client)
                       /\ Plan(Client, x) # None /\ Plan(Client, x) \in Contents(Client)
                       /\ command'.pc = (IF InPlace THEN "write" ELSE "backup")
                       /\ command'.plan = Plan(Client, x)
                       /\ command'.cmd = command.cmd /\ command'.todo = command.todo
<1>1. At("load") /\ ~At("idle") /\ command.cmd \in {"install", "uninstall"}
  BY DEF Load, At, TypeOK
<1>2. Client \in Clients
  BY <1>1, ClientType
<1>3. DOMAIN command = {"pc", "cmd", "todo", "every", "plan", "source"}
  BY DEF TypeOK, Idle
<1>4. PICK x \in ReadAs(Client) :
        command' = CASE Skipped(Client) -> NextClient
                     [] Unreadable(x) /\ ~Skipped(Client) ->
                          IF command.cmd = "uninstall" /\ ~IsHook(Client) THEN NextClient ELSE Idle
                     [] ~Unreadable(x) /\ ~Skipped(Client) ->
                          IF Plan(Client, x) = None THEN NextClient
                          ELSE [command EXCEPT !.plan = Plan(Client, x),
                                               !.pc = IF InPlace THEN "write" ELSE "backup"]
  BY DEF Load
<1>5. ~Unreadable(x) => x \in Contents(Client) /\ Plan(Client, x) \in Contents(Client) \cup {None}
  BY <1>1, <1>2, ReadAsType, PlanType
<1>6. CASE Skipped(Client)
  BY <1>1, <1>2, <1>4, <1>6
<1>7. CASE ~Skipped(Client) /\ Unreadable(x)
  BY <1>1, <1>2, <1>4, <1>7
<1>8. CASE ~Skipped(Client) /\ ~Unreadable(x) /\ Plan(Client, x) = None
  BY <1>1, <1>2, <1>4, <1>5, <1>8
<1>9. CASE ~Skipped(Client) /\ ~Unreadable(x) /\ Plan(Client, x) # None
  <2> DEFINE p == Plan(Client, x)
             r == [command EXCEPT !.plan = p, !.pc = IF InPlace THEN "write" ELSE "backup"]
  <2>1. command' = r
    BY <1>4, <1>9
  <2>2. /\ r.pc = (IF InPlace THEN "write" ELSE "backup") /\ r.plan = p
        /\ r.cmd = command.cmd /\ r.todo = command.todo
    <3> HIDE DEF p
    <3> QED
      BY <1>3
  <2> HIDE DEF r
  <2> QED
    BY <1>1, <1>2, <1>5, <1>9, <2>1, <2>2
<1> QED
  BY <1>6, <1>7, <1>8, <1>9

\* All other steps leave the command, go on with its client, or end or leave it.
LEMMA Course ==
  ASSUME TypeOK, Next, ~Load
  PROVE  \/ UNCHANGED command
         \/ command'.pc \in {"idle", "load"}
         \/ /\ ~At("idle") /\ ~At("load")
            /\ command'.plan = command.plan /\ command'.todo = command.todo
            /\ command'.cmd = command.cmd
<1> DEFINE On == /\ ~At("idle") /\ ~At("load")
                 /\ command'.plan = command.plan /\ command'.todo = command.todo
                 /\ command'.cmd = command.cmd
<1>1. ASSUME NEW cmd, Run(cmd) PROVE command'.pc = "load"
  BY <1>1 DEF Run, Idle
<1>2. ASSUME BackUp PROVE On
  <2>1. ~At("idle") /\ ~At("load")
    BY <1>2 DEF BackUp, StartBackup, At
  <2>2. CASE command' = [command EXCEPT !.pc = "replace"]
    BY <2>1, <2>2, GoIs
  <2>3. ASSUME NEW p, NEW x, command' = [command EXCEPT !.pc = p, !.source = x]
        PROVE  On
    BY <2>1, <2>3, CopyIs
  <2> HIDE DEF On
  <2> QED
    BY <1>2, <2>2, <2>3 DEF BackUp, StartBackup, Go
<1>3. ASSUME RemoveOld PROVE On
  BY <1>3, GoIs DEF RemoveOld, Go, At
<1>4. ASSUME Finish, ~At("idle") PROVE command'.pc \in {"idle", "load"}
  BY <1>4, NextClientType DEF Finish
<1>5. ASSUME Rename PROVE command'.pc \in {"idle", "load"}
  BY <1>4, <1>5 DEF Rename, At
<1>6. ASSUME Write PROVE On \/ command'.pc \in {"idle", "load"}
  <2>1. CASE At("writing") /\ Finish
    BY <1>4, <2>1 DEF At
  <2>2. CASE At("write") /\ Go("writing")
    BY <2>2, GoIs DEF Go, At
  <2> QED
    BY <1>6, <2>1, <2>2 DEF Write
<1>7. ASSUME Crash PROVE command'.pc = "idle"
  BY <1>7 DEF Crash, Idle
<1>8. ASSUME NEW c, NEW x, Edit(c, x) PROVE UNCHANGED command
  BY <1>8 DEF Edit
<1>9. ASSUME Upgrade PROVE UNCHANGED command
  BY <1>9 DEF Upgrade
<1> QED
  BY <1>1, <1>2, <1>3, <1>5, <1>6, <1>7, <1>8, <1>9 DEF Next

----------------------------------------------------------------------------
(* The status after a command.                                             *)

StatusOf(c, x) == IF IsHook(c) THEN HasOurs(c, x) ELSE Whole(x) /\ Configured(c, x)

\* What is written has the status that the command asks for.
LEMMA PlanStatus ==
  ASSUME TypeOK, NEW c \in Clients, NEW x \in Contents(c), command.cmd # "none",
         Plan(c, x) # None
  PROVE  StatusOf(c, Plan(c, x)) <=> command.cmd = "install"
<1>1. /\ binary \in Nat /\ command.cmd \in {"install", "uninstall"}
      /\ Plan(c, x) \in Contents(c) /\ Whole(Plan(c, x))
  BY PlanType, ClientsFacts DEF TypeOK
<1>2. CASE IsHook(c)
  <2>1. Contents(c) = HookConfig
    BY <1>2 DEF Contents
  <2>2. CASE command.cmd = "install"
    <3>1. Plan(c, x) = WithHook(c, x, binary)
      BY <1>2, <2>2 DEF Plan
    <3>2. \E i \in DOMAIN Entries(WithHook(c, x, binary)) :
            Owned(Entries(WithHook(c, x, binary))[i])
      BY <1>1, <2>1, InstallFacts
    <3> QED
      BY <1>1, <1>2, <2>2, <3>1, <3>2 DEF StatusOf, HasOurs
  <2>3. CASE command.cmd = "uninstall"
    <3> DEFINE old == IF Whole(backup[c]) THEN backup[c] ELSE None
    <3>1. Plan(c, x) = WithoutHook(c, x, old)
      BY <1>2, <2>3 DEF Plan
    <3>2. old \in HookConfig \cup {None}
      BY <2>1 DEF TypeOK, Whole
    <3> HIDE DEF old
    <3>3. \A i \in DOMAIN Entries(WithoutHook(c, x, old)) :
            ~Owned(Entries(WithoutHook(c, x, old))[i])
      BY <2>1, <3>2, UninstallFacts
    <3> QED
      BY <1>1, <1>2, <2>3, <3>1, <3>3 DEF StatusOf, HasOurs
  <2> QED
    BY <1>1, <2>2, <2>3
<1>3. CASE ~IsHook(c)
  <2>1. x \in ServerConfig(c)
    BY <1>3 DEF Contents
  <2>2. CASE command.cmd = "install"
    <3>1. Plan(c, x) = WithServer(c, x, binary)
      BY <1>3, <2>2 DEF Plan
    <3>2. Configured(c, WithServer(c, x, binary))
      BY <1>1, <2>1, EditorAssumption DEF WithServer, Configured, ServerConfig
    <3> QED
      BY <1>1, <1>3, <2>2, <3>1, <3>2 DEF StatusOf
  <2>3. CASE command.cmd = "uninstall"
    <3>1. Plan(c, x) = WithoutServer(c, x)
      BY <1>3, <2>3 DEF Plan
    <3>2. WithoutServer(c, x).ours = None
      BY <2>1 DEF WithoutServer, ServerConfig
    <3> QED
      BY <1>1, <1>3, <2>3, <3>1, <3>2 DEF StatusOf, Configured
  <2> QED
    BY <1>1, <2>2, <2>3
<1> QED
  BY <1>2, <1>3

PlanInv ==
  command.pc \notin {"idle", "load"} =>
    (StatusOf(Client, command.plan) <=> command.cmd = "install")

LEMMA PlanStep ==
  ASSUME TypeOK, PlanInv, [Next]_vars
  PROVE  PlanInv'
<1>s. ASSUME NEW c, NEW x PROVE StatusOf(c, x)' = StatusOf(c, x)
  BY DEF StatusOf, HasOurs, IsHook, Whole
<1>1. ASSUME \/ UNCHANGED command
             \/ command'.pc \in {"idle", "load"}
             \/ /\ ~At("idle") /\ ~At("load")
                /\ command'.plan = command.plan /\ command'.todo = command.todo
                /\ command'.cmd = command.cmd
      PROVE  PlanInv'
  BY <1>1 DEF PlanInv, StatusOf, HasOurs, IsHook, Whole, Client, At
<1>2. CASE Load
  <2>1. NextClient.pc \in {"idle", "load"} /\ Idle.pc = "idle"
    BY <1>2, NextClientType DEF Load, At, Idle
  <2>2. CASE command' \in {NextClient, Idle}
    BY <1>1, <2>1, <2>2
  <2>3. ASSUME NEW x \in ReadAs(Client), x \in Contents(Client), Plan(Client, x) # None,
               command'.plan = Plan(Client, x),
               command'.cmd = command.cmd, command'.todo = command.todo
        PROVE  PlanInv'
    <3>1. Client \in Clients /\ command.cmd # "none"
      BY <1>2, LoadCases
    <3>2. StatusOf(Client, Plan(Client, x)) <=> command.cmd = "install"
      BY <2>3, <3>1, PlanStatus
    <3> QED
      BY <2>3, <3>2 DEF PlanInv, StatusOf, HasOurs, IsHook, Whole, Client
  <2> QED
    BY <1>2, <2>2, <2>3, LoadCases
<1>3. CASE Next /\ ~Load
  BY <1>1, <1>3, Course
<1> QED
  BY <1>1, <1>2, <1>3 DEF vars

LEMMA PlanInvariant == Spec => [](TypeOK /\ PlanInv)
<1>1. Init => PlanInv
  BY DEF Init, PlanInv, Idle
<1> QED
  BY <1>1, InitType, TypeStep, PlanStep, PTL DEF Spec

LEMMA StatusStep ==
  ASSUME TypeOK, PlanInv, Next, NEW c \in Clients, ~At("idle"), c = Client,
         command'.todo # command.todo, Load \/ Rename \/ Write,
         At("load") => ~Unreadable(file[c]) /\ ~(c = "codex" /\ HasOurs(c, file[c]))
  PROVE  Status(c)' <=> command.cmd = "install"
<1>1. (Status(c) <=> StatusOf(c, file[c])) /\ (Status(c)' <=> StatusOf(c, file'[c]))
  BY DEF Status, StatusOf, HasOurs, IsHook, Whole
<1>f. ASSUME Finish, ~At("idle"), ~At("load")
      PROVE  StatusOf(c, file'[c]) <=> command.cmd = "install"
  <2>1. file'[c] = command.plan
    BY <1>f DEF Finish, TypeOK
  <2> QED
    BY <1>f, <2>1 DEF PlanInv, At
<1>2. CASE Rename
  BY <1>1, <1>2, <1>f DEF Rename, At
<1>3. CASE Write
  <2>1. Go("writing") => command'.todo = command.todo
    BY GoIs DEF Go
  <2>2. At("writing") /\ Finish
    BY <1>3, <2>1 DEF Write
  <2> QED
    BY <1>1, <1>f, <2>2 DEF At
<1>4. CASE Load
  <2>1. At("load") /\ command.cmd \in {"install", "uninstall"} /\ UNCHANGED file
    <3>1. UNCHANGED file
      BY <1>4 DEF Load
    <3> QED
      BY <1>4, <3>1, LoadCases
  <2>2. ~StatusOf(c, None) /\ ~HasOurs(c, None)
    BY DEF StatusOf, HasOurs, Whole
  <2>3. SUFFICES StatusOf(c, file[c]) <=> command.cmd = "install"
    BY <1>1, <2>1
  <2>4. CASE Skipped(c)
    BY <1>1, <2>1, <2>2, <2>4 DEF Skipped
  <2>5. ASSUME NEW x \in ReadAs(c), ~Unreadable(x), x \in Contents(c), Plan(c, x) = None
        PROVE  StatusOf(c, file[c]) <=> command.cmd = "install"
    <3>1. (x = file[c] /\ Whole(file[c])) \/ (x = Empty[c] /\ file[c] = None)
      BY <2>1, <2>5 DEF ReadAs, Unreadable, Whole
    <3>2. CASE IsHook(c)
      <4>1. x \in HookConfig /\ Whole(x) /\ binary \in Nat
        BY <2>5, <3>2, ClientsFacts DEF Contents, TypeOK
      <4>2. Empty[c] = [enabled |-> "absent", events |-> NoEvents]
        BY <3>2, EditorAssumption
      <4>3. StatusOf(c, x) <=> command.cmd = "install"
        <5>1. CASE command.cmd = "install"
          <6>1. Plan(c, x) = IF HookThere(x, binary) THEN None ELSE WithHook(c, x, binary)
            BY <3>2, <5>1 DEF Plan
          <6>2. WithHook(c, x, binary) # None
            BY <2>5, <3>2, <4>1, InstallFacts, ClientsFacts DEF Contents
          <6> QED
            BY <2>5, <3>2, <4>1, <5>1, <6>1, <6>2, ThereFacts DEF StatusOf, HasOurs
        <5>2. CASE command.cmd = "uninstall"
          <6> DEFINE old == IF Whole(backup[c]) THEN backup[c] ELSE None
          <6>1. Plan(c, x) = IF HasOurs(c, x) THEN WithoutHook(c, x, old) ELSE None
            BY <3>2, <5>2 DEF Plan
          <6>2. old \in HookConfig \cup {None}
            BY <3>2 DEF Contents, TypeOK, Whole
          <6> HIDE DEF old
          <6>3. WithoutHook(c, x, old) # None
            BY <3>2, <4>1, <6>2, UninstallFacts, ClientsFacts DEF Contents
          <6> QED
            BY <2>5, <3>2, <5>2, <6>1, <6>3 DEF StatusOf
        <5> QED
          BY <2>1, <5>1, <5>2
      <4>4. ~HasOurs(c, Empty[c])
        BY <3>2, <4>2, EditorAssumption DEF HasOurs, Entries, NoEvents
      <4> QED
        BY <2>1, <2>2, <2>5, <3>1, <3>2, <4>3, <4>4 DEF StatusOf
    <3>3. CASE ~IsHook(c)
      <4>1. x \in ServerConfig(c) /\ Whole(x) /\ binary \in Nat
        BY <2>5, <3>3, ClientsFacts DEF Contents, TypeOK
      <4>2. Empty[c].ours = None
        BY <3>3, EditorAssumption
      <4>3. CASE command.cmd = "install"
        <5>1. WithServer(c, x, binary) # None
          BY <3>3, <4>1, ServerTypes, ClientsFacts DEF Contents
        <5>2. c = "codex" /\ x.ours # None
          BY <2>5, <3>3, <4>3, <5>1 DEF Plan
        <5> QED
          BY <3>1, <3>3, <4>2, <4>3, <5>2 DEF StatusOf, Configured
      <4>4. CASE command.cmd = "uninstall"
        <5>1. WithoutServer(c, x) # None
          BY <3>3, <4>1, ServerTypes, ClientsFacts DEF Contents
        <5>2. x.ours \in {None, Mentioned}
          BY <2>5, <3>3, <4>4, <5>1 DEF Plan, ServerThere
        <5>3. c = "codex" \/ x.ours = None
          BY <4>1, <5>2, EditorAssumption DEF ServerConfig
        <5>4. file[c] # None => file[c].ours = None
          BY <2>1, <3>1, <3>3, <4>1, <5>3 DEF HasOurs
        <5> QED
          BY <2>2, <3>1, <3>3, <4>4, <5>4 DEF StatusOf, Configured
      <4> QED
        BY <2>1, <4>3, <4>4
    <3> QED
      BY <3>2, <3>3
  <2>6. ASSUME NEW x \in ReadAs(c), Unreadable(x) PROVE FALSE
    <3>1. ~Unreadable(file[c])
      BY <2>1
    <3>2. x \in {Empty[c], file[c]}
      BY <2>6, <3>1 DEF ReadAs, Unreadable
    <3>3. ~Unreadable(Empty[c])
      BY ClientsFacts DEF Unreadable
    <3> QED
      BY <2>6, <3>1, <3>2, <3>3
  <2> QED
    BY <1>4, <2>4, <2>5, <2>6, LoadCases
<1> QED
  BY <1>2, <1>3, <1>4

\* What a command has gone through has the status it asked for.
THEOREM StatusCorrect == Spec => StatusFollows
<1>1. ASSUME TypeOK, PlanInv, [Next]_vars
      PROVE  [\A c \in Clients :
                /\ ~At("idle") /\ c = Client /\ command'.todo # command.todo
                /\ Load \/ Rename \/ Write
                /\ touched = {}
                /\ At("load") => ~Unreadable(file[c]) /\ ~(c = "codex" /\ HasOurs(c, file[c]))
                => (Status(c)' <=> command.cmd = "install")]_vars
  <2>1. CASE Next
    BY <1>1, <2>1, StatusStep
  <2>2. CASE UNCHANGED vars
    BY <2>2
  <2> QED
    BY <1>1, <2>1, <2>2
<1> QED
  BY <1>1, PlanInvariant, PTL DEF Spec, StatusFollows
----------------------------------------------------------------------------
(* Uninstalling after installing.                                          *)

LEMMA BaseSame ==
  ASSUME NEW x \in HookConfig, \A i \in DOMAIN Entries(x) : ~Owned(Entries(x)[i])
  PROVE  Base(x).events = Cleaned(x).events
<1>1. NotOwned(Entries(x)) = Entries(x)
  <2>1. Entries(x) \in Seq(Seq(Hook))
    BY EntriesType
  <2> QED
    BY <2>1, NotOwnedFacts
<1>2. Base(x).events = [e \in Events |->
        LET s == IF e = Start THEN Entries(x) ELSE x.events[e] IN
        IF s = <<>> THEN None ELSE s]
  BY <1>1, BaseFacts
<1>3. Cleaned(x).events = [e \in Events |-> IF x.events[e] = <<>> THEN None ELSE x.events[e]]
  BY CleanedFacts
<1>4. ASSUME NEW e \in Events
      PROVE  (LET s == IF e = Start THEN Entries(x) ELSE x.events[e] IN
              IF s = <<>> THEN None ELSE s)
               = IF x.events[e] = <<>> THEN None ELSE x.events[e]
  BY DEF Entries
<1> QED
  BY <1>2, <1>3, <1>4

Flag(b) == IF Whole(b) THEN b.enabled ELSE "absent"
Shapes(c) == {"object", "toml", IF c = "continue" THEN "list" ELSE "object"}

\* An uninstall gives w back, from the content x with the backup b and our
\* hooks of the binary bin: now if x has none of ours, later if it has.
Kept(c, x, b, w, bin) ==
  /\ w \in Contents(c)
  /\ IF IsHook(c)
     THEN /\ Base(x).events = Cleaned(w).events
          /\ HasOurs(c, x) => HookThere(x, bin)
          /\ Cleaned(w).events = NoEvents =>
               (IF HasOurs(c, x) /\ c = "zcode" THEN Flag(b) ELSE x.enabled) = w.enabled
     ELSE w.shape \in Shapes(c) => x.others = w.others /\ x.shape \in Shapes(c)

LEMMA KeptPlan ==
  ASSUME TypeOK, NEW c \in Clients, NEW x \in Contents(c), NEW w, command.cmd # "none",
         Kept(c, x, backup[c], w, binary), Plan(c, x) # None,
         \/ x = file[c]
         \/ /\ file[c] = None /\ x = Empty[c] /\ w = x
            /\ c = "zcode" => backup[c] = None
  PROVE  Kept(c, Plan(c, x), IF file[c] = None THEN backup[c] ELSE file[c], w, binary)
<1> DEFINE B == IF file[c] = None THEN backup[c] ELSE file[c]
<1>1. /\ binary \in Nat /\ command.cmd \in {"install", "uninstall"}
      /\ Plan(c, x) \in Contents(c) /\ Whole(Plan(c, x)) /\ Whole(x) /\ w \in Contents(c)
  BY PlanType, ClientsFacts DEF TypeOK, Kept
<1>b. file[c] # None => B = x
  BY DEF B
<1>2. CASE IsHook(c)
  <2>1. Contents(c) = HookConfig
    BY <1>2 DEF Contents
  <2>2. CASE command.cmd = "install"
    <3> DEFINE p == WithHook(c, x, binary)
    <3>1. Plan(c, x) = p /\ ~HookThere(x, binary)
      BY <1>2, <2>2 DEF Plan
    <3>2. ~HasOurs(c, x)
      BY <1>2, <3>1 DEF Kept
    <3>3. /\ Base(p).events = Base(x).events /\ HookThere(p, binary)
          /\ \E i \in DOMAIN Entries(p) : Owned(Entries(p)[i])
          /\ p.enabled = IF c = "zcode" THEN "on" ELSE x.enabled
      BY <1>1, <2>1, InstallFacts
    <3> HIDE DEF p
    <3>4. HasOurs(c, p)
      BY <1>1, <1>2, <3>1, <3>3 DEF HasOurs
    <3>5. ASSUME Cleaned(w).events = NoEvents
          PROVE  (IF c = "zcode" THEN Flag(B) ELSE p.enabled) = w.enabled
      <4>1. x.enabled = w.enabled
        BY <1>2, <3>2, <3>5 DEF Kept
      <4>2. CASE file[c] = None
        <5>1. x.enabled = "absent" /\ (c = "zcode" => B = None)
          BY <1>2, <4>2, EditorAssumption, ClientsFacts
        <5> QED
          BY <3>3, <4>1, <5>1 DEF Flag, Whole
      <4>3. CASE file[c] # None
        BY <1>1, <1>b, <3>3, <4>1, <4>3 DEF Flag
      <4> QED
        BY <4>2, <4>3
    <3> HIDE DEF B
    <3>6. Kept(c, p, B, w, binary)
      BY <1>1, <1>2, <3>3, <3>4, <3>5 DEF Kept
    <3> QED
      BY <3>1, <3>6 DEF B
  <2>3. CASE command.cmd = "uninstall"
    <3> DEFINE old == IF Whole(backup[c]) THEN backup[c] ELSE None
               q == WithoutHook(c, x, old)
    <3>1. Plan(c, x) = q /\ HasOurs(c, x)
      BY <1>2, <2>3 DEF Plan
    <3>2. old \in HookConfig \cup {None}
      BY <2>1 DEF TypeOK, Whole
    <3>o. Flag(backup[c]) = IF old = None THEN "absent" ELSE old.enabled
      BY DEF Flag, Whole
    <3> HIDE DEF old
    <3>3. /\ Base(q).events = Base(x).events
          /\ \A i \in DOMAIN Entries(q) : ~Owned(Entries(q)[i])
          /\ q.enabled = IF c = "zcode" /\ Base(x).events = NoEvents
                         THEN IF old = None THEN "absent" ELSE old.enabled
                         ELSE x.enabled
      BY <2>1, <3>2, UninstallFacts
    <3> HIDE DEF q, B
    <3>4. ~HasOurs(c, q)
      BY <1>2, <3>3 DEF HasOurs
    <3>5. ASSUME Cleaned(w).events = NoEvents PROVE q.enabled = w.enabled
      <4>1. Base(x).events = NoEvents
        BY <1>2, <3>5 DEF Kept
      <4>2. (IF c = "zcode" THEN Flag(backup[c]) ELSE x.enabled) = w.enabled
        BY <1>2, <3>1, <3>5 DEF Kept
      <4> QED
        BY <3>o, <3>3, <4>1, <4>2
    <3>6. Kept(c, q, B, w, binary)
      BY <1>1, <1>2, <3>3, <3>4, <3>5 DEF Kept
    <3> QED
      BY <3>1, <3>6 DEF B
  <2> QED
    BY <1>1, <2>2, <2>3
<1>3. CASE ~IsHook(c)
  <2>1. x \in ServerConfig(c) /\ w \in ServerConfig(c)
    BY <1>1, <1>3 DEF Contents
  <2>2. w.shape \in Shapes(c) => x.others = w.others /\ x.shape \in Shapes(c)
    BY <1>3 DEF Kept
  <2>3. \/ Plan(c, x) = WithServer(c, x, binary)
        \/ Plan(c, x) = WithoutServer(c, x)
    BY <1>1, <1>3 DEF Plan
  <2>4. x.shape \in Shapes(c) =>
          /\ WithServer(c, x, binary).others = x.others
          /\ WithServer(c, x, binary).shape \in Shapes(c)
    <3>1. CASE c = "codex"
      BY <2>1, <3>1 DEF WithServer, ServerConfig, Shapes
    <3>2. CASE c = "continue"
      BY <2>1, <3>2 DEF WithServer, ServerConfig, Shapes
    <3>3. CASE c \notin {"codex", "continue"}
      BY <2>1, <3>3 DEF WithServer, ServerConfig, Shapes
    <3> QED
      BY <3>1, <3>2, <3>3
  <2>5. WithoutServer(c, x).others = x.others /\ WithoutServer(c, x).shape = x.shape
    BY <2>1 DEF WithoutServer, ServerConfig
  <2> QED
    BY <1>1, <1>3, <2>2, <2>3, <2>4, <2>5 DEF Kept
<1> QED
  BY <1>2, <1>3
Was(c) == IF first[c] = None THEN Empty[c] ELSE first[c]

\* The backup that there is when the plan is written.
BackupThen ==
  CASE At("backup") -> IF file[Client] = None THEN backup[Client] ELSE file[Client]
    [] At("copy") -> command.source
    [] OTHER -> backup[Client]

\* A command is going to write to c.
Busy(c) == command.pc \notin {"idle", "load"} /\ c = Client

\* What makes UninstallRestores inductive: uninstalling gives first back at
\* any time, from what is going to be written when a command is at it.
KeptInv ==
  \A c \in Clients :
    first[c] # NotKnown =>
      IF Busy(c) THEN Kept(c, command.plan, BackupThen, Was(c), binary)
      ELSE /\ file[c] # Half
           /\ file[c] = None => first[c] = None /\ (c = "zcode" => backup[c] = None)
           /\ Whole(file[c]) => Kept(c, file[c], backup[c], Was(c), binary)

\* A configuration without ours is kept as it is.
LEMMA KeptSelf ==
  ASSUME NEW c \in Clients, NEW x \in Contents(c), ~HasOurs(c, x), NEW b, NEW bin
  PROVE  Kept(c, x, b, x, bin)
<1>1. CASE IsHook(c)
  <2>1. x \in HookConfig /\ Whole(x)
    BY <1>1, ClientsFacts DEF Contents
  <2>2. Base(x).events = Cleaned(x).events
    BY <1>1, <2>1, BaseSame DEF HasOurs
  <2> QED
    BY <1>1, <2>2 DEF Kept
<1>2. CASE ~IsHook(c)
  BY <1>2 DEF Kept
<1> QED
  BY <1>1, <1>2

\* What does not depend on ours does not depend on its binary.
LEMMA KeptAnyBinary ==
  ASSUME NEW c, NEW x, NEW b, NEW w, NEW bin, NEW new, Kept(c, x, b, w, bin), ~HasOurs(c, x)
  PROVE  Kept(c, x, b, w, new)
BY DEF Kept

\* Another client: nothing of it changes.
LEMMA KeptOther ==
  ASSUME KeptInv, NEW c \in Clients, first'[c] # NotKnown, ~Busy(c), ~Busy(c)',
         first'[c] = first[c], file'[c] = file[c], backup'[c] = backup[c], binary' = binary
  PROVE  /\ file'[c] # Half
         /\ file'[c] = None => first'[c] = None /\ (c = "zcode" => backup'[c] = None)
         /\ Whole(file'[c]) => Kept(c, file'[c], backup'[c], Was(c)', binary')
<1>1. Was(c)' = Was(c)
  BY DEF Was
<1> QED
  BY <1>1 DEF KeptInv

LEMMA KeptStep ==
  ASSUME TypeOK, TypeOK', KeptInv, [Next]_vars
  PROVE  KeptInv'
<1> SUFFICES ASSUME NEW c \in Clients, first'[c] # NotKnown
             PROVE  IF Busy(c)' THEN Kept(c, command'.plan, BackupThen', Was(c)', binary')
                    ELSE /\ file'[c] # Half
                         /\ file'[c] = None => first'[c] = None /\ (c = "zcode" => backup'[c] = None)
                         /\ Whole(file'[c]) => Kept(c, file'[c], backup'[c], Was(c)', binary')
  BY DEF KeptInv
<1> DEFINE Goal == IF Busy(c)' THEN Kept(c, command'.plan, BackupThen', Was(c)', binary')
                    ELSE /\ file'[c] # Half
                         /\ file'[c] = None => first'[c] = None /\ (c = "zcode" => backup'[c] = None)
                         /\ Whole(file'[c]) => Kept(c, file'[c], backup'[c], Was(c)', binary')
<1>w. first'[c] = first[c] => Was(c)' = Was(c)
  BY DEF Was
<1>o. ASSUME first'[c] = first[c], file'[c] = file[c], backup'[c] = backup[c], binary' = binary,
             ~Busy(c), ~Busy(c)'
      PROVE  Goal
  BY <1>o, KeptOther
<1>1. ASSUME NEW cmd \in {"install", "uninstall"}, Run(cmd) PROVE Goal
  <2>1. ~Busy(c) /\ ~Busy(c)'
    BY <1>1 DEF Run, Busy, At, Idle
  <2> QED
    BY <1>1, <1>o, <2>1 DEF Run
<1>2. ASSUME Load PROVE Goal
  <2>1. ~Busy(c) /\ UNCHANGED <<file, backup, binary, first>>
    BY <1>2 DEF Load, Busy, At
  <2>2. CASE ~Busy(c)'
    BY <1>o, <2>1, <2>2
  <2>3. CASE Busy(c)'
    <3>1. PICK x \in ReadAs(Client) :
            /\ ~Unreadable(x) /\ x \in Contents(Client) /\ Plan(Client, x) # None
            /\ command'.pc = (IF InPlace THEN "write" ELSE "backup")
            /\ command'.plan = Plan(Client, x) /\ command'.todo = command.todo
      <4>1. command' # NextClient /\ command' # Idle
        <5>1. ~At("idle")
          BY <1>2 DEF Load, At
        <5>2. NextClient.pc \in {"idle", "load"} /\ Idle.pc = "idle"
          BY <5>1, NextClientType DEF Idle
        <5>3. command'.pc \notin {"idle", "load"}
          BY <2>3 DEF Busy
        <5> QED
          BY <5>2, <5>3
      <4>2. \E x \in ReadAs(Client) :
              /\ ~Skipped(Client)
              /\ \/ Unreadable(x) /\ command' \in {NextClient, Idle}
                 \/ /\ ~Unreadable(x) /\ x \in Contents(Client)
                    /\ Plan(Client, x) = None /\ command' = NextClient
                 \/ /\ ~Unreadable(x) /\ x \in Contents(Client)
                    /\ Plan(Client, x) # None /\ Plan(Client, x) \in Contents(Client)
                    /\ command'.pc = (IF InPlace THEN "write" ELSE "backup")
                    /\ command'.plan = Plan(Client, x)
                    /\ command'.cmd = command.cmd /\ command'.todo = command.todo
        BY <1>2, <4>1, LoadCases
      <4> QED
        BY <4>1, <4>2
    <3>2. c = Client /\ Client' = Client
      BY <2>3, <3>1 DEF Busy, Client
    <3>3. /\ file[c] # Half
          /\ file[c] = None => first[c] = None /\ (c = "zcode" => backup[c] = None)
          /\ Whole(file[c]) => Kept(c, file[c], backup[c], Was(c), binary)
      BY <2>1 DEF KeptInv
    <3>4. \/ x = file[c] /\ Whole(file[c])
          \/ /\ file[c] = None /\ x = Empty[c] /\ Was(c) = x
             /\ c = "zcode" => backup[c] = None
      BY <3>1, <3>2, <3>3 DEF ReadAs, Was, Unreadable, Whole
    <3>5. Kept(c, x, backup[c], Was(c), binary)
      <4>1. ~HasOurs(c, Empty[c])
        <5>1. CASE IsHook(c)
          BY <5>1, EditorAssumption DEF HasOurs, Entries, NoEvents
        <5>2. CASE ~IsHook(c)
          BY <5>2, EditorAssumption DEF HasOurs
        <5> QED
          BY <5>1, <5>2
      <4> QED
        BY <3>1, <3>2, <3>3, <3>4, <4>1, KeptSelf
    <3>6. command.cmd # "none"
      BY <1>2, LoadCases
    <3>7. Kept(c, Plan(c, x), IF file[c] = None THEN backup[c] ELSE file[c], Was(c), binary)
      BY <3>1, <3>2, <3>4, <3>5, <3>6, KeptPlan
    <3>8. BackupThen' = (IF file[c] = None THEN backup[c] ELSE file[c]) \/ c = "codex"
      BY <2>1, <3>1, <3>2 DEF BackupThen, InPlace, At
    <3>9. Kept("codex", Plan(c, x), BackupThen', Was(c), binary) \/ c # "codex"
      <4>1. c = "codex" => ~IsHook(c)
        BY ClientsFacts
      <4> QED
        BY <3>7, <4>1 DEF Kept
    <3> QED
      BY <1>w, <2>1, <2>3, <3>1, <3>2, <3>7, <3>8, <3>9
  <2> QED
    BY <2>2, <2>3
<1>3. ASSUME BackUp PROVE Goal
  <2>1. ~At("idle") /\ ~At("load") /\ UNCHANGED <<file, binary, first>>
    BY <1>3 DEF BackUp, StartBackup, At
  <2>2. Client \in Clients
    BY <2>1, ClientType
  <2>3. /\ command'.plan = command.plan /\ Client' = Client /\ command'.pc \in {"copy", "replace"}
        /\ c # Client => backup'[c] = backup[c]
        /\ BackupThen' = BackupThen
    <3>1. CASE At("backup") /\ file[Client] = None
      <4>1. command' = [command EXCEPT !.pc = "replace"] /\ UNCHANGED <<file, backup>>
        BY <1>3, <3>1 DEF BackUp, StartBackup, Go, At
      <4>2. command'.pc = "replace" /\ Client' = Client /\ command'.plan = command.plan
        BY <4>1, GoIs DEF Client
      <4> QED
        BY <3>1, <4>1, <4>2 DEF BackupThen, At
    <3>2. CASE At("backup") /\ file[Client] # None
      <4>1. /\ command' = [command EXCEPT !.pc = "copy", !.source = file[Client]]
            /\ backup' = [backup EXCEPT ![Client] = Half]
        BY <1>3, <3>2 DEF BackUp, StartBackup, At
      <4>2. /\ command'.pc = "copy" /\ command'.source = file[Client]
            /\ Client' = Client /\ command'.plan = command.plan
        BY <4>1, CopyIs DEF Client
      <4> QED
        BY <3>2, <4>1, <4>2 DEF BackupThen, At, TypeOK
    <3>3. CASE At("copy")
      <4>1. /\ command' = [command EXCEPT !.pc = "replace", !.source = None]
            /\ backup' = [backup EXCEPT ![Client] = command.source]
        BY <1>3, <3>3 DEF BackUp, StartBackup, At
      <4>2. command'.pc = "replace" /\ Client' = Client /\ command'.plan = command.plan
        BY <4>1, CopyIs DEF Client
      <4> QED
        BY <2>2, <3>3, <4>1, <4>2 DEF BackupThen, At, TypeOK
    <3> QED
      BY <1>3, <3>1, <3>2, <3>3 DEF BackUp, StartBackup
  <2>4. (Busy(c) <=> c = Client) /\ (Busy(c)' <=> c = Client)
    BY <2>1, <2>3 DEF Busy, At
  <2>5. CASE c = Client
    BY <1>w, <2>1, <2>3, <2>4, <2>5 DEF KeptInv
  <2>6. CASE c # Client
    BY <1>o, <2>1, <2>3, <2>4, <2>6
  <2> QED
    BY <2>5, <2>6
<1>4. ASSUME RemoveOld PROVE Goal
  <2>1. /\ At("replace") /\ UNCHANGED <<backup, binary, first>>
        /\ command'.pc = "rename" /\ Client' = Client /\ command'.plan = command.plan
    BY <1>4, GoIs DEF RemoveOld, Go, Client
  <2>2. Client \in Clients /\ (c # Client => file'[c] = file[c])
    BY <1>4, <2>1, ClientType DEF RemoveOld, At, TypeOK
  <2>3. BackupThen' = BackupThen
    BY <2>1 DEF BackupThen, At
  <2>4. (Busy(c) <=> c = Client) /\ (Busy(c)' <=> c = Client)
    BY <2>1 DEF Busy, At
  <2>5. CASE c = Client
    BY <1>w, <2>1, <2>3, <2>4, <2>5 DEF KeptInv
  <2>6. CASE c # Client
    BY <1>o, <2>1, <2>2, <2>4, <2>6
  <2> QED
    BY <2>5, <2>6
<1>5. ASSUME Finish, command.pc \in {"replace", "rename", "writing"} PROVE Goal
  <2>1. /\ ~At("idle") /\ ~At("load") /\ UNCHANGED <<backup, binary>>
        /\ BackupThen = backup[Client]
    BY <1>5 DEF Finish, At, BackupThen
  <2>2. Client \in Clients /\ command.plan \in Contents(Client)
    BY <2>1, ClientType DEF At, TypeOK
  <2>3. ~Busy(c)'
    BY <1>5, <2>1, NextClientType DEF Finish, Busy
  <2>4. first'[c] = first[c]
    BY <1>5 DEF Finish, TypeOK
  <2>5. CASE c = Client
    <3>1. file'[c] = command.plan
      BY <1>5, <2>5 DEF Finish, TypeOK
    <3>2. Kept(c, command.plan, backup[c], Was(c), binary)
      BY <2>1, <2>4, <2>5 DEF KeptInv, Busy, At
    <3> QED
      BY <1>w, <2>1, <2>2, <2>3, <2>4, <2>5, <3>1, <3>2, ClientsFacts
  <2>6. CASE c # Client
    <3>1. file'[c] = file[c] /\ ~Busy(c)
      BY <1>5, <2>6 DEF Finish, Busy, TypeOK
    <3> QED
      BY <1>o, <2>1, <2>3, <2>4, <3>1
  <2> QED
    BY <2>5, <2>6
<1>6. ASSUME Rename PROVE Goal
  BY <1>5, <1>6 DEF Rename, At
<1>7. ASSUME Write PROVE Goal
  <2>1. CASE At("writing") /\ Finish
    BY <1>5, <2>1 DEF At
  <2>2. CASE /\ At("write") /\ Go("writing") /\ file' = [file EXCEPT ![Client] = Half]
             /\ UNCHANGED <<backup, binary, runs, edits, touched, first, settled>>
    <3>1. command'.pc = "writing" /\ Client' = Client /\ command'.plan = command.plan
      BY <2>2, GoIs DEF Go, Client
    <3>2. Client \in Clients /\ (c # Client => file'[c] = file[c])
      BY <2>2, ClientType DEF At, TypeOK
    <3>3. BackupThen' = BackupThen
      BY <2>2, <3>1 DEF BackupThen, At
    <3>4. (Busy(c) <=> c = Client) /\ (Busy(c)' <=> c = Client)
      BY <2>2, <3>1 DEF Busy, At
    <3>5. CASE c = Client
      BY <1>w, <2>2, <3>1, <3>3, <3>4, <3>5 DEF KeptInv
    <3>6. CASE c # Client
      BY <1>o, <2>2, <3>2, <3>4, <3>6
    <3> QED
      BY <3>5, <3>6
  <2> QED
    BY <1>7, <2>1, <2>2 DEF Write
<1>8. ASSUME Crash PROVE Goal
  <2>1. c # Client
    BY <1>8 DEF Crash, TypeOK
  <2>2. ~Busy(c) /\ ~Busy(c)' /\ first'[c] = first[c]
    BY <1>8, <2>1 DEF Crash, Busy, Idle, TypeOK
  <2> QED
    BY <1>8, <1>o, <2>2 DEF Crash
<1>9. ASSUME NEW d \in Clients, NEW x \in Settings[d] \cup {None, Broken}, Edit(d, x) PROVE Goal
  <2>1. UNCHANGED <<backup, command, binary>>
    BY <1>9 DEF Edit
  <2>2. CASE c = d
    <3>1. At("idle") /\ ~HasOurs(c, x) /\ first'[c] = x /\ file'[c] = x
      BY <1>9, <2>2 DEF Edit, TypeOK
    <3>2. x \in Contents(c) \cup {None, Broken} /\ x # Half /\ ~Busy(c)'
      BY <2>1, <2>2, <3>1, ClientsFacts, EditorAssumption DEF Busy, At
    <3>3. CASE x \in Contents(c)
      <4>1. Was(c)' = x /\ x # None
        BY <3>1, <3>3, ClientsFacts DEF Was
      <4>2. Kept(c, x, backup'[c], x, binary')
        BY <3>1, <3>3, KeptSelf
      <4> QED
        BY <3>1, <3>2, <4>1, <4>2
    <3>4. CASE x = None
      <4>1. c = "zcode" => backup'[c] = None
        BY <1>9, <2>2, <3>4, <3>1 DEF Edit, StaleBackup, TypeOK
      <4> QED
        BY <3>1, <3>2, <3>4, <4>1 DEF Whole
    <3>5. CASE x = Broken
      BY <3>1, <3>2, <3>5, EditorAssumption DEF Whole
    <3> QED
      BY <3>2, <3>3, <3>4, <3>5
  <2>3. CASE c # d
    <3>1. file'[c] = file[c] /\ first'[c] = first[c]
      BY <1>9, <2>3 DEF Edit, TypeOK
    <3>2. CASE Busy(c)
      <4>1. Busy(c)' /\ BackupThen' = BackupThen
        BY <2>1, <3>1, <3>2 DEF Busy, BackupThen, At, Client
      <4> QED
        BY <1>w, <2>1, <3>1, <3>2, <4>1 DEF KeptInv
    <3>3. CASE ~Busy(c)
      <4>1. ~Busy(c)'
        BY <2>1, <3>3 DEF Busy, Client
      <4> QED
        BY <1>o, <2>1, <3>1, <3>3, <4>1
    <3> QED
      BY <3>2, <3>3
  <2> QED
    BY <2>2, <2>3
<1>10. ASSUME Upgrade PROVE Goal
  <2>1. At("idle") /\ ~HasOurs(c, file[c]) /\ first'[c] = first[c]
        /\ UNCHANGED <<file, backup, command>>
    BY <1>10 DEF Upgrade
  <2>2. ~Busy(c) /\ ~Busy(c)'
    BY <2>1 DEF Busy, At
  <2>3. /\ file[c] # Half
        /\ file[c] = None => first[c] = None /\ (c = "zcode" => backup[c] = None)
        /\ Whole(file[c]) => Kept(c, file[c], backup[c], Was(c), binary)
    BY <2>1, <2>2 DEF KeptInv
  <2>4. Whole(file[c]) => Kept(c, file[c], backup[c], Was(c), binary')
    BY <2>1, <2>3, KeptAnyBinary
  <2> QED
    BY <1>w, <2>1, <2>2, <2>3, <2>4
<1>11. ASSUME UNCHANGED vars PROVE Goal
  <2>1. UNCHANGED <<file, backup, command, binary, first>>
    BY <1>11 DEF vars
  <2>2. (Busy(c)' <=> Busy(c)) /\ BackupThen' = BackupThen
    BY <2>1 DEF Busy, BackupThen, At, Client
  <2> QED
    BY <1>w, <2>1, <2>2 DEF KeptInv
<1> HIDE DEF Goal
<1>12. Goal
  BY <1>1, <1>2, <1>3, <1>4, <1>6, <1>7, <1>8, <1>9, <1>10, <1>11 DEF Next
<1> QED
  BY <1>12 DEF Goal

LEMMA KeptInit == Init => KeptInv
<1> SUFFICES ASSUME Init, NEW c \in Clients, first[c] # NotKnown
             PROVE  /\ ~Busy(c) /\ file[c] # Half
                    /\ file[c] = None => first[c] = None /\ (c = "zcode" => backup[c] = None)
                    /\ Whole(file[c]) => Kept(c, file[c], backup[c], Was(c), binary)
  BY DEF KeptInv
<1>1. TypeOK
  BY InitType
<1>2. ~Busy(c)
  BY DEF Init, Busy, Idle
<1>3. file[c] \in Contents(c) \cup {None, Broken}
  <2>1. PICK d \in Clients : \E y \in Settings[d] \cup {Broken} :
          file = [e \in Clients |-> IF e = d THEN y ELSE None]
    BY DEF Init
  <2> QED
    BY <2>1, ClientsFacts
<1>4. first[c] = file[c] /\ ~HasOurs(c, file[c])
  BY DEF Init
<1>5. Whole(file[c]) => Kept(c, file[c], backup[c], Was(c), binary)
  BY <1>3, <1>4, KeptSelf DEF Was, Whole
<1> QED
  BY <1>2, <1>3, <1>4, <1>5, ClientsFacts, EditorAssumption DEF Init

\* An uninstall gives back what was there before any number of installs and
\* uninstalls, with the exceptions that UninstallRestores names.
THEOREM UninstallCorrect == Spec => []UninstallRestores
<1>1. ASSUME TypeOK, KeptInv PROVE UninstallRestores
  <2> SUFFICES ASSUME At("idle"), NEW c \in Clients,
                      first[c] # NotKnown, Whole(file[c]), ~HasOurs(c, file[c])
               PROVE  IF IsHook(c)
                      THEN /\ Cleaned(file[c]).events = Cleaned(Was(c)).events
                           /\ Cleaned(Was(c)).events = NoEvents => file[c].enabled = Was(c).enabled
                      ELSE Was(c).shape \in Shapes(c) => file[c].others = Was(c).others
    BY DEF UninstallRestores, Was, Shapes
  <2>1. Kept(c, file[c], backup[c], Was(c), binary)
    BY <1>1 DEF KeptInv, Busy, At
  <2>2. CASE IsHook(c)
    <3>1. file[c] \in HookConfig
      BY <1>1, <2>2 DEF TypeOK, Whole, Contents
    <3>2. Base(file[c]).events = Cleaned(file[c]).events
      BY <2>2, <3>1, BaseSame DEF HasOurs
    <3> QED
      BY <2>1, <2>2, <3>2 DEF Kept
  <2>3. CASE ~IsHook(c)
    BY <2>1, <2>3 DEF Kept
  <2> QED
    BY <2>2, <2>3
<1> QED
  BY <1>1, InitType, TypeStep, KeptInit, KeptStep, PTL DEF Spec
=============================================================================
