------------------------------ MODULE Scaffold ------------------------------
(***************************************************************************)
(* pacto-bot-admin new, scaffold and update (admin.rs, scaffold/): how a   *)
(* project directory grows bot by bot.                                     *)
(*                                                                         *)
(* A command resolves a template, renders it to a temporary directory,     *)
(* enters the bot in the project's config, merges the rendered files one   *)
(* at a time and writes the bot's lock last.  Files are written in place,  *)
(* so a command that fails or is killed leaves what it has done; only the  *)
(* lock is renamed into place.  Between commands the user edits files.     *)
(***************************************************************************)
EXTENDS Naturals, FiniteSets

CONSTANTS
    Bots,
    None,
    Protected,    \* bot files the template's manifest protects, of "code", "aux"
    MaxCommands,  \* bound: commands the user runs
    MaxEdits      \* bound: files the user writes to between them

\* A bot's code and one more file of it, and a file of the whole project.
BotFiles(b) == {b} \X {"code", "aux"}
Readme == <<None, "readme">>
Compose == <<None, "docker-compose.yml">>
Files == {Readme} \cup UNION {BotFiles(b) : b \in Bots}

\* OverwritePolicy: --force, else a prompt at a terminal, else nobody to ask.
Policies == {"force", "ask", "batch"}

Steps == {"locate", "repo", "clone", "manifest", "contract", "sdk", "tool",
          "prerender", "render", "config", "entry", "merge", "bot", "lock", "rename"}

\* A command is what it was called with, the step it is at, the files it has
\* still to merge and the one it is writing.
CommandRecords ==
    [kind : {"new", "scaffold", "update"}, bot : Bots, policy : Policies,
     pinned : BOOLEAN, step : Steps, todo : SUBSET (Files \cup {Compose}),
     writing : Files \cup {Compose, None}]

ASSUME ScaffoldAssumption ==
    /\ None \notin Bots \cup Files
    /\ None \notin CommandRecords
    /\ Protected \subseteq {"code", "aux"}
    /\ {MaxCommands, MaxEdits} \subseteq Nat

VARIABLES
    config,    \* pacto-bot-api.toml: the entries in it, whether it exists, is torn
    compose,   \* docker-compose.yml: the services in it, whether it exists, is torn
    file,      \* every other file: absent, torn, rendered, edited, secret
    lock,      \* each bot's scaffold.lock: absent, tag, pinned
    tmp,       \* the file next to it that becomes the lock
    cache,     \* the cached template repository: none, broken, ok
    cut,       \* history: files a command was writing when it was killed
    unserved,  \* history: bots whose service is not in a compose file that was kept
    cmd,       \* the command that runs, or None
    commands,  \* commands run
    edits      \* files written to by the user

project == <<config, compose, file, lock, tmp, cut, unserved>>
vars == <<project, cache, cmd, commands, edits>>

Init ==
    /\ config = [exists |-> FALSE, bots |-> {}, torn |-> FALSE]
    /\ compose = config
    /\ file = [f \in Files |-> "absent"]
    /\ lock = [b \in Bots |-> "absent"]
    /\ tmp = [b \in Bots |-> "absent"]
    /\ cut = {} /\ unserved = {}
    /\ cache = "none" /\ cmd = None /\ commands = 0 /\ edits = 0

-----------------------------------------------------------------------------
\* Commands.

Command(kind, b, policy, pinned) ==
    /\ cmd = None /\ commands < MaxCommands
    /\ commands' = commands + 1
    /\ cmd' = [kind |-> kind, bot |-> b, policy |-> policy, pinned |-> pinned,
               step |-> "locate", todo |-> {Readme, Compose}, writing |-> None]
    /\ UNCHANGED <<project, cache, edits>>

\* new --scaffold: a bot nobody knows.
NewProject(b, policy, pinned) == Command("new", b, policy, pinned)

\* scaffold: the bot is in the project's config, or in another one named with
\* --config.
ScaffoldBot(b, policy, pinned) ==
    /\ \E elsewhere \in BOOLEAN : elsewhere \/ (b \in config.bots /\ ~config.torn)
    /\ Command("scaffold", b, policy, pinned)

\* read_lock refuses a lock that is missing or cannot be parsed.
ReadLock(b) == lock[b] \in {"tag", "pinned"}

\* A lock of a semver tag floats to the newest tag, any other stays at its commit.
ResolveTemplateRefForUpdate(b) == lock[b] = "pinned"

UpdateBot(b, policy) ==
    /\ ReadLock(b)
    /\ Command("update", b, policy, ResolveTemplateRefForUpdate(b))

\* new without --scaffold writes a config of its own; over one that exists only
\* with --force.
NewIdentity(b, force) ==
    /\ cmd = None /\ commands < MaxCommands
    /\ config.exists => force
    /\ commands' = commands + 1
    /\ config' = [exists |-> TRUE, bots |-> {b}, torn |-> FALSE]
    /\ UNCHANGED <<compose, file, lock, tmp, cut, unserved, cache, cmd, edits>>

At(s) == cmd # None /\ cmd.step = s

Goto(s) == cmd' = [cmd EXCEPT !.step = s]

\* An error, or the end: what was done stays.
End == cmd' = None

\* The process is killed.
Crash ==
    /\ cmd # None
    /\ End
    /\ cut' = cut \cup ({cmd.writing} \cap Files)
    /\ UNCHANGED <<config, compose, file, lock, tmp, unserved, cache, commands, edits>>

-----------------------------------------------------------------------------
\* The template.  Nothing of the project is touched until it is rendered.

\* A step that succeeds or ends the command.
Try(s, t) ==
    /\ At(s)
    /\ Goto(t) \/ End
    /\ UNCHANGED <<project, cache, commands, edits>>

\* Resolver::resolve_template: a directory is used as it is; of a repository the
\* ref is the one asked for, or git_latest_semver_tag.
UseLocalTemplate == Try("locate", "manifest")
LocateTemplate == Try("locate", "repo")

\* Cache::ensure_repo: a clone is fetched into, anything else is removed and
\* cloned anew; --refresh removes a clone, too.  A clone that was cut off looks
\* like one.
BeginClone ==
    /\ At("repo")
    /\ cache' = "broken"
    /\ Goto("clone")
    /\ UNCHANGED <<project, commands, edits>>

EndClone ==
    /\ At("clone")
    /\ \/ cache' = "ok" /\ Goto("manifest")
       \/ UNCHANGED cache /\ End
    /\ UNCHANGED <<project, commands, edits>>

FetchRepo ==
    /\ At("repo") /\ cache # "none"
    /\ \/ cache = "ok" /\ Goto("manifest")
       \/ End
    /\ UNCHANGED <<project, cache, commands, edits>>

\* Cache::prune, with --prune-cache before the command or by age.
Prune ==
    /\ cmd = None
    /\ cache # "none" /\ cache' = "none"
    /\ UNCHANGED <<project, cmd, commands, edits>>

\* Resolver::load_manifest and the check of the daemon's version.
LoadManifest == Try("manifest", "contract")

\* resolve_contract_version, resolve_sdk_version: a version in range, cached,
\* published or bundled.
ResolveContract == Try("contract", "sdk")
ResolveSdk == Try("sdk", "tool")

\* render_template: cargo-generate is there and new enough; a copy of the
\* template is filled in; cargo-generate renders it to a directory of its own.
CheckCargoGenerate == Try("tool", "prerender")
PreRender == Try("prerender", "render")

\* An update has nothing to enter in the config.
Render == At("render") /\ Try("render", IF cmd.kind = "update" THEN "merge" ELSE "config")

-----------------------------------------------------------------------------
\* decide_write

\* A mutant: --force is asked before the deny-list.
DecideWriteForced(exists, protected) ==
    IF ~exists \/ cmd.policy = "force" THEN {"write"}
    ELSE IF protected THEN {"fail"}
    ELSE IF cmd.policy = "ask" THEN {"write", "skip"}
    ELSE {IF cmd.kind # "new" THEN "skip" ELSE "fail"}

\* A mutant: with nobody to ask, what exists is written over.
DecideWriteUnasked(exists, protected) ==
    IF ~exists THEN {"write"}
    ELSE IF protected THEN {"fail"}
    ELSE IF cmd.policy = "ask" THEN {"write", "skip"}
    ELSE {"write"}

\* What may be decided about a file: the answer at the terminal is the user's.
\* scaffold, and update without --force, skip what exists when nobody is asked.
DecideWrite(exists, protected) ==
    IF ~exists THEN {"write"}
    ELSE IF protected THEN {"fail"}
    ELSE IF cmd.policy = "force" THEN {"write"}
    ELSE IF cmd.policy = "ask" THEN {"write", "skip"}
    ELSE {IF cmd.kind # "new" THEN "skip" ELSE "fail"}

\* The manifest's protected files of this bot, and files with a key in them.
IsProtected(f) ==
    \/ f \in {cmd.bot} \X Protected
    \/ file[f] = "secret"

-----------------------------------------------------------------------------
\* The config.

\* A mutant: new adds its entry to a config that exists.
WriteConfigSnippetAppended ==
    /\ At("config") /\ cmd.kind = "new"
    /\ Goto("entry")
    /\ config' = [config EXCEPT !.exists = TRUE]
    /\ UNCHANGED <<compose, file, lock, tmp, cut, unserved, cache, commands, edits>>

\* write_config_snippet: the config is on the deny-list, so that new works only
\* where there is none; fs::write creates it before it has any entry.
WriteConfigSnippet ==
    /\ At("config") /\ cmd.kind = "new"
    /\ IF "fail" \in DecideWrite(config.exists, TRUE)
       THEN End /\ UNCHANGED config
       ELSE Goto("entry") /\ config' = [exists |-> TRUE, bots |-> {}, torn |-> FALSE]
    /\ UNCHANGED <<compose, file, lock, tmp, cut, unserved, cache, commands, edits>>

\* append_config_entry: a config that has the bot is left alone, a populated one
\* that does not parse is an error.  A config that exists is appended to in place.
AppendConfigEntry ==
    /\ At("config") /\ cmd.kind = "scaffold"
    /\ IF config.torn
       THEN End /\ UNCHANGED config
       ELSE IF cmd.bot \in config.bots
       THEN Goto("merge") /\ UNCHANGED config
       ELSE Goto("entry") /\ config' = [config EXCEPT !.exists = TRUE, !.torn = config.exists]
    /\ UNCHANGED <<compose, file, lock, tmp, cut, unserved, cache, commands, edits>>

WriteEntry ==
    /\ At("entry")
    /\ config' = [exists |-> TRUE, bots |-> config.bots \cup {cmd.bot}, torn |-> FALSE]
    /\ Goto("merge")
    /\ UNCHANGED <<compose, file, lock, tmp, cut, unserved, cache, commands, edits>>

-----------------------------------------------------------------------------
\* merge_rendered: the project's files, then the bot's, each tree in any order.

Merging == At("merge") \/ At("bot")

\* The next file: what becomes of it is one of the decisions.
MergeFile(f) ==
    /\ Merging /\ cmd.writing = None
    /\ f \in cmd.todo \cap Files
    /\ \E d \in DecideWrite(file[f] # "absent", IsProtected(f)) :
          CASE d = "write" -> /\ cmd' = [cmd EXCEPT !.writing = f]
                              /\ file' = [file EXCEPT ![f] = "torn"]
            [] d = "skip" -> /\ cmd' = [cmd EXCEPT !.todo = @ \ {f}]
                             /\ UNCHANGED file
            [] d = "fail" -> End /\ UNCHANGED file
    /\ UNCHANGED <<config, compose, lock, tmp, cut, unserved, cache, commands, edits>>

FinishFile ==
    /\ Merging /\ cmd.writing \in Files
    /\ file' = [file EXCEPT ![cmd.writing] = "rendered"]
    /\ cmd' = [cmd EXCEPT !.writing = None, !.todo = @ \ {cmd.writing}]
    /\ cut' = cut \ {cmd.writing}
    /\ UNCHANGED <<config, compose, lock, tmp, unserved, cache, commands, edits>>

\* append_compose_services, except for a new project, where the file is merged
\* as any other.  What cannot be parsed cannot be appended to.
MergeCompose ==
    /\ At("merge") /\ cmd.writing = None /\ Compose \in cmd.todo
    /\ \/ /\ cmd.kind # "new" /\ compose.torn
          /\ End /\ UNCHANGED <<compose, unserved>>
       \/ /\ cmd.kind = "new" \/ ~compose.torn
          /\ \E d \in DecideWrite(compose.exists, FALSE) :
                CASE d = "write" -> /\ cmd' = [cmd EXCEPT !.writing = Compose]
                                    /\ compose' = [compose EXCEPT !.exists = TRUE, !.torn = TRUE]
                                    /\ UNCHANGED unserved
                  [] d = "skip" -> /\ cmd' = [cmd EXCEPT !.todo = @ \ {Compose}]
                                   /\ unserved' = unserved \cup ({cmd.bot} \ compose.bots)
                                   /\ UNCHANGED compose
                  [] d = "fail" -> End /\ UNCHANGED <<compose, unserved>>
    /\ UNCHANGED <<config, file, lock, tmp, cut, cache, commands, edits>>

\* The services were read before the file was truncated: `bots` keeps them.
FinishCompose ==
    /\ At("merge") /\ cmd.writing = Compose
    /\ LET before == IF cmd.kind = "new" THEN {} ELSE compose.bots
       IN  compose' = [exists |-> TRUE, bots |-> before \cup {cmd.bot}, torn |-> FALSE]
    /\ cmd' = [cmd EXCEPT !.writing = None, !.todo = @ \ {Compose}]
    /\ unserved' = unserved \ {cmd.bot}
    /\ UNCHANGED <<config, file, lock, tmp, cut, cache, commands, edits>>

\* A mutant: the bot's files are left to a later command once there is a lock
\* to say which.
EndTreeEarly ==
    /\ Merging /\ cmd.writing = None /\ cmd.todo = {}
    /\ Goto("lock")
    /\ UNCHANGED <<project, cache, commands, edits>>

\* The project's tree is merged: the bot's; that is merged, too: the lock.
EndTree ==
    /\ Merging /\ cmd.writing = None /\ cmd.todo = {}
    /\ IF At("merge")
       THEN cmd' = [cmd EXCEPT !.step = "bot", !.todo = BotFiles(cmd.bot)]
       ELSE Goto("lock")
    /\ UNCHANGED <<project, cache, commands, edits>>

-----------------------------------------------------------------------------
\* write_lock

WriteLock ==
    /\ At("lock")
    /\ tmp' = [tmp EXCEPT ![cmd.bot] = "torn"]
    /\ Goto("rename")
    /\ UNCHANGED <<config, compose, file, lock, cut, unserved, cache, commands, edits>>

RenameLock ==
    /\ At("rename")
    /\ lock' = [lock EXCEPT ![cmd.bot] = IF cmd.pinned THEN "pinned" ELSE "tag"]
    /\ tmp' = [tmp EXCEPT ![cmd.bot] = "absent"]
    /\ End
    /\ UNCHANGED <<config, compose, file, cut, unserved, cache, commands, edits>>

-----------------------------------------------------------------------------
\* The user, between commands: works on the files, puts a key in one, repairs
\* a config that does not parse.

EditFile(f, text) ==
    /\ cmd = None /\ edits < MaxEdits /\ file[f] # "absent"
    /\ file' = [file EXCEPT ![f] = text]
    /\ cut' = cut \ {f}
    /\ edits' = edits + 1
    /\ UNCHANGED <<config, compose, lock, tmp, unserved, cache, cmd, commands>>

RepairConfig ==
    /\ cmd = None /\ config.torn
    /\ config' = [config EXCEPT !.torn = FALSE]
    /\ UNCHANGED <<compose, file, lock, tmp, cut, unserved, cache, cmd, commands, edits>>

Next ==
    \/ \E b \in Bots, policy \in Policies, pinned \in BOOLEAN :
          NewProject(b, policy, pinned) \/ ScaffoldBot(b, policy, pinned)
    \/ \E b \in Bots, policy \in Policies : UpdateBot(b, policy)
    \/ \E b \in Bots, force \in BOOLEAN : NewIdentity(b, force)
    \/ \E f \in Files, text \in {"edited", "secret"} : EditFile(f, text)
    \/ RepairConfig \/ Prune \/ Crash
    \/ UseLocalTemplate \/ LocateTemplate \/ BeginClone \/ EndClone \/ FetchRepo
    \/ LoadManifest \/ ResolveContract \/ ResolveSdk
    \/ CheckCargoGenerate \/ PreRender \/ Render
    \/ WriteConfigSnippet \/ AppendConfigEntry \/ WriteEntry
    \/ \E f \in Files : MergeFile(f)
    \/ FinishFile \/ MergeCompose \/ FinishCompose \/ EndTree
    \/ WriteLock \/ RenameLock

Spec == Init /\ [][Next]_vars

-----------------------------------------------------------------------------
\* A bot's lock, which update reads, is absent or whole at every moment, also
\* when the command that writes it is killed: write_lock renames.
TypeOK ==
    /\ {config, compose} \subseteq [exists : BOOLEAN, bots : SUBSET Bots, torn : BOOLEAN]
    /\ config.bots # {} \/ config.torn => config.exists
    /\ file \in [Files -> {"absent", "torn", "rendered", "edited", "secret"}]
    /\ lock \in [Bots -> {"absent", "tag", "pinned"}]
    /\ tmp \in [Bots -> {"absent", "torn"}]
    /\ cut \subseteq Files /\ unserved \subseteq Bots
    /\ cache \in {"none", "broken", "ok"}
    /\ cmd # None => /\ cmd.bot \in Bots
                     /\ cmd.step \in Steps
                     /\ cmd.todo \subseteq Files \cup {Compose}
    /\ commands \in 0..MaxCommands /\ edits \in 0..MaxEdits

\* What a bot's lock vouches for, written last as it is: each of the bot's files
\* and the project's exist, and are whole unless a kill fell into the copying of
\* one (cut): a torn file stays where it is when the command is repeated with
\* nobody to ask, and that command writes the lock.  The compose file exists,
\* and a kill tore it, or it has the bot's service, or it was kept without it
\* when the user or nobody was asked (append_compose_services).
CompleteWhenLocked ==
    \A b \in Bots :
        lock[b] # "absent" =>
            /\ \A f \in BotFiles(b) \cup {Readme} :
                  /\ file[f] # "absent"
                  /\ file[f] = "torn" => f \in cut \/ (cmd # None /\ cmd.writing = f)
            /\ compose.exists
            /\ compose.torn \/ b \in compose.bots \cup unserved

\* new --scaffold writes files only where no other bot has any: the config,
\* which every earlier command wrote before its files, stops it, with --force
\* too.  That is why it may write docker-compose.yml without appending to it.
NewIsFirst ==
    cmd # None /\ cmd.kind = "new" /\ cmd.step \in {"merge", "bot", "lock", "rename"} =>
        /\ config.bots = {cmd.bot}
        /\ compose.bots \subseteq {cmd.bot}
        /\ \A b \in Bots \ {cmd.bot} :
              /\ lock[b] = "absent"
              /\ \A f \in BotFiles(b) : file[f] = "absent"

\* No scaffolding command drops a bot's identity from the project's config (plain
\* new --force, NewIdentity, writes a config of its own), whatever it
\* was forced to and wherever an earlier one was killed.
IdentitiesKept == [][cmd # None => config.bots \subseteq config'.bots]_vars

\* Without --force, what the user wrote survives every command: a protected file
\* and a file with a key in it always, any other one unless the user is asked
\* and agrees; with nobody to ask nothing is written over.
EditsSurvive ==
    [][\A f \in Files :
          /\ cmd # None /\ cmd.policy # "force"
          /\ file[f] \in {"edited", "secret"} /\ file'[f] # file[f]
          => ~IsProtected(f) /\ cmd.policy = "ask"]_vars

\* What the README says of the files a manifest protects: "use --force to
\* override them".  An update with --force writes such a file.
ForceOverrides ==
    [][\A f \in Files :
          /\ cmd # None /\ cmd.kind = "update" /\ cmd.policy = "force"
          /\ f \in {cmd.bot} \X Protected /\ file[f] # "secret"
          /\ MergeFile(f)
          => cmd' # None /\ cmd'.writing = f]_vars

=============================================================================
