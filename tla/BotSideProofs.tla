--------------------------- MODULE BotSideProofs ----------------------------
(***************************************************************************)
(* Proofs about the two parts of the system on a bot author's side: the    *)
(* project that the scaffolding commands write (Scaffold) and the session  *)
(* of the SDK with the daemon (SdkSession, with EventStreams).             *)
(*                                                                         *)
(* Scaffold, for any number of bots, commands and edits and whatever the   *)
(* template protects: the type invariant, what a lock says of a bot's      *)
(* files, that new --scaffold comes first, and what no command may do to   *)
(* identities and to the user's edits.                                     *)
(*                                                                         *)
(* SdkSession, for any ids, channels and limits: the type invariant, and   *)
(* that a registration has one receiver at most.                           *)
(***************************************************************************)
EXTENDS Scaffold, SdkSession, TLAPS

-----------------------------------------------------------------------------
\* The inductive invariant

Early == {"locate", "repo", "clone", "manifest", "contract", "sdk", "tool",
          "prerender", "render", "config"}
Late == {"merge", "bot", "lock", "rename"}

CommandTyped == cmd # None => cmd \in CommandRecords

\* The compose file is there, with the service of b or kept without it.
Served(b) == compose.exists = TRUE /\ b \in compose.bots \cup unserved

\* The project's own files that the command has behind it are there.
ProjectMerged ==
    /\ Readme \in cmd.todo \/ file[Readme] # "absent"
    /\ Compose \in cmd.todo \/ Served(cmd.bot)

\* So are the bot's.
BotMerged(todo) == \A f \in BotFiles(cmd.bot) : f \in todo \/ file[f] # "absent"

\* What a command still has to merge, it merges in this order: the project's
\* tree, the bot's tree, the lock.
Progress ==
    cmd # None =>
        /\ cmd.step \in Early \cup {"entry", "merge"} =>
              cmd.todo \subseteq {Readme, Compose} /\ ProjectMerged
        /\ cmd.step \in {"bot", "lock", "rename"} =>
              file[Readme] # "absent" /\ Served(cmd.bot)
        /\ cmd.step = "bot" => cmd.todo \subseteq BotFiles(cmd.bot) /\ BotMerged(cmd.todo)
        /\ cmd.step \in {"lock", "rename"} => BotMerged({})

\* The file being written is one the tree at hand still has to merge, and is torn.
WritingTorn ==
    cmd # None =>
        /\ cmd.writing = None \/ (cmd.writing \in cmd.todo /\ cmd.step \in {"merge", "bot"})
        /\ cmd.writing \in Files => file[cmd.writing] = "torn"

\* A torn file is being written or was when a command was killed.
TornIsCut ==
    \A f \in Files : file[f] = "torn" => f \in cut \/ (cmd # None /\ cmd.writing = f)

\* What a lock vouches for, whether or not a kill tore the compose file.
Locked ==
    \A b \in Bots :
        lock[b] # "absent" => /\ \A f \in BotFiles(b) \cup {Readme} : file[f] # "absent"
                              /\ Served(b)

NothingOf(b) ==
    /\ lock[b] = "absent"
    /\ \A f \in BotFiles(b) : file[f] = "absent"

\* Without a config there is nothing else: every command enters its bot first,
\* and a bot that is updated has a lock, hence was entered.
NothingWithoutConfig ==
    /\ config.exists = TRUE \/ (compose.bots = {} /\ \A b \in Bots : NothingOf(b))
    /\ cmd # None /\ (cmd.kind = "update" \/ cmd.step \in {"entry"} \cup Late)
          => config.exists = TRUE

\* A new project that has a config has that one bot.
Alone ==
    cmd # None /\ cmd.kind = "new" /\ cmd.step \in {"entry"} \cup Late =>
        /\ config.bots = IF cmd.step = "entry" THEN {} ELSE {cmd.bot}
        /\ compose.bots \subseteq {cmd.bot}
        /\ \A b \in Bots \ {cmd.bot} : NothingOf(b)

Inv ==
    /\ TypeOK /\ CommandTyped /\ Locked /\ TornIsCut
    /\ Progress /\ WritingTorn /\ NothingWithoutConfig /\ Alone

-----------------------------------------------------------------------------
\* The files

\* The paths of a project: no file is two of the project's readme, its compose
\* file and the files of its bots (scaffold/merge.rs merges the trees apart).
LEMMA Paths ==
    /\ Readme \in Files /\ Readme # Compose /\ Compose \notin Files
    /\ None \notin Files
    /\ \A b \in Bots : /\ BotFiles(b) \subseteq Files
                       /\ Readme \notin BotFiles(b) /\ Compose \notin BotFiles(b)
    /\ \A b, c \in Bots : b # c => BotFiles(b) \cap BotFiles(c) = {}
<1> USE ScaffoldAssumption
<1>1. Readme \in Files /\ Readme # Compose /\ None \notin Files
  BY DEF Readme, Compose, Files
<1>2. ASSUME NEW b \in Bots
      PROVE  BotFiles(b) \subseteq Files /\ Readme \notin BotFiles(b) /\ Compose \notin BotFiles(b)
  BY DEF Readme, Compose, Files, BotFiles
<1>3. Compose \notin Files
  BY <1>1, <1>2 DEF Files
<1>4. \A b, c \in Bots : b # c => BotFiles(b) \cap BotFiles(c) = {}
  BY DEF BotFiles
<1> QED
  BY <1>1, <1>2, <1>3, <1>4

\* Every step a command may be at is of the type invariant's list.
LEMMA StepsAre == Steps = Early \cup {"entry"} \cup Late
BY DEF Steps, Early, Late

\* main, before any command: the directory is empty.
LEMMA InitInv == Init => Inv
<1> SUFFICES ASSUME Init PROVE Inv
  OBVIOUS
<1> USE ScaffoldAssumption DEF Init
<1>1. TypeOK
  BY DEF TypeOK
<1>2. CommandTyped /\ Locked /\ TornIsCut /\ Progress /\ WritingTorn /\ Alone
  BY DEF CommandTyped, Locked, TornIsCut, Served, Progress, WritingTorn, Alone
<1>3. NothingWithoutConfig
  BY Paths DEF NothingWithoutConfig, NothingOf
<1> QED
  BY <1>1, <1>2, <1>3 DEF Inv

-----------------------------------------------------------------------------
\* Steps that leave the project alone

CountersTyped ==
    /\ cache \in {"none", "broken", "ok"}
    /\ commands \in 0..MaxCommands /\ edits \in 0..MaxEdits

\* A command that ends, by an error, by its last step or by being killed,
\* leaves a project that satisfies the invariant; what a kill tears is noted.
LEMMA EndKeeps ==
    ASSUME Inv, CountersTyped', cmd' = None,
           UNCHANGED <<config, compose, file, lock, tmp, unserved>>,
           cut \subseteq cut', cut' \subseteq Files,
           cmd # None /\ cmd.writing \in Files => cmd.writing \in cut'
    PROVE  Inv'
<1>1. TypeOK'
  BY DEF Inv, TypeOK, CountersTyped
<1>2. CommandTyped' /\ Locked' /\ Progress' /\ WritingTorn' /\ Alone'
  BY DEF Inv, CommandTyped, Locked, Served, Progress, WritingTorn, Alone
<1>3. TornIsCut'
  BY DEF Inv, TornIsCut
<1>4. NothingWithoutConfig'
  BY DEF Inv, NothingWithoutConfig, NothingOf
<1> QED
  BY <1>1, <1>2, <1>3, <1>4 DEF Inv

\* A command writes files in the merge alone.
LEMMA Quiet ==
    ASSUME Inv, cmd # None, cmd.step \notin {"merge", "bot"}
    PROVE  cmd.writing = None /\ \A f \in Files : file[f] = "torn" => f \in cut
BY Paths DEF Inv, WritingTorn, TornIsCut

\* A command that ends while it is writing nothing.
LEMMA QuietEndKeeps ==
    ASSUME Inv, CountersTyped', cmd' = None, UNCHANGED project,
           cmd # None => cmd.writing = None \/ cmd.step \notin {"merge", "bot"}
    PROVE  Inv'
<1>1. cmd # None => cmd.writing = None
  BY DEF Inv, WritingTorn
<1>2. cut \subseteq Files
  BY DEF Inv, TypeOK
<1> QED
  BY <1>1, <1>2, Paths, EndKeeps DEF project

\* With no command running and the project as it is, nothing changes.
LEMMA RestKeeps ==
    ASSUME Inv, CountersTyped', UNCHANGED <<cmd, project>>
    PROVE  Inv'
<1>1. TypeOK'
  BY DEF Inv, TypeOK, CountersTyped, project
<1>2. CommandTyped' /\ Locked' /\ TornIsCut' /\ WritingTorn'
  BY DEF Inv, CommandTyped, Locked, TornIsCut, Served, WritingTorn, project
<1>3. Progress' /\ Alone' /\ NothingWithoutConfig'
  BY DEF Inv, Progress, Served, ProjectMerged, BotMerged, Alone, NothingWithoutConfig, NothingOf, project
<1> QED
  BY <1>1, <1>2, <1>3 DEF Inv

\* From one step before the config to another; or, in an update, to the merge.
LEMMA AdvanceKeeps ==
    ASSUME Inv, CountersTyped', cmd # None, cmd.step \in Early,
           NEW t \in Early \cup {"merge"}, t = "merge" => cmd.kind = "update",
           cmd' = [cmd EXCEPT !.step = t], UNCHANGED project
    PROVE  Inv'
<1>0. cmd \in CommandRecords
  BY DEF Inv, CommandTyped
<1>1. /\ cmd' \in CommandRecords /\ cmd'.step = t /\ cmd'.kind = cmd.kind
      /\ cmd'.bot = cmd.bot /\ cmd'.todo = cmd.todo /\ cmd'.writing = cmd.writing
  BY <1>0, StepsAre DEF CommandRecords, Late
<1>2. TypeOK'
  BY <1>1, StepsAre DEF Inv, TypeOK, CountersTyped, project, CommandRecords
<1>3. CommandTyped' /\ Locked' /\ TornIsCut'
  BY <1>1, Quiet DEF Inv, CommandTyped, Locked, TornIsCut, Served, project, Early
<1>4. Progress'
  BY <1>1 DEF Inv, Progress, Served, ProjectMerged, project, Early
<1>5. WritingTorn'
  BY <1>1 DEF Inv, WritingTorn, project, Early
<1>6. Alone'
  BY <1>1 DEF Early, Late, Alone
<1>7. NothingWithoutConfig'
  BY <1>1 DEF Inv, NothingWithoutConfig, NothingOf, project, Early, Late
<1> QED
  BY <1>2, <1>3, <1>4, <1>5, <1>6, <1>7 DEF Inv

\* Resolver, Cache and the renderer touch nothing of the project.
LEMMA TryKeeps ==
    ASSUME Inv, NEW s \in Early, NEW t \in Early \cup {"merge"},
           t = "merge" => cmd.kind = "update", Try(s, t)
    PROVE  Inv'
<1>1. CountersTyped'
  BY DEF Try, Inv, TypeOK, CountersTyped
<1> QED
  BY <1>1, QuietEndKeeps, AdvanceKeeps DEF Try, At, Goto, End, Early

-----------------------------------------------------------------------------
\* Commands begin, and the user works between them

\* new, scaffold and update begin with everything still to do; update begins
\* only where read_lock finds a lock.
LEMMA CommandKeeps ==
    ASSUME Inv, NEW kind \in {"new", "scaffold", "update"}, NEW b \in Bots,
           NEW policy \in Policies, NEW pinned \in BOOLEAN,
           Command(kind, b, policy, pinned),
           kind = "update" => lock[b] # "absent"
    PROVE  Inv'
<1>1. CountersTyped' /\ cmd = None /\ UNCHANGED project
  BY ScaffoldAssumption DEF Command, Inv, TypeOK, CountersTyped
<1>2. /\ cmd' \in CommandRecords /\ cmd'.step = "locate" /\ cmd'.kind = kind
      /\ cmd'.bot = b /\ cmd'.todo = {Readme, Compose} /\ cmd'.writing = None
  BY Paths DEF Command, CommandRecords, Steps, Early
<1>3. TypeOK'
  BY <1>1, <1>2, StepsAre DEF Inv, TypeOK, CountersTyped, project, CommandRecords
<1>4. CommandTyped' /\ Locked' /\ TornIsCut' /\ WritingTorn'
  BY <1>1, <1>2, Paths DEF Inv, CommandTyped, Locked, TornIsCut, Served, WritingTorn, project
<1>5. Progress' /\ Alone'
  BY <1>2 DEF Progress, Served, ProjectMerged, Alone, Late
<1>6. kind = "update" => config.exists = TRUE
  BY DEF Inv, NothingWithoutConfig, NothingOf
<1>7. NothingWithoutConfig'
  BY <1>1, <1>2, <1>6 DEF Inv, NothingWithoutConfig, NothingOf, project, Late
<1> QED
  BY <1>3, <1>4, <1>5, <1>7 DEF Inv

\* Plain new writes the config and nothing else.
LEMMA NewIdentityKeeps ==
    ASSUME Inv, NEW b \in Bots, NEW force \in BOOLEAN, NewIdentity(b, force)
    PROVE  Inv'
<1>1. CountersTyped' /\ cmd' = None /\ config'.exists = TRUE
  BY ScaffoldAssumption DEF NewIdentity, Inv, TypeOK, CountersTyped
<1>2. TypeOK'
  BY <1>1 DEF NewIdentity, Inv, TypeOK, CountersTyped
<1>3. CommandTyped' /\ Locked' /\ TornIsCut' /\ Progress' /\ WritingTorn' /\ Alone'
  BY <1>1 DEF NewIdentity, Inv, CommandTyped, Locked, TornIsCut, Served, Progress, WritingTorn, Alone
<1>4. NothingWithoutConfig'
  BY <1>1 DEF NothingWithoutConfig
<1> QED
  BY <1>2, <1>3, <1>4 DEF Inv

\* The user's editor writes to files that exist.
LEMMA EditKeeps ==
    ASSUME Inv, NEW f \in Files, NEW text \in {"edited", "secret"}, EditFile(f, text)
    PROVE  Inv'
<1>1. /\ cmd' = None /\ UNCHANGED <<config, compose, lock, tmp, cache, commands>>
      /\ file' = [file EXCEPT ![f] = text] /\ file[f] # "absent"
      /\ cmd = None /\ cut' = cut \ {f} /\ unserved' = unserved
  BY DEF EditFile
<1>2. TypeOK'
  BY <1>1, ScaffoldAssumption DEF EditFile, Inv, TypeOK
<1>3. \A g \in Files : (file'[g] = "absent") <=> (file[g] = "absent")
  BY <1>1 DEF Inv, TypeOK
<1>4. CommandTyped' /\ Progress' /\ WritingTorn' /\ Alone'
  BY <1>1 DEF CommandTyped, Progress, WritingTorn, Alone
<1>5. Locked' /\ NothingWithoutConfig'
  BY <1>1, <1>3, Paths DEF Inv, Locked, Served, NothingWithoutConfig, NothingOf
<1>6. TornIsCut'
  <2>1. \A g \in Files : file'[g] = IF g = f THEN text ELSE file[g]
    BY <1>1 DEF Inv, TypeOK
  <2> QED
    BY <1>1, <2>1 DEF Inv, TornIsCut
<1> QED
  BY <1>2, <1>4, <1>5, <1>6 DEF Inv

\* A config that is repaired keeps its entries.
LEMMA RepairKeeps == Inv /\ RepairConfig => Inv'
<1> SUFFICES ASSUME Inv, RepairConfig PROVE Inv'
  OBVIOUS
<1>1. /\ cmd' = None /\ UNCHANGED <<compose, file, lock, tmp, cut, unserved, cache, commands, edits>>
      /\ config'.exists = config.exists
  BY DEF RepairConfig, Inv, TypeOK
<1>2. TypeOK'
  BY <1>1 DEF RepairConfig, Inv, TypeOK
<1>3. CommandTyped' /\ Locked' /\ TornIsCut' /\ Progress' /\ WritingTorn' /\ Alone'
  BY <1>1 DEF RepairConfig, Inv, CommandTyped, Locked, TornIsCut, Served, Progress, WritingTorn, Alone
<1>4. NothingWithoutConfig'
  BY <1>1 DEF Inv, NothingWithoutConfig, NothingOf
<1> QED
  BY <1>2, <1>3, <1>4 DEF Inv

-----------------------------------------------------------------------------
\* The config

\* A step to "entry" or "merge" that changes the config only, with all the
\* merging still to do.
LEMMA ConfigKeeps ==
    ASSUME Inv, cmd # None, cmd.step \in {"config", "entry"},
           NEW t \in {"entry", "merge"}, cmd' = [cmd EXCEPT !.step = t],
           UNCHANGED <<compose, file, lock, tmp, cut, unserved, cache, commands, edits>>,
           config' \in [exists : BOOLEAN, bots : SUBSET Bots, torn : BOOLEAN],
           config'.exists = TRUE,
           cmd.kind = "new" => /\ config'.bots = IF t = "entry" THEN {} ELSE {cmd.bot}
                               /\ cmd.step = "config" => config.exists = FALSE
    PROVE  Inv'
<1>0. cmd \in CommandRecords
  BY DEF Inv, CommandTyped
<1>1. /\ cmd' \in CommandRecords /\ cmd'.step = t /\ cmd'.kind = cmd.kind
      /\ cmd'.bot = cmd.bot /\ cmd'.todo = cmd.todo /\ cmd'.writing = cmd.writing
  BY <1>0 DEF CommandRecords, Steps, Late
<1>2. TypeOK'
  BY <1>1, StepsAre DEF Inv, TypeOK, CommandRecords
<1>3. CommandTyped' /\ Locked' /\ TornIsCut'
  BY <1>1, Quiet DEF Inv, CommandTyped, Locked, TornIsCut, Served
<1>4. Progress'
  BY <1>1 DEF Inv, Progress, Served, ProjectMerged, Early
<1>5. WritingTorn'
  BY <1>1 DEF Inv, WritingTorn
<1>6. NothingWithoutConfig'
  BY <1>1 DEF NothingWithoutConfig
<1>7. Alone'
  BY <1>0, <1>1 DEF Inv, Alone, NothingWithoutConfig, NothingOf, CommandRecords
<1> QED
  BY <1>2, <1>3, <1>4, <1>5, <1>6, <1>7 DEF Inv

\* write_config_snippet goes on only where no config exists.
LEMMA SnippetKeeps == Inv /\ WriteConfigSnippet => Inv'
<1> SUFFICES ASSUME Inv, WriteConfigSnippet PROVE Inv'
  OBVIOUS
<1>1. CASE "fail" \in DecideWrite(config.exists, TRUE)
  BY <1>1, QuietEndKeeps DEF WriteConfigSnippet, At, End, Inv, TypeOK, CountersTyped, project
<1>2. CASE "fail" \notin DecideWrite(config.exists, TRUE)
  <2>1. config.exists = FALSE
    BY <1>2 DEF DecideWrite, Inv, TypeOK
  <2>2. /\ cmd # None /\ cmd.step = "config" /\ cmd' = [cmd EXCEPT !.step = "entry"]
        /\ config' = [exists |-> TRUE, bots |-> {}, torn |-> FALSE]
        /\ UNCHANGED <<compose, file, lock, tmp, cut, unserved, cache, commands, edits>>
    BY <1>2 DEF WriteConfigSnippet, At, Goto
  <2> QED
    BY <2>1, <2>2, ConfigKeeps
<1> QED
  BY <1>1, <1>2

\* append_config_entry goes on where the bot is known, or is about to be.
LEMMA AppendKeeps == Inv /\ AppendConfigEntry => Inv'
<1> SUFFICES ASSUME Inv, AppendConfigEntry PROVE Inv'
  OBVIOUS
<1>0. cmd # None /\ cmd.step = "config" /\ cmd.kind = "scaffold"
  BY DEF AppendConfigEntry, At
<1>1. CASE config.torn
  BY <1>1, QuietEndKeeps DEF AppendConfigEntry, At, End, Inv, TypeOK, CountersTyped, project
<1>2. CASE ~config.torn /\ cmd.bot \in config.bots
  <2>1. /\ cmd' = [cmd EXCEPT !.step = "merge"] /\ config' = config
        /\ UNCHANGED <<compose, file, lock, tmp, cut, unserved, cache, commands, edits>>
    BY <1>2 DEF AppendConfigEntry, Goto
  <2>2. config' \in [exists : BOOLEAN, bots : SUBSET Bots, torn : BOOLEAN] /\ config'.exists = TRUE
    BY <1>2, <2>1 DEF Inv, TypeOK
  <2> QED
    BY <1>0, <2>1, <2>2, ConfigKeeps
<1>3. CASE ~config.torn /\ cmd.bot \notin config.bots
  <2>1. /\ cmd' = [cmd EXCEPT !.step = "entry"]
        /\ config' = [config EXCEPT !.exists = TRUE, !.torn = config.exists]
        /\ UNCHANGED <<compose, file, lock, tmp, cut, unserved, cache, commands, edits>>
    BY <1>3 DEF AppendConfigEntry, Goto
  <2>2. config' \in [exists : BOOLEAN, bots : SUBSET Bots, torn : BOOLEAN] /\ config'.exists = TRUE
    BY <2>1 DEF Inv, TypeOK
  <2> QED
    BY <1>0, <2>1, <2>2, ConfigKeeps
<1> QED
  BY <1>1, <1>2, <1>3

\* The entry is that of the command's bot.
LEMMA EntryKeeps == Inv /\ WriteEntry => Inv'
<1> SUFFICES ASSUME Inv, WriteEntry PROVE Inv'
  OBVIOUS
<1>1. /\ cmd # None /\ cmd.step = "entry" /\ cmd' = [cmd EXCEPT !.step = "merge"]
      /\ config' = [exists |-> TRUE, bots |-> config.bots \cup {cmd.bot}, torn |-> FALSE]
      /\ UNCHANGED <<compose, file, lock, tmp, cut, unserved, cache, commands, edits>>
  BY DEF WriteEntry, At, Goto
<1>2. cmd.bot \in Bots /\ config.bots \subseteq Bots
  BY <1>1 DEF Inv, TypeOK
<1>3. cmd.kind = "new" => config.bots = {}
  BY <1>1 DEF Inv, Alone
<1> QED
  BY <1>1, <1>2, <1>3, ConfigKeeps

-----------------------------------------------------------------------------
\* The merge

\* What decide_write may say of a file: one that does not exist is never
\* skipped, and one that exists is written only if it is not protected and the
\* user forced or was asked.
LEMMA Decisions ==
    ASSUME NEW exists \in BOOLEAN, NEW protected \in BOOLEAN,
           NEW d \in DecideWrite(exists, protected)
    PROVE  /\ d \in {"write", "skip", "fail"}
           /\ d = "skip" => exists
           /\ d = "write" /\ exists => ~protected /\ cmd.policy \in {"force", "ask"}
BY DEF DecideWrite

\* A step of the merge that leaves the config and the locks alone, and whose
\* files go from absent to written but never back.
LEMMA MergeKeeps ==
    ASSUME Inv, cmd # None, cmd.step \in {"merge", "bot"},
           UNCHANGED <<config, lock, tmp, cache, commands, edits>>,
           cmd' \in CommandRecords, cmd'.kind = cmd.kind, cmd'.bot = cmd.bot,
           cmd'.step = cmd.step, cmd'.todo \subseteq cmd.todo, WritingTorn',
           file' \in [Files -> {"absent", "torn", "rendered", "edited", "secret"}],
           compose' \in [exists : BOOLEAN, bots : SUBSET Bots, torn : BOOLEAN],
           \A f \in Files : f \in cmd.todo \/ file'[f] = file[f],
           \A f \in Files : file[f] # "absent" => file'[f] # "absent",
           \A f \in cmd.todo \cap Files : f \in cmd'.todo \/ file'[f] # "absent",
           compose.exists = TRUE => compose'.exists = TRUE,
           Compose \in cmd.todo => Compose \in cmd'.todo \/ Served(cmd.bot)',
           compose'.bots \subseteq compose.bots \cup {cmd.bot},
           compose.bots \cup unserved \subseteq compose'.bots \cup unserved',
           unserved' \subseteq Bots, cut' \subseteq Files, TornIsCut'
    PROVE  Inv'
<1>0. cmd \in CommandRecords /\ cmd.bot \in Bots /\ cmd.step \in {"entry"} \cup Late
  BY DEF Inv, CommandTyped, CommandRecords, Steps, Late
<1>1. TypeOK'
  BY StepsAre DEF Inv, TypeOK, CommandRecords
<1>2. CommandTyped'
  BY DEF CommandTyped
<1>3. Locked'
  BY Paths DEF Inv, Locked, Served
<1>4. Progress'
  <2>1. CASE cmd.step = "merge"
    BY <2>1, Paths DEF Inv, Progress, Served, ProjectMerged, Early
  <2>2. CASE cmd.step = "bot"
    BY <1>0, <2>2, Paths DEF Inv, Progress, Served, BotMerged, Early
  <2> QED
    BY <2>1, <2>2
<1>5. NothingWithoutConfig'
  BY <1>0 DEF Inv, NothingWithoutConfig
<1>6. Alone'
  <2> SUFFICES ASSUME cmd.kind = "new"
               PROVE  Alone'
    BY DEF Alone
  <2>1. cmd.todo \subseteq {Readme, Compose} \cup BotFiles(cmd.bot)
    BY DEF Inv, Progress
  <2>2. ASSUME NEW b \in Bots \ {cmd.bot} PROVE NothingOf(b)'
    <3>1. BotFiles(b) \subseteq Files /\ BotFiles(b) \cap cmd.todo = {}
      BY <1>0, <2>1, Paths
    <3>2. NothingOf(b)
      BY <1>0 DEF Inv, Alone
    <3> QED
      BY <3>1, <3>2 DEF NothingOf
  <2> QED
    BY <1>0, <2>2 DEF Inv, Alone
<1> QED
  BY <1>1, <1>2, <1>3, <1>4, <1>5, <1>6 DEF Inv

\* merge_rendered, the decision about one file.
LEMMA MergeFileKeeps ==
    ASSUME Inv, NEW f \in Files, MergeFile(f)
    PROVE  Inv'
<1>0. /\ cmd # None /\ cmd.step \in {"merge", "bot"} /\ cmd.writing = None
      /\ f \in cmd.todo
      /\ UNCHANGED <<config, compose, lock, tmp, cut, unserved, cache, commands, edits>>
  BY DEF MergeFile, Merging, At
<1>1. cmd \in CommandRecords
  BY <1>0 DEF Inv, CommandTyped
<1>2. PICK d \in DecideWrite(file[f] # "absent", IsProtected(f)) :
          CASE d = "write" -> /\ cmd' = [cmd EXCEPT !.writing = f]
                              /\ file' = [file EXCEPT ![f] = "torn"]
            [] d = "skip" -> /\ cmd' = [cmd EXCEPT !.todo = @ \ {f}]
                             /\ UNCHANGED file
            [] d = "fail" -> End /\ UNCHANGED file
  BY DEF MergeFile
<1>3. d \in {"write", "skip", "fail"} /\ (d = "skip" => file[f] # "absent")
  <2>1. IsProtected(f) \in BOOLEAN
    BY DEF IsProtected
  <2> QED
    BY <1>2, <2>1, Decisions
<1>4. CASE d = "write"
  <2>1. cmd' = [cmd EXCEPT !.writing = f] /\ file' = [file EXCEPT ![f] = "torn"]
    BY <1>2, <1>4
  <2>2. /\ cmd' \in CommandRecords /\ cmd'.kind = cmd.kind /\ cmd'.bot = cmd.bot
        /\ cmd'.step = cmd.step /\ cmd'.todo = cmd.todo /\ cmd'.writing = f
    BY <1>1, <2>1 DEF CommandRecords
  <2>3. file' \in [Files -> {"absent", "torn", "rendered", "edited", "secret"}] /\ file'[f] = "torn"
    BY <2>1 DEF Inv, TypeOK
  <2>4. WritingTorn'
    BY <1>0, <2>2, <2>3 DEF WritingTorn
  <2>5. \A g \in Files : /\ g \in cmd.todo \/ file'[g] = file[g]
                         /\ file[g] # "absent" => file'[g] # "absent"
    BY <1>0, <2>1 DEF Inv, TypeOK
  <2>6. /\ compose' \in [exists : BOOLEAN, bots : SUBSET Bots, torn : BOOLEAN]
        /\ unserved' \subseteq Bots /\ cut' \subseteq Files
    BY <1>0 DEF Inv, TypeOK
  <2>7. TornIsCut'
    <3> SUFFICES ASSUME NEW g \in Files, file'[g] = "torn", g # f PROVE g \in cut'
      BY <2>2, ScaffoldAssumption DEF TornIsCut
    <3>1. file[g] = "torn"
      BY <2>1 DEF Inv, TypeOK
    <3> QED
      BY <1>0, <3>1, Paths DEF Inv, TornIsCut
  <2> QED
    BY <1>0, <2>2, <2>3, <2>4, <2>5, <2>6, <2>7, MergeKeeps
<1>5. CASE d = "skip"
  <2>1. cmd' = [cmd EXCEPT !.todo = @ \ {f}] /\ file' = file /\ file[f] # "absent"
    BY <1>2, <1>3, <1>5
  <2>2. /\ cmd' \in CommandRecords /\ cmd'.kind = cmd.kind /\ cmd'.bot = cmd.bot
        /\ cmd'.step = cmd.step /\ cmd'.todo = cmd.todo \ {f} /\ cmd'.writing = None
    BY <1>0, <1>1, <2>1 DEF CommandRecords
  <2>3. WritingTorn'
    BY <2>2, Paths DEF WritingTorn
  <2>4. /\ file' \in [Files -> {"absent", "torn", "rendered", "edited", "secret"}]
        /\ compose' \in [exists : BOOLEAN, bots : SUBSET Bots, torn : BOOLEAN]
        /\ unserved' \subseteq Bots /\ cut' \subseteq Files
    BY <1>0, <2>1 DEF Inv, TypeOK
  <2>5. TornIsCut'
    BY <1>0, <2>1, Paths DEF Inv, TornIsCut
  <2> QED
    BY <1>0, <2>1, <2>2, <2>3, <2>4, <2>5, Paths, MergeKeeps
<1>6. CASE d = "fail"
  <2>1. cmd' = None /\ file' = file
    BY <1>2, <1>6 DEF End
  <2> QED
    BY <1>0, <2>1, QuietEndKeeps DEF Inv, TypeOK, CountersTyped, project
<1> QED
  BY <1>3, <1>4, <1>5, <1>6

\* The file that was truncated has its contents.
LEMMA FinishFileKeeps == Inv /\ FinishFile => Inv'
<1> SUFFICES ASSUME Inv, FinishFile PROVE Inv'
  OBVIOUS
<1> DEFINE f == cmd.writing
<1>0. /\ cmd # None /\ cmd.step \in {"merge", "bot"} /\ f \in Files
      /\ file' = [file EXCEPT ![f] = "rendered"]
      /\ cmd' = [cmd EXCEPT !.writing = None, !.todo = @ \ {f}]
      /\ cut' = cut \ {f}
      /\ UNCHANGED <<config, compose, lock, tmp, unserved, cache, commands, edits>>
  BY DEF FinishFile, Merging, At
<1>1. cmd \in CommandRecords /\ f \in cmd.todo
  BY <1>0, Paths DEF Inv, CommandTyped, WritingTorn
<1>2. /\ cmd' \in CommandRecords /\ cmd'.kind = cmd.kind /\ cmd'.bot = cmd.bot
      /\ cmd'.step = cmd.step /\ cmd'.todo = cmd.todo \ {f} /\ cmd'.writing = None
  BY <1>0, <1>1 DEF CommandRecords
<1>3. WritingTorn'
  BY <1>2, Paths DEF WritingTorn
<1>4. /\ file' \in [Files -> {"absent", "torn", "rendered", "edited", "secret"}]
      /\ compose' \in [exists : BOOLEAN, bots : SUBSET Bots, torn : BOOLEAN]
      /\ unserved' \subseteq Bots /\ cut' \subseteq Files
  BY <1>0 DEF Inv, TypeOK
<1>5. \A g \in Files : file'[g] = IF g = f THEN "rendered" ELSE file[g]
  BY <1>0 DEF Inv, TypeOK
<1>6. Compose # f
  BY <1>0, Paths
<1>7. TornIsCut'
  BY <1>0, <1>5 DEF Inv, TornIsCut
<1> HIDE DEF f
<1> QED
  BY <1>0, <1>1, <1>2, <1>3, <1>4, <1>5, <1>6, <1>7, MergeKeeps

\* append_compose_services, or the merge of a new project's compose file.
LEMMA MergeComposeKeeps == Inv /\ MergeCompose => Inv'
<1> SUFFICES ASSUME Inv, MergeCompose PROVE Inv'
  OBVIOUS
<1>0. /\ cmd # None /\ cmd.step = "merge" /\ cmd.writing = None /\ Compose \in cmd.todo
      /\ UNCHANGED <<config, file, lock, tmp, cut, cache, commands, edits>>
  BY DEF MergeCompose, At
<1>1. /\ cmd \in CommandRecords /\ cmd.bot \in Bots
      /\ compose \in [exists : BOOLEAN, bots : SUBSET Bots, torn : BOOLEAN]
      /\ unserved \subseteq Bots /\ cut' \subseteq Files
  BY <1>0 DEF Inv, CommandTyped, CommandRecords, TypeOK
<1>2. CASE End /\ UNCHANGED <<compose, unserved>>
  BY <1>0, <1>2, QuietEndKeeps DEF End, Inv, TypeOK, CountersTyped, project
<1>3. CASE /\ cmd' = [cmd EXCEPT !.writing = Compose]
           /\ compose' = [compose EXCEPT !.exists = TRUE, !.torn = TRUE]
           /\ UNCHANGED unserved
  <2>1. /\ cmd' \in CommandRecords /\ cmd'.kind = cmd.kind /\ cmd'.bot = cmd.bot
        /\ cmd'.step = cmd.step /\ cmd'.todo = cmd.todo /\ cmd'.writing = Compose
    BY <1>1, <1>3 DEF CommandRecords
  <2>2. /\ compose' \in [exists : BOOLEAN, bots : SUBSET Bots, torn : BOOLEAN]
        /\ compose'.exists = TRUE /\ compose'.bots = compose.bots
    BY <1>1, <1>3
  <2>3. WritingTorn'
    BY <1>0, <2>1, Paths DEF WritingTorn
  <2>4. file' \in [Files -> {"absent", "torn", "rendered", "edited", "secret"}]
    BY <1>0 DEF Inv, TypeOK
  <2>5. TornIsCut'
    BY <1>0, Paths DEF Inv, TornIsCut
  <2> QED
    BY <1>0, <1>1, <1>3, <2>1, <2>2, <2>3, <2>4, <2>5, MergeKeeps
<1>4. CASE /\ cmd' = [cmd EXCEPT !.todo = @ \ {Compose}] /\ compose' = compose
           /\ unserved' = unserved \cup ({cmd.bot} \ compose.bots) /\ compose.exists = TRUE
  <2>1. /\ cmd' \in CommandRecords /\ cmd'.kind = cmd.kind /\ cmd'.bot = cmd.bot
        /\ cmd'.step = cmd.step /\ cmd'.todo = cmd.todo \ {Compose} /\ cmd'.writing = None
    BY <1>0, <1>1, <1>4 DEF CommandRecords
  <2>2. WritingTorn'
    BY <2>1, Paths DEF WritingTorn
  <2>3. file' \in [Files -> {"absent", "torn", "rendered", "edited", "secret"}]
    BY <1>0 DEF Inv, TypeOK
  <2>4. TornIsCut'
    BY <1>0, Paths DEF Inv, TornIsCut
  <2>5. /\ unserved' \subseteq Bots /\ Served(cmd.bot)'
        /\ compose.bots \cup unserved \subseteq compose'.bots \cup unserved'
    BY <1>1, <1>4, <2>1 DEF Served
  <2> QED
    BY <1>0, <1>1, <1>4, <2>1, <2>2, <2>3, <2>4, <2>5, Paths, MergeKeeps
<1>5. ASSUME NEW d \in DecideWrite(compose.exists, FALSE)
      PROVE  d \in {"write", "skip", "fail"} /\ (d = "skip" => compose.exists = TRUE)
  BY <1>1, <1>5, Decisions
<1> QED
  BY <1>2, <1>3, <1>4, <1>5 DEF MergeCompose

\* The compose file has its services again, and the bot's.
LEMMA FinishComposeKeeps == Inv /\ FinishCompose => Inv'
<1> SUFFICES ASSUME Inv, FinishCompose PROVE Inv'
  OBVIOUS
<1>0. /\ cmd # None /\ cmd.step = "merge"
      /\ cmd' = [cmd EXCEPT !.writing = None, !.todo = @ \ {Compose}]
      /\ unserved' = unserved \ {cmd.bot} /\ cmd.writing = Compose
      /\ UNCHANGED <<config, file, lock, tmp, cut, cache, commands, edits>>
  BY DEF FinishCompose, At
<1>1. /\ cmd \in CommandRecords /\ cmd.bot \in Bots
      /\ compose \in [exists : BOOLEAN, bots : SUBSET Bots, torn : BOOLEAN]
      /\ unserved \subseteq Bots /\ cut' \subseteq Files
  BY <1>0 DEF Inv, CommandTyped, CommandRecords, TypeOK
<1>2. /\ cmd' \in CommandRecords /\ cmd'.kind = cmd.kind /\ cmd'.bot = cmd.bot
      /\ cmd'.step = cmd.step /\ cmd'.todo = cmd.todo \ {Compose} /\ cmd'.writing = None
  BY <1>0, <1>1 DEF CommandRecords
<1>3. WritingTorn'
  BY <1>2, Paths DEF WritingTorn
<1>4. file' \in [Files -> {"absent", "torn", "rendered", "edited", "secret"}]
  BY <1>0 DEF Inv, TypeOK
<1>5. /\ compose' \in [exists : BOOLEAN, bots : SUBSET Bots, torn : BOOLEAN]
      /\ compose'.exists = TRUE /\ compose'.bots \subseteq compose.bots \cup {cmd.bot}
  BY <1>1 DEF FinishCompose
<1>6. TornIsCut'
  BY <1>0, Paths DEF Inv, TornIsCut
<1>7. cmd.kind = "new" => compose.bots \subseteq {cmd.bot}
  BY <1>0 DEF Inv, Alone, Late
<1>8. /\ cmd.bot \in compose'.bots
      /\ compose.bots \cup unserved \subseteq compose'.bots \cup unserved'
  BY <1>0, <1>1, <1>7 DEF FinishCompose
<1>9. Served(cmd.bot)'
  BY <1>2, <1>5, <1>8 DEF Served
<1> QED
  BY <1>0, <1>1, <1>2, <1>3, <1>4, <1>5, <1>6, <1>8, <1>9, Paths, MergeKeeps

\* The end of a tree: the next one begins, or the lock is due.
LEMMA EndTreeKeeps == Inv /\ EndTree => Inv'
<1> SUFFICES ASSUME Inv, EndTree PROVE Inv'
  OBVIOUS
<1>0. /\ cmd # None /\ cmd.step \in {"merge", "bot"} /\ cmd.writing = None /\ cmd.todo = {}
      /\ UNCHANGED <<project, cache, commands, edits>>
  BY DEF EndTree, Merging, At
<1>1. cmd \in CommandRecords /\ cmd.bot \in Bots
  BY <1>0 DEF Inv, CommandTyped, CommandRecords
<1>2. /\ cmd' \in CommandRecords /\ cmd'.kind = cmd.kind /\ cmd'.bot = cmd.bot
      /\ cmd'.writing = None
      /\ \/ cmd.step = "merge" /\ cmd'.step = "bot" /\ cmd'.todo = BotFiles(cmd.bot)
         \/ cmd.step = "bot" /\ cmd'.step = "lock"
  <2>1. CASE cmd.step = "merge"
    BY <1>0, <1>1, <2>1, Paths, ZenonT(30) DEF EndTree, At, CommandRecords, Steps, Late
  <2>2. CASE cmd.step = "bot"
    BY <1>0, <1>1, <2>2 DEF EndTree, At, Goto, CommandRecords, Steps, Late
  <2> QED
    BY <1>0, <2>1, <2>2
<1>3. TypeOK'
  BY <1>0, <1>2, StepsAre DEF Inv, TypeOK, project, CommandRecords
<1>4. CommandTyped' /\ Locked' /\ TornIsCut' /\ WritingTorn'
  BY <1>0, <1>2, Paths DEF Inv, CommandTyped, Locked, TornIsCut, Served, WritingTorn, project
<1>5. Progress'
  BY <1>0, <1>1, <1>2 DEF Inv, Progress, Served, ProjectMerged, BotMerged, project, Early
<1>6. NothingWithoutConfig'
  BY <1>0, <1>2 DEF Inv, NothingWithoutConfig, NothingOf, project, Late
<1>7. Alone'
  BY <1>0, <1>2 DEF Inv, Alone, NothingOf, project, Late
<1> QED
  BY <1>3, <1>4, <1>5, <1>6, <1>7 DEF Inv

\* write_lock, the temporary file.
LEMMA WriteLockKeeps == Inv /\ WriteLock => Inv'
<1> SUFFICES ASSUME Inv, WriteLock PROVE Inv'
  OBVIOUS
<1>0. /\ cmd # None /\ cmd.step = "lock" /\ cmd' = [cmd EXCEPT !.step = "rename"]
      /\ UNCHANGED <<config, compose, file, lock, cut, unserved, cache, commands, edits>>
  BY DEF WriteLock, At, Goto
<1>1. cmd \in CommandRecords
  BY <1>0 DEF Inv, CommandTyped
<1>2. /\ cmd' \in CommandRecords /\ cmd'.step = "rename" /\ cmd'.kind = cmd.kind
      /\ cmd'.bot = cmd.bot /\ cmd'.todo = cmd.todo /\ cmd'.writing = cmd.writing
  BY <1>0, <1>1 DEF CommandRecords, Steps, Late
<1>3. TypeOK'
  BY <1>0, <1>2, StepsAre DEF WriteLock, Inv, TypeOK, CommandRecords
<1>4. CommandTyped' /\ Locked' /\ TornIsCut' /\ WritingTorn'
  BY <1>0, <1>2, Quiet DEF Inv, CommandTyped, Locked, TornIsCut, Served, WritingTorn
<1>5. Progress'
  BY <1>0, <1>2 DEF Inv, Progress, Served, BotMerged, Early
<1>6. NothingWithoutConfig' /\ Alone'
  BY <1>0, <1>2 DEF Inv, NothingWithoutConfig, Alone, NothingOf, Late
<1> QED
  BY <1>3, <1>4, <1>5, <1>6 DEF Inv

\* write_lock, the rename: all that the lock promises is there by now.
LEMMA RenameLockKeeps == Inv /\ RenameLock => Inv'
<1> SUFFICES ASSUME Inv, RenameLock PROVE Inv'
  OBVIOUS
<1>0. /\ cmd # None /\ cmd.step = "rename" /\ cmd' = None
      /\ lock' = [lock EXCEPT ![cmd.bot] = IF cmd.pinned THEN "pinned" ELSE "tag"]
      /\ UNCHANGED <<config, compose, file, cut, unserved, cache, commands, edits>>
  BY DEF RenameLock, At, End
<1>1. cmd.bot \in Bots /\ \A b \in Bots \ {cmd.bot} : lock'[b] = lock[b]
  BY <1>0 DEF Inv, TypeOK
<1>2. TypeOK'
  BY <1>0 DEF RenameLock, Inv, TypeOK
<1>3. CommandTyped' /\ Progress' /\ WritingTorn' /\ Alone'
  BY <1>0 DEF CommandTyped, Progress, WritingTorn, Alone
<1>4. Locked' /\ TornIsCut'
  <2>1. Locked'
    BY <1>0, <1>1 DEF Inv, Locked, Served, Progress, BotMerged
  <2>2. cmd.writing = None
    BY <1>0 DEF Inv, WritingTorn
  <2> QED
    BY <1>0, <2>1, <2>2, Paths DEF Inv, TornIsCut
<1>5. NothingWithoutConfig'
  BY <1>0 DEF Inv, NothingWithoutConfig, Late
<1> QED
  BY <1>2, <1>3, <1>4, <1>5 DEF Inv

-----------------------------------------------------------------------------
\* Every step

\* ensure_repo and fetch: the cache is not the project.
LEMMA CacheKeeps == Inv /\ (BeginClone \/ EndClone \/ FetchRepo \/ Prune) => Inv'
<1> SUFFICES ASSUME Inv, BeginClone \/ EndClone \/ FetchRepo \/ Prune PROVE Inv'
  OBVIOUS
<1>1. CountersTyped' /\ UNCHANGED project
  BY DEF BeginClone, EndClone, FetchRepo, Prune, Inv, TypeOK, CountersTyped
<1>2. CASE Prune
  BY <1>1, <1>2, RestKeeps DEF Prune
<1>3. ASSUME cmd # None, cmd.step \in {"repo", "clone"}, cmd' = None PROVE Inv'
  BY <1>1, <1>3, QuietEndKeeps
<1>4. ASSUME cmd # None, cmd.step \in {"repo", "clone"},
             NEW t \in {"clone", "manifest"}, cmd' = [cmd EXCEPT !.step = t]
      PROVE  Inv'
  <2>1. cmd.step \in Early /\ t \in Early \cup {"merge"} /\ t # "merge"
    BY <1>4 DEF Early
  <2> QED
    BY <1>1, <1>4, <2>1, AdvanceKeeps
<1> QED
  BY <1>2, <1>3, <1>4 DEF BeginClone, EndClone, FetchRepo, At, Goto, End

\* The process is killed: a copy that was under way is noted.
LEMMA CrashKeeps == Inv /\ Crash => Inv'
<1> SUFFICES ASSUME Inv, Crash PROVE Inv'
  OBVIOUS
<1>1. /\ cmd # None /\ cmd' = None /\ cut' = cut \cup ({cmd.writing} \cap Files)
      /\ UNCHANGED <<config, compose, file, lock, tmp, unserved, cache, commands, edits>>
  BY DEF Crash, End
<1>2. CountersTyped' /\ cut \subseteq Files
  BY <1>1 DEF Inv, TypeOK, CountersTyped
<1> QED
  BY <1>1, <1>2, EndKeeps

\* The steps of a command up to the config, each of which succeeds or ends it.
LEMMA TemplateKeeps ==
    Inv /\ (\/ UseLocalTemplate \/ LocateTemplate \/ LoadManifest \/ ResolveContract
            \/ ResolveSdk \/ CheckCargoGenerate \/ PreRender \/ Render) => Inv'
<1> SUFFICES ASSUME Inv, \/ UseLocalTemplate \/ LocateTemplate \/ LoadManifest
                         \/ ResolveContract \/ ResolveSdk \/ CheckCargoGenerate
                         \/ PreRender \/ Render
             PROVE Inv'
  OBVIOUS
<1>1. PICK s \in Early, t \in Early \cup {"merge"} :
          Try(s, t) /\ (t = "merge" => cmd.kind = "update")
  BY DEF UseLocalTemplate, LocateTemplate, LoadManifest, ResolveContract, ResolveSdk,
         CheckCargoGenerate, PreRender, Render, Early
<1> QED
  BY <1>1, TryKeeps

\* Whatever is run, killed, edited and run again, the order in which a command
\* writes keeps the invariant.
LEMMA StepInv == Inv /\ [Next]_vars => Inv'
<1> SUFFICES ASSUME Inv, [Next]_vars PROVE Inv'
  OBVIOUS
<1>1. ASSUME NEW b \in Bots, NEW policy \in Policies, NEW pinned \in BOOLEAN,
             NewProject(b, policy, pinned) \/ ScaffoldBot(b, policy, pinned)
      PROVE  Inv'
  BY <1>1, CommandKeeps DEF NewProject, ScaffoldBot
<1>2. ASSUME NEW b \in Bots, NEW policy \in Policies, UpdateBot(b, policy)
      PROVE  Inv'
  <2>1. lock[b] # "absent" /\ Command("update", b, policy, lock[b] = "pinned")
    BY <1>2 DEF UpdateBot, ReadLock, ResolveTemplateRefForUpdate
  <2> QED
    BY <2>1, CommandKeeps
<1>3. CASE UNCHANGED vars
  BY <1>3, RestKeeps DEF vars, Inv, TypeOK, CountersTyped
<1> QED
  BY <1>1, <1>2, <1>3, NewIdentityKeeps, EditKeeps, RepairKeeps, CacheKeeps, CrashKeeps, TemplateKeeps,
     SnippetKeeps, AppendKeeps, EntryKeeps, MergeFileKeeps, FinishFileKeeps,
     MergeComposeKeeps, FinishComposeKeeps, EndTreeKeeps, WriteLockKeeps, RenameLockKeeps
     DEF Next

\* The inductive invariant holds in every state.
THEOREM Invariance == Spec => []Inv
BY InitInv, StepInv, PTL DEF Spec

\* A project's files, locks and config, and the command that runs, keep their
\* types; in particular a lock is absent or whole, whenever write_lock is killed.
THEOREM TypeCorrect == Spec => []TypeOK
<1>1. Inv => TypeOK
  BY DEF Inv
<1> QED
  BY <1>1, Invariance, PTL

\* A bot with a lock has its files, whole unless a kill fell into the copying of
\* one, and its service in the compose file unless that was kept or torn, for
\* any number of bots and commands, wherever each of them failed.
THEOREM LockedIsComplete == Spec => []CompleteWhenLocked
<1>1. Inv => CompleteWhenLocked
  <2> SUFFICES ASSUME Inv, NEW b \in Bots, lock[b] # "absent"
               PROVE  /\ \A f \in BotFiles(b) \cup {Readme} :
                            /\ file[f] # "absent"
                            /\ file[f] = "torn" => f \in cut \/ (cmd # None /\ cmd.writing = f)
                      /\ compose.exists
                      /\ compose.torn \/ b \in compose.bots \cup unserved
    BY DEF CompleteWhenLocked
  <2>1. BotFiles(b) \cup {Readme} \subseteq Files
    BY Paths
  <2> QED
    BY <2>1 DEF Inv, Locked, Served, TornIsCut
<1> QED
  BY <1>1, Invariance, PTL

\* new --scaffold writes files only where no other bot has any.
THEOREM NewComesFirst == Spec => []NewIsFirst
<1>1. Inv => NewIsFirst
  BY DEF Inv, Alone, NothingOf, NewIsFirst, Late
<1> QED
  BY <1>1, Invariance, PTL

-----------------------------------------------------------------------------
\* What no step may do

\* While a command runs, config entries are only added: write_config_snippet
\* alone starts from nothing, and only where there is no config.
LEMMA StepKeepsIdentities ==
    Inv /\ [Next]_vars => [cmd # None => config.bots \subseteq config'.bots]_vars
<1> SUFFICES ASSUME Inv, Next, cmd # None PROVE config.bots \subseteq config'.bots
  OBVIOUS
<1>1. CASE WriteConfigSnippet
  <2>1. config.exists = FALSE => config.bots = {}
    BY DEF Inv, TypeOK
  <2>2. config' = config \/ config.exists = FALSE
    BY <1>1 DEF WriteConfigSnippet, DecideWrite, Inv, TypeOK
  <2> QED
    BY <2>1, <2>2
<1>2. CASE AppendConfigEntry
  BY <1>2 DEF AppendConfigEntry, Inv, TypeOK
<1>3. CASE WriteEntry
  BY <1>3 DEF WriteEntry
<1>4. CASE \E f \in Files : MergeFile(f)
  BY <1>4 DEF MergeFile
<1>5. CASE \/ UseLocalTemplate \/ LocateTemplate \/ LoadManifest \/ ResolveContract
           \/ ResolveSdk \/ CheckCargoGenerate \/ PreRender \/ Render
  BY <1>5 DEF UseLocalTemplate, LocateTemplate, LoadManifest, ResolveContract, ResolveSdk,
              CheckCargoGenerate, PreRender, Render, Try, project
<1>6. CASE \/ Prune \/ Crash \/ BeginClone \/ EndClone \/ FetchRepo \/ FinishFile
           \/ MergeCompose \/ FinishCompose \/ EndTree \/ WriteLock \/ RenameLock
  BY <1>6 DEF Prune, Crash, BeginClone, EndClone, FetchRepo, FinishFile, MergeCompose,
              FinishCompose, EndTree, WriteLock, RenameLock, project
<1> QED
  BY <1>1, <1>2, <1>3, <1>4, <1>5, <1>6
     DEF Next, NewProject, ScaffoldBot, UpdateBot, Command, NewIdentity, EditFile, RepairConfig

\* No scaffolding command drops a bot's identity from the project's config,
\* however it was forced and wherever an earlier one was killed.
THEOREM IdentitiesAreKept == Spec => IdentitiesKept
BY Invariance, StepKeepsIdentities, PTL DEF Spec, IdentitiesKept

\* A file the user wrote is written to by merge_rendered alone, and only after
\* decide_write has allowed it; the file whose contents arrive is torn by then.
LEMMA StepSparesEdits ==
    Inv /\ [Next]_vars =>
        [\A f \in Files :
            /\ cmd # None /\ cmd.policy # "force"
            /\ file[f] \in {"edited", "secret"} /\ file'[f] # file[f]
            => ~IsProtected(f) /\ cmd.policy = "ask"]_vars
<1> SUFFICES ASSUME Inv, Next, cmd # None, cmd.policy # "force", NEW f \in Files,
                    file[f] \in {"edited", "secret"}, file'[f] # file[f]
             PROVE  ~IsProtected(f) /\ cmd.policy = "ask"
  OBVIOUS
<1>1. ASSUME NEW g \in Files, MergeFile(g)
      PROVE  ~IsProtected(f) /\ cmd.policy = "ask"
  <2>1. PICK d \in DecideWrite(file[g] # "absent", IsProtected(g)) :
            CASE d = "write" -> /\ cmd' = [cmd EXCEPT !.writing = g]
                                /\ file' = [file EXCEPT ![g] = "torn"]
              [] d = "skip" -> /\ cmd' = [cmd EXCEPT !.todo = @ \ {g}]
                               /\ UNCHANGED file
              [] d = "fail" -> End /\ UNCHANGED file
    BY <1>1 DEF MergeFile
  <2>2. IsProtected(g) \in BOOLEAN
    BY DEF IsProtected
  <2>3. /\ d \in {"write", "skip", "fail"}
        /\ d = "write" /\ file[g] # "absent" => ~IsProtected(g) /\ cmd.policy \in {"force", "ask"}
    BY <2>1, <2>2, Decisions
  <2>4. d = "write" /\ f = g
    BY <2>1, <2>3 DEF Inv, TypeOK
  <2> QED
    BY <2>3, <2>4
<1>2. CASE FinishFile
  <2>1. file[cmd.writing] = "torn" /\ file' = [file EXCEPT ![cmd.writing] = "rendered"]
    BY <1>2 DEF FinishFile, Inv, WritingTorn
  <2> QED
    BY <2>1 DEF Inv, TypeOK
<1>3. CASE \/ UseLocalTemplate \/ LocateTemplate \/ LoadManifest \/ ResolveContract
           \/ ResolveSdk \/ CheckCargoGenerate \/ PreRender \/ Render
  BY <1>3 DEF UseLocalTemplate, LocateTemplate, LoadManifest, ResolveContract, ResolveSdk,
              CheckCargoGenerate, PreRender, Render, Try, project
<1>4. CASE \/ Prune \/ Crash \/ BeginClone \/ EndClone \/ FetchRepo
           \/ WriteConfigSnippet \/ AppendConfigEntry \/ WriteEntry
           \/ MergeCompose \/ FinishCompose \/ EndTree \/ WriteLock \/ RenameLock
  BY <1>4 DEF Prune, Crash, BeginClone, EndClone, FetchRepo, WriteConfigSnippet,
              AppendConfigEntry, WriteEntry, MergeCompose, FinishCompose, EndTree,
              WriteLock, RenameLock, project
<1> QED
  BY <1>1, <1>2, <1>3, <1>4
     DEF Next, NewProject, ScaffoldBot, UpdateBot, Command, NewIdentity, EditFile, RepairConfig

\* Without --force what the user wrote survives every command: a protected file
\* and one with a key in it always, any other unless the user is asked and
\* agrees, whatever the manifest protects.
THEOREM UserEditsSurvive == Spec => EditsSurvive
BY Invariance, StepSparesEdits, PTL DEF Spec, EditsSurvive

-----------------------------------------------------------------------------
(* The session of the SDK.                                                 *)

\* What the steps of the daemon do to its streams (EventStreams).
ServerStep ==
    \/ \E i \in Ids, c \in Channels :
          ServeRegister(i, c) \/ ServeReconnect(i, c) \/ CloseStream(i, c)
    \/ \E i \in Ids : Park(i) \/ DropRequest(i) \/ OpenStream(i) \/ Reap(i)
    \/ ServeNotice \/ RotateToken \/ ReloadToken \/ RestartDaemon
    \/ UNCHANGED streamVars

\* One receiver at most is an invariant of the daemon by itself.
StreamsInv == StreamsTypeOK /\ OneReceiver

SessionInv == StreamsInv /\ SdkTypeOK

\* An empty daemon and a bot that has not connected yet.
LEMMA SessionStarts == SessionInit => SessionInv
<1> SUFFICES ASSUME SessionInit PROVE SessionInv
  OBVIOUS
<1>1. StreamsTypeOK
  BY StreamsAssumption DEF SessionInit, StreamsInit, StreamsTypeOK
<1>2. OneReceiver
  BY DEF SessionInit, StreamsInit, OneReceiver
<1>3. SdkTypeOK
  <2>1. Threshold \in Nat /\ CoolingOff \in Nat /\ MaxLost \in Nat
    BY SdkAssumption
  <2>2. failures \in 0 .. Threshold /\ cooled \in 0 .. CoolingOff /\ lost \in 0 .. MaxLost
        /\ secret \in 0 .. tokenFile
    BY <2>1 DEF SessionInit, StreamsInit
  <2> QED
    BY <2>2 DEF SessionInit, SdkTypeOK
<1> QED
  BY <1>1, <1>2, <1>3 DEF SessionInv, StreamsInv

\* A new channel is not the number of none.
LEMMA ChannelsAreNumbered == \A c \in Channels : c \in Nat /\ c # 0
  BY StreamsAssumption

\* A request of the daemon's keeps the types of its state.
LEMMA ServerTyped == StreamsTypeOK /\ ServerStep => StreamsTypeOK'
<1> SUFFICES ASSUME StreamsTypeOK, ServerStep PROVE StreamsTypeOK'
  OBVIOUS
<1> USE DEF StreamsTypeOK
<1>1. ASSUME NEW i \in Ids, NEW c \in Channels, ServeRegister(i, c) PROVE StreamsTypeOK'
  BY <1>1 DEF ServeRegister, tokenVars
<1>2. ASSUME NEW i \in Ids, NEW c \in Channels, ServeReconnect(i, c) PROVE StreamsTypeOK'
  BY <1>2 DEF ServeReconnect, tokenVars
<1>3. ASSUME NEW i \in Ids, NEW c \in Channels, CloseStream(i, c) PROVE StreamsTypeOK'
  <2>1. notices' \in Seq(Ids) /\ Len(notices') <= NoticeCapacity
    <3>1. Len(notices) \in Nat /\ NoticeCapacity \in Nat
      BY StreamsAssumption
    <3> QED
      BY <1>3, <3>1 DEF CloseStream
  <2>2. streams' \in [Ids -> SUBSET Channels]
    BY <1>3 DEF CloseStream
  <2> QED
    BY <1>3, <2>1, <2>2 DEF CloseStream, tokenVars
<1>4. ASSUME NEW i \in Ids, Park(i) \/ DropRequest(i) PROVE StreamsTypeOK'
  BY <1>4 DEF Park, DropRequest, tokenVars
<1>5. ASSUME NEW i \in Ids, OpenStream(i) PROVE StreamsTypeOK'
  <2>1. parked[i] \in Channels
    BY <1>5 DEF OpenStream
  <2>2. streams' \in [Ids -> SUBSET Channels] /\ parked' \in [Ids -> {0} \cup Channels]
    BY <1>5, <2>1 DEF OpenStream
  <2> QED
    BY <1>5, <2>2 DEF OpenStream, tokenVars
<1>6. ASSUME NEW i \in Ids, Reap(i) PROVE StreamsTypeOK'
  BY <1>6 DEF Reap, Unregister, tokenVars
<1>7. CASE ServeNotice
  <2>1. Tail(notices) \in Seq(Ids) /\ Len(Tail(notices)) = Len(notices) - 1 /\ Len(notices) \in Nat
    BY <1>7 DEF ServeNotice
  <2>2. Head(notices) \in Ids /\ NoticeCapacity \in Nat
    BY <1>7, StreamsAssumption DEF ServeNotice
  <2> QED
    BY <1>7, <2>1, <2>2 DEF ServeNotice, Unregister, tokenVars
<1>8. CASE RotateToken \/ ReloadToken
  BY <1>8, StreamsAssumption DEF RotateToken, ReloadToken
<1>9. CASE RestartDaemon
  BY <1>9, StreamsAssumption DEF RestartDaemon, InitToken
<1>10. CASE UNCHANGED streamVars
  BY <1>10 DEF streamVars, tokenVars
<1> QED
  BY <1>1, <1>2, <1>3, <1>4, <1>5, <1>6, <1>7, <1>8, <1>9, <1>10 DEF ServerStep

\* A registration gets a new channel only when it has no receiver; parking a
\* receiver, opening a stream and closing one pass on or drop what is there.
LEMMA ServerKeepsOneReceiver == StreamsInv /\ ServerStep => OneReceiver'
<1> SUFFICES ASSUME StreamsTypeOK, OneReceiver, ServerStep, NEW j \in registered'
             PROVE  Receivers(j)' \subseteq {current'[j]}
  BY DEF StreamsInv, OneReceiver
<1>0. StreamsTypeOK' /\ j \in Ids
  BY ServerTyped DEF StreamsTypeOK
<1>1. ASSUME NEW i \in Ids, NEW c \in Channels, ServeRegister(i, c)
      PROVE  Receivers(j)' \subseteq {current'[j]}
  <2>1. CASE j = i
    BY <1>1, <2>1 DEF ServeRegister, Receivers, StreamsTypeOK
  <2>2. CASE j # i
    BY <1>1, <2>2 DEF ServeRegister, Receivers, StreamsTypeOK, OneReceiver
  <2> QED
    BY <2>1, <2>2
<1>2. ASSUME NEW i \in Ids, NEW c \in Channels, ServeReconnect(i, c)
      PROVE  Receivers(j)' \subseteq {current'[j]}
  <2>1. CASE j = i
    <3>1. Receivers(i) = {}
      BY <1>2 DEF ServeReconnect, IsConnected, OneReceiver
    <3> QED
      BY <1>2, <2>1, <3>1 DEF ServeReconnect, Receivers, StreamsTypeOK
  <2>2. CASE j # i
    BY <1>2, <2>2 DEF ServeReconnect, Receivers, StreamsTypeOK, OneReceiver
  <2> QED
    BY <2>1, <2>2
<1>3. ASSUME registered' \subseteq registered, current'[j] = current[j],
             Receivers(j)' \subseteq Receivers(j)
      PROVE  Receivers(j)' \subseteq {current'[j]}
  BY <1>3 DEF OneReceiver
<1>4. ASSUME NEW i \in Ids, NEW c \in Channels, CloseStream(i, c)
      PROVE  Receivers(j)' \subseteq {current'[j]}
  BY <1>0, <1>3, <1>4 DEF CloseStream, Receivers, StreamsTypeOK
<1>5. ASSUME NEW i \in Ids, Park(i) \/ DropRequest(i)
      PROVE  Receivers(j)' \subseteq {current'[j]}
  BY <1>0, <1>3, <1>5 DEF Park, DropRequest, Receivers, StreamsTypeOK
<1>6. ASSUME NEW i \in Ids, OpenStream(i)
      PROVE  Receivers(j)' \subseteq {current'[j]}
  BY <1>0, <1>3, <1>6 DEF OpenStream, Receivers, StreamsTypeOK
<1>7. ASSUME NEW i \in Ids, Reap(i)
      PROVE  Receivers(j)' \subseteq {current'[j]}
  BY <1>0, <1>3, <1>7 DEF Reap, Unregister, Receivers, StreamsTypeOK
<1>8. CASE ServeNotice
  BY <1>0, <1>3, <1>8 DEF ServeNotice, Unregister, Receivers, StreamsTypeOK
<1>9. CASE RotateToken \/ ReloadToken
  BY <1>3, <1>9 DEF RotateToken, ReloadToken, Receivers
<1>10. CASE RestartDaemon
  BY <1>0, <1>10 DEF RestartDaemon, Receivers
<1>11. CASE UNCHANGED streamVars
  BY <1>3, <1>11 DEF streamVars, Receivers
<1> QED
  BY <1>1, <1>2, <1>4, <1>5, <1>6, <1>7, <1>8, <1>9, <1>10, <1>11 DEF ServerStep

\* Every step of the session is one of the daemon's or leaves it alone, and
\* the secret's file only gets newer.
LEMMA SessionSteps ==
    ASSUME StreamsTypeOK, SdkTypeOK, [SessionNext]_sessionVars
    PROVE  ServerStep /\ tokenFile' \in {tokenFile, tokenFile + 1}
<1>1. CASE Client
  <2>1. CASE UNCHANGED streamVars
    BY <2>1 DEF ServerStep, streamVars, tokenVars
  <2>2. ASSUME NEW i \in Ids, Answer(i) \/ StartSse(i)
        PROVE  ServerStep /\ tokenFile' = tokenFile
    BY <2>2 DEF Answer, StartSse, Park, OpenStream, ServerStep, tokenVars
  <2>3. ASSUME NEW i \in Ids, NEW c \in Channels, Register(i, c) \/ Reconnect(i, c)
        PROVE  ServerStep /\ tokenFile' = tokenFile
    BY <2>3 DEF Register, Reconnect, ServeRegister, ServeReconnect, ServerStep, tokenVars
  <2> QED
    BY <1>1, <2>1, <2>2, <2>3
       DEF Client, NextAction, Wait, PostRefused, RouteEvent, SendHandlerResponse, InvokeHandler,
           SessionUnknown, AlreadyConnected, SseRefused
<1>2. CASE TakeEvent \/ ResponseFails \/ StreamEnds \/ Shutdown \/ UNCHANGED sessionVars
  BY <1>2 DEF TakeEvent, ResponseFails, StreamEnds, Shutdown, ServerStep, sessionVars, streamVars,
              tokenVars
<1>3. CASE LosePost
  <2>1. CASE UNCHANGED streamVars
    BY <2>1 DEF ServerStep, streamVars, tokenVars
  <2>2. ASSUME NEW i \in asking, DropRequest(i) \/ Park(i)
        PROVE  ServerStep /\ tokenFile' = tokenFile
    <3>1. i \in Ids
      BY DEF SdkTypeOK
    <3> QED
      BY <2>2, <3>1 DEF DropRequest, Park, ServerStep, tokenVars
  <2> QED
    BY <1>3, <2>1, <2>2 DEF LosePost
<1>4. CASE DaemonRestarts
  BY <1>4 DEF DaemonRestarts, RestartDaemon, ServerStep
<1>5. CASE Daemon
  BY <1>5 DEF Daemon, StreamRunsOut, CloseStream, ServeNotice, ServerStep, tokenVars
<1>6. CASE RotateToken \/ ReloadToken
  BY <1>6 DEF RotateToken, ReloadToken, ServerStep
<1>7. ASSUME NEW i \in Ids, Reap(i) PROVE ServerStep /\ tokenFile' = tokenFile
  BY <1>7 DEF Reap, ServerStep, tokenVars
<1>8. ASSUME NEW i \in Ids, NEW c \in Channels, PeerGone(i, c)
      PROVE  ServerStep /\ tokenFile' = tokenFile
  BY <1>8 DEF PeerGone, CloseStream, ServerStep, tokenVars
<1> QED
  BY <1>1, <1>2, <1>3, <1>4, <1>5, <1>6, <1>7, <1>8 DEF SessionNext

\* The types of the loop: where it is, its circuit and its counters.
LoopTyped ==
    /\ pc \in {"idle", "post", "answer", "sse", "running", "stopped"}
    /\ session \in {{}} \cup {{i} : i \in Ids}
    /\ asking \in {{}} \cup {{i} : i \in Ids}
    /\ circuit \in {"closed", "open", "half_open"}
    /\ failures \in 0 .. Threshold
    /\ secret \in 0 .. tokenFile
    /\ cooled \in 0 .. CoolingOff

EventTyped ==
    /\ event \in {"none", "routing", "handler", "answering"}
    /\ event # "none" => pc = "running"
    /\ lost \in 0 .. MaxLost

\* RetryCircuit.record_failure counts up to the threshold and opens the circuit.
LEMMA FailureTyped ==
    ASSUME SdkTypeOK, AttemptFails, tokenFile' = tokenFile \/ tokenFile' = tokenFile + 1,
           tokenFile \in Nat, session' = session, lost' \in 0 .. MaxLost
    PROVE  LoopTyped' /\ EventTyped'
<1>1. /\ Threshold \in Nat \ {0} /\ CoolingOff \in Nat
      /\ failures \in Nat /\ failures <= Threshold /\ cooled \in 0 .. CoolingOff
      /\ secret \in Nat /\ secret <= tokenFile
  BY SdkAssumption DEF SdkTypeOK
<1>2. failures' \in 0 .. Threshold /\ cooled' \in 0 .. CoolingOff /\ secret' \in 0 .. tokenFile'
  BY <1>1 DEF AttemptFails
<1>3. /\ pc' = "idle" /\ event' = "none" /\ asking' = {}
      /\ circuit' \in {circuit, "open"}
  BY DEF AttemptFails
<1>4. circuit \in {"closed", "open", "half_open"} /\ session \in {{}} \cup {{i} : i \in Ids}
  BY DEF SdkTypeOK
<1> QED
  BY <1>2, <1>3, <1>4 DEF LoopTyped, EventTyped

\* Every step keeps the types of the loop and of the event in hand.
LEMMA SessionStepTyped ==
    ASSUME StreamsTypeOK, SdkTypeOK, [SessionNext]_sessionVars
    PROVE  LoopTyped' /\ EventTyped'
<1> DEFINE Goal == LoopTyped' /\ EventTyped'
<1>1. /\ tokenFile \in Nat /\ (tokenFile' = tokenFile \/ tokenFile' = tokenFile + 1)
      /\ MaxLost \in Nat /\ CoolingOff \in Nat /\ Threshold \in Nat
      /\ lost \in Nat /\ lost <= MaxLost /\ LoopTyped /\ EventTyped
  BY SessionSteps, SdkAssumption, StreamsAssumption DEF StreamsTypeOK, SdkTypeOK, LoopTyped, EventTyped
<1>2. ASSUME AttemptFails, session' = session, lost' = lost \/ (lost < MaxLost /\ lost' = lost + 1)
      PROVE  Goal
  <2>1. lost' \in 0 .. MaxLost
    BY <1>1, <1>2
  <2> QED
    BY <1>1, <1>2, <2>1, FailureTyped
<1>3. ASSUME UNCHANGED sdkVars PROVE Goal
  <2>1. UNCHANGED <<pc, session, asking, circuit, failures, secret, cooled, event, lost>>
    BY <1>3 DEF sdkVars, loopVars
  <2>2. secret \in 0 .. tokenFile'
    BY <1>1 DEF LoopTyped
  <2> QED
    BY <1>1, <2>1, <2>2 DEF LoopTyped, EventTyped
<1>4. CASE NextAction
  <2>1. /\ pc = "idle" /\ pc' = "post" /\ secret' = tokenFile /\ tokenFile' = tokenFile
        /\ circuit' \in {circuit, "half_open"}
        /\ UNCHANGED <<session, asking, failures, cooled, event, lost>>
    BY <1>4 DEF NextAction, streamVars, tokenVars
  <2>2. secret' \in 0 .. tokenFile'
    BY <1>1, <2>1
  <2> QED
    BY <1>1, <2>1, <2>2 DEF LoopTyped, EventTyped
<1>5. CASE Wait
  <2>1. /\ cooled < CoolingOff /\ cooled' = cooled + 1 /\ tokenFile' = tokenFile
        /\ UNCHANGED <<pc, session, asking, circuit, failures, secret, event, lost>>
    BY <1>5 DEF Wait, streamVars, tokenVars
  <2>2. cooled' \in 0 .. CoolingOff
    BY <1>1, <2>1 DEF LoopTyped
  <2> QED
    BY <1>1, <2>1, <2>2 DEF LoopTyped, EventTyped
<1>6. ASSUME NEW i \in Ids, NEW c \in Channels, Register(i, c) \/ Reconnect(i, c) PROVE Goal
  <2>1. /\ pc = "post" /\ pc' = "answer" /\ asking' = {i} /\ tokenFile' = tokenFile
        /\ UNCHANGED <<session, circuit, failures, secret, cooled, event, lost>>
    BY <1>6 DEF Register, Reconnect, PostAccepted, ServeRegister, ServeReconnect, tokenVars
  <2> QED
    BY <1>1, <2>1 DEF LoopTyped, EventTyped
<1>7. ASSUME NEW i \in Ids, SessionUnknown(i) PROVE Goal
  <2>1. /\ session' = {} /\ tokenFile' = tokenFile
        /\ UNCHANGED <<pc, asking, circuit, failures, secret, cooled, event, lost>>
    BY <1>7 DEF SessionUnknown, streamVars, tokenVars
  <2> QED
    BY <1>1, <2>1 DEF LoopTyped, EventTyped
<1>8. ASSUME NEW i \in Ids, Answer(i) PROVE Goal
  <2>1. /\ pc = "answer" /\ pc' = "sse" /\ session' = {i} /\ asking' = {} /\ tokenFile' = tokenFile
        /\ UNCHANGED <<circuit, failures, secret, cooled, event, lost>>
    BY <1>8 DEF Answer, Park, tokenVars
  <2> QED
    BY <1>1, <2>1 DEF LoopTyped, EventTyped
<1>9. ASSUME NEW i \in Ids, StartSse(i) PROVE Goal
  <2>1. /\ pc = "sse" /\ pc' = "running" /\ tokenFile' = tokenFile
        /\ UNCHANGED <<session, asking, circuit, failures, secret, cooled, event, lost>>
    BY <1>9 DEF StartSse, OpenStream, tokenVars
  <2> QED
    BY <1>1, <2>1 DEF LoopTyped, EventTyped
<1>10. ASSUME UNCHANGED <<loopVars, lost>>, tokenFile' = tokenFile, pc = "running",
              event' \in {"none", "routing", "handler", "answering"}
       PROVE  Goal
  <2>1. UNCHANGED <<pc, session, asking, circuit, failures, secret, cooled, lost>>
    BY <1>10 DEF loopVars
  <2> QED
    BY <1>1, <1>10, <2>1 DEF LoopTyped, EventTyped
<1>11. CASE TakeEvent \/ RouteEvent \/ SendHandlerResponse
  <2>1. /\ UNCHANGED <<loopVars, lost>> /\ tokenFile' = tokenFile
        /\ event' \in {"none", "routing", "handler", "answering"}
    BY <1>11 DEF TakeEvent, RouteEvent, SendHandlerResponse, streamVars, tokenVars
  <2>2. pc = "running"
    BY <1>1, <1>11 DEF TakeEvent, RouteEvent, SendHandlerResponse, EventTyped
  <2> QED
    BY <1>10, <2>1, <2>2
<1>12. ASSUME NEW r \in Results, InvokeHandler(r) PROVE Goal
  <2>1. /\ UNCHANGED <<loopVars, lost>> /\ tokenFile' = tokenFile
        /\ event' \in {"none", "routing", "handler", "answering"}
    BY <1>12 DEF InvokeHandler, streamVars, tokenVars
  <2>2. pc = "running"
    BY <1>1, <1>12 DEF InvokeHandler, EventTyped
  <2> QED
    BY <1>10, <2>1, <2>2
<1>13. CASE Shutdown
  <2>1. /\ pc' = "stopped" /\ event' = "none" /\ tokenFile' = tokenFile
        /\ circuit' \in {circuit, "closed"} /\ failures' \in {failures, 0}
        /\ UNCHANGED <<session, asking, secret, cooled, lost>>
    BY <1>13 DEF Shutdown, streamVars, tokenVars
  <2>2. failures' \in 0 .. Threshold
    BY <1>1, <2>1 DEF LoopTyped
  <2> QED
    BY <1>1, <2>1, <2>2 DEF LoopTyped, EventTyped
<1>14. CASE PostRefused
  BY <1>2, <1>14 DEF PostRefused
<1>15. ASSUME NEW i \in Ids, AlreadyConnected(i) \/ SseRefused(i) PROVE Goal
  BY <1>2, <1>15 DEF AlreadyConnected, SseRefused
<1>16. CASE LosePost \/ ResponseFails
  BY <1>2, <1>16 DEF LosePost, ResponseFails
<1>17. CASE StreamEnds
  BY <1>2, <1>17 DEF StreamEnds
<1>18. CASE DaemonRestarts
  BY <1>2, <1>3, <1>18 DEF DaemonRestarts
<1>19. CASE \E i \in Ids, c \in Channels : PeerGone(i, c)
  BY <1>3, <1>19 DEF PeerGone
<1>20. CASE UNCHANGED sessionVars
  BY <1>3, <1>20 DEF sessionVars
<1>21. CASE Client
  BY <1>4, <1>5, <1>6, <1>7, <1>8, <1>9, <1>11, <1>12, <1>14, <1>15, <1>21 DEF Client
<1>22. CASE \/ Daemon /\ UNCHANGED sdkVars
            \/ (RotateToken \/ ReloadToken) /\ UNCHANGED sdkVars
            \/ \E i \in Ids : Reap(i) /\ UNCHANGED sdkVars
  <2>1. UNCHANGED sdkVars
    BY <1>22
  <2> QED
    BY <1>3, <2>1
<1>23. CASE SessionNext
  BY <1>11, <1>13, <1>16, <1>17, <1>18, <1>19, <1>21, <1>22, <1>23 DEF SessionNext
<1> QED
  BY <1>20, <1>23

\* The session's invariant is kept by every step.
LEMMA SessionKeeps == SessionInv /\ [SessionNext]_sessionVars => SessionInv'
<1> SUFFICES ASSUME SessionInv, [SessionNext]_sessionVars PROVE SessionInv'
  OBVIOUS
<1>1. StreamsTypeOK /\ OneReceiver /\ SdkTypeOK
  BY DEF SessionInv, StreamsInv
<1>2. ServerStep
  BY <1>1, SessionSteps
<1>3. StreamsTypeOK' /\ OneReceiver'
  BY <1>1, <1>2, ServerTyped, ServerKeepsOneReceiver DEF StreamsInv
<1>4. LoopTyped' /\ EventTyped'
  BY <1>1, SessionStepTyped
<1>5. SdkTypeOK'
  BY <1>4 DEF SdkTypeOK, LoopTyped, EventTyped
<1> QED
  BY <1>3, <1>5 DEF SessionInv, StreamsInv

\* The registry, the outbound map, the streams, the disconnect channel and
\* the SDK's loop with its circuit hold what they are meant to; the SDK has an
\* event in hand only while _run_once is running.
THEOREM SessionTypeCorrect == SessionSpec => []SessionTypeOK
<1>1. SessionInv => SessionTypeOK
  BY DEF SessionInv, StreamsInv, SessionTypeOK
<1> QED
  BY <1>1, SessionStarts, SessionKeeps, PTL DEF SessionSpec

\* HandlerRegistry::reconnect refuses while the channel has a receiver, and
\* so no request, parked channel or stream of an earlier connection receives
\* next to the registration's own.
THEOREM RegistrationHasOneReceiver == SessionSpec => []OneReceiver
<1>1. SessionInv => OneReceiver
  BY DEF SessionInv, StreamsInv
<1> QED
  BY <1>1, SessionStarts, SessionKeeps, PTL DEF SessionSpec

=============================================================================
