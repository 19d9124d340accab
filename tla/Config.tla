------------------------------- MODULE Config -------------------------------
(***************************************************************************)
(* pacto-bot-api.toml and what is accepted of it (config.rs, mls_path.rs). *)
(* A daemon, and every admin command, loads it before anything else.       *)
(*                                                                         *)
(* A config is the mode of its file, the least of the numbers that must be *)
(* positive, and its bots in order.  An id may be written with a variable  *)
(* of the environment.  A bot's store is the directory its mls_db_path     *)
(* leads to, which a relative path finds in the directory of the bot's own *)
(* id.                                                                     *)
(***************************************************************************)
EXTENDS Naturals

Slugs == {"a", "b"}
Variable == "${BOT:-a}"
Default == "a"
Environments == {"", "b"}     \* what BOT is set to, nothing when it is not
Ids == Slugs \cup {"../a", Variable}
Capabilities == {"SendMessages", "SendGroupMessages"}
MlsCapabilities == {"SendGroupMessages"}
SharedTemp == {"/tmp"}
Paths == {"none", "relative"} \cup Slugs \cup SharedTemp

Bots == [id : Ids, display_name : {"x", "X", "y"}, capability : Capabilities,
         mls_db_path : Paths, signing : {"nsec", "wss", "ws", "empty"}]

Configs == [owner_only : BOOLEAN, least : 0..1, bots : Bots \X Bots]

-----------------------------------------------------------------------------
\* expand_env_vars: before the text is parsed, a variable is replaced by its
\* value, or by the default when that is empty.
ExpandEnvVars(text, env) ==
    IF text # Variable THEN text ELSE IF env = "" THEN Default ELSE env

Expanded(c, env) ==
    [c EXCEPT !.bots = [i \in DOMAIN c.bots |->
                          [c.bots[i] EXCEPT !.id = ExpandEnvVars(c.bots[i].id, env)]]]

\* Names that differ in case only are the same alias.
Lower(name) == IF name = "X" THEN "x" ELSE name

Distinct(values) == \A i, j \in DOMAIN values : values[i] = values[j] => i = j

\* enforce_config_permissions
EnforceConfigPermissions(c) == c.owner_only

\* validate_daemon_config: intervals, sizes, rates and bursts.
ValidateDaemonConfig(c) == c.least > 0

\* validate_bot_id: an id is a slug, so it names one directory of data_dir.
ValidateBotId(bot) == bot.id \in Slugs

\* validate_mls_db_path, the directory of the store; secure_ensure_mls_parent_dir
\* refuses symlinks, mountpoints and shared temporary directories.
StoreDir(bot) == IF bot.mls_db_path = "relative" THEN bot.id ELSE bot.mls_db_path
SecureParentDir(dir) == dir \notin SharedTemp

\* Mutant: any safe directory will do.
ValidateMlsDbPathAnywhere(bot) == SecureParentDir(StoreDir(bot))

\* The directory must be safe, and the bot's own.
ValidateMlsDbPath(bot) == SecureParentDir(StoreDir(bot)) /\ StoreDir(bot) = bot.id

HasStore(bot) == bot.mls_db_path # "none"

\* A bunker may be remote only over wss.
ValidateSigning(bot) == bot.signing \notin {"ws", "empty"}

ValidateBots(bots) ==
    /\ \A i \in DOMAIN bots :
          /\ ValidateBotId(bots[i])
          /\ bots[i].capability \in MlsCapabilities => HasStore(bots[i])
          /\ HasStore(bots[i]) => ValidateMlsDbPath(bots[i])
          /\ ValidateSigning(bots[i])
    /\ Distinct([i \in DOMAIN bots |-> bots[i].id])
    /\ Distinct([i \in DOMAIN bots |-> Lower(bots[i].display_name)])

\* DaemonConfig::load
Load(c) == EnforceConfigPermissions(c) /\ ValidateBots(c.bots) /\ ValidateDaemonConfig(c)

\* Two of its bots keep their state in one place.
SharesStore(c) ==
    \E i, j \in DOMAIN c.bots :
        i # j /\ HasStore(c.bots[i]) /\ HasStore(c.bots[j])
              /\ StoreDir(c.bots[i]) = StoreDir(c.bots[j])

\* What may be said of a config that loads.
Loaded ==
    UNION {{SharesStore(Expanded(c, env)) : c \in {d \in Configs : Load(Expanded(d, env))}} :
           env \in Environments}

=============================================================================
