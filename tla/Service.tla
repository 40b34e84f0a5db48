------------------------------ MODULE Service ------------------------------
(***************************************************************************)
(* The settings of an installation, and who holds a copy of them: the env  *)
(* file that `tachi-agent setup` writes (setup.ts) and every program takes *)
(* its defaults from (env-bootstrap.ts), the launchd property list that    *)
(* `service install` writes (service.ts), the copy launchd has loaded, and *)
(* the daemon that launchd keeps running (daemon/index.ts), which keeps    *)
(* the event log of module EventLog.                                       *)
(*                                                                         *)
(* Three settings stand for all: the token, which is made once and must be *)
(* the same everywhere, the driver, which the user changes, and the API    *)
(* key that one of the drivers needs.  A program at the command line has   *)
(* awaits (and prompts) between its steps, may fail at each of them, and   *)
(* may be killed; a file is written by emptying it first.                  *)
(*                                                                         *)
(* Left out: the other settings, modes of files, directories, and a daemon *)
(* that is started without launchd.                                        *)
(***************************************************************************)
EXTENDS EventLog, FiniteSets

CONSTANTS
  Programs, \* bound: the calls of the command line, 1 .. n
  MaxEnds   \* bound: how often the daemon ends by itself or the user logs out

ASSUME ServiceAssumption == Programs \in Nat /\ MaxEnds \in Nat

VARIABLES
  prog,   \* the programs at the command line
  envFile,\* ~/.tachi/.env
  plist,  \* the property list on disk
  loaded, \* launchd's copy of it
  daemon, \* the settings of the running daemon
  doubt,  \* history: the settings whose copies may differ, and why is told below
  ends    \* history: how often that was

settingsVars == <<prog, envFile, plist, loaded, daemon, doubt, ends>>
vars == <<logVars, settingsVars>>

Ids == 1 .. Programs

(* A token is named after the program that made it, a key after the one in *)
(* which the user typed it; the user's shell may export both, and a write  *)
(* that breaks off may leave the half of one.                              *)
FromShell == Programs + 1
Half == Programs + 2

Settings == [token : 0 .. Half, key : 0 .. Half,
             driver : {"none", "ollama", "openrouter", "half"}]
Keys == {"token", "driver", "key"}

(* None of them: a file that is missing or empty, a property list that     *)
(* cannot be loaded, a daemon that does not run.                           *)
None == [token |-> 0, driver |-> "none", key |-> 0]

(* parseCliArgs(), for what these modules are about.                       *)
Commands == {"setup", "install", "install from file", "uninstall", "doctor"}

(* What the user's shell exports.                                          *)
Shells == {None, [token |-> FromShell, driver |-> "openrouter", key |-> FromShell]}

(* applyEnvDefaults().                                                     *)
Defaults(env, defaults) ==
  [k \in Keys |-> IF env[k] # None[k] THEN env[k] ELSE defaults[k]]

(* The driver's factory finds the key that it needs.                       *)
HasKey(env) == env.driver = "openrouter" => env.key # 0

(* getDriver(): the name is registered.                                    *)
Resolves(env) == env.driver # "half" /\ HasKey(env)

(* kind: the command, and for install whether it has --env-file.  shell:   *)
(* what its environment had at the start; seen: what it has got from the   *)
(* env file.  own: what it has read and is about to write.  alone: no      *)
(* other program has been under way since it began.                        *)
NewProgram == [pc |-> "new", kind |-> "setup", shell |-> None, seen |-> None, own |-> None,
               alone |-> FALSE]

Init ==
  /\ LogInit
  /\ prog = [p \in Ids |-> NewProgram]
  /\ envFile = None /\ plist = None /\ loaded = None /\ daemon = None
  /\ doubt = {} /\ ends = 0

Over == {"done", "failed"}

UnderWay(p) == prog[p].pc \notin Over \cup {"new"}

Env(p) == Defaults(prog[p].shell, prog[p].seen)

Goes(p, pc) == prog' = [prog EXCEPT ![p].pc = pc]

Holds(p, pc, own) == prog' = [prog EXCEPT ![p].pc = pc, ![p].own = own]

Ends(p, pc) == prog' = [prog EXCEPT ![p] = [NewProgram EXCEPT !.pc = pc]]

-----------------------------------------------------------------------------
(* The programs. *)

(* main(): loadUserEnv(), whose defaults the shell overrides, and the      *)
(* command.                                                                *)
Begins(p) ==
  /\ prog[p].pc = "new" /\ \A q \in 1 .. p - 1 : prog[q].pc # "new"
  /\ \E kind \in Commands, shell \in Shells :
       prog' = [q \in Ids |->
         IF q # p THEN [prog[q] EXCEPT !.alone = FALSE]
         ELSE [pc |-> CASE kind = "setup" -> "read"
                        [] kind = "uninstall" -> "boot out"
                        [] kind = "doctor" -> "doctor"
                        [] OTHER -> "collect",
               kind |-> kind, shell |-> shell, seen |-> envFile, own |-> None,
               alone |-> \A r \in Ids : ~UnderWay(r)]]
  /\ doubt' = IF \E q \in Ids : UnderWay(q) THEN Keys ELSE doubt
  /\ UNCHANGED <<logVars, envFile, plist, loaded, daemon, ends>>

unchangedByPrompts == <<logVars, envFile, plist, loaded, daemon, doubt, ends>>

(* setupOllama(): the driver stays, whatever the probe and the pull of the *)
(* model come to.                                                          *)
OllamaBrain(own) == {[own EXCEPT !.driver = "ollama"]}

(* "Other": what the file has.                                             *)
SameBrain(own) == {[own EXCEPT !.driver = IF @ = "none" THEN "ollama" ELSE @]}

(* Variant with a plausible bug: whoever gives up keeps the driver.        *)
OpenRouterBrainKept(p, own) ==
  LET existing == IF own.key # 0 THEN own.key ELSE Env(p).key
  IN {[own EXCEPT !.driver = "openrouter", !.key = k] : k \in {existing, p} \ {0}}
       \cup {[own EXCEPT !.driver = "openrouter"]}

(* setupOpenRouter(): a key that is there or typed, and either found valid *)
(* or saved anyway; or no key, or none that is right after three attempts. *)
OpenRouterBrain(p, own) ==
  LET existing == IF own.key # 0 THEN own.key ELSE Env(p).key
  IN {[own EXCEPT !.driver = "openrouter", !.key = k] : k \in {existing, p} \ {0}}
       \cup {[own EXCEPT !.driver = "ollama"]}

(* Variant with a plausible bug: the environment before the file.          *)
TokenForEnvironment(p, own) ==
  IF Env(p).token # 0 THEN Env(p).token ELSE IF own.token # 0 THEN own.token ELSE p

(* The file's token, or the environment's, or a new one.                   *)
TokenFor(p, own) ==
  IF own.token # 0 THEN own.token ELSE IF Env(p).token # 0 THEN Env(p).token ELSE p

(* The wizard reads the env file, and asks its questions, which concern    *)
(* nobody else: it may be long before it goes on.                          *)
Answered(p) ==
  /\ prog[p].pc = "read"
  /\ \E own \in OllamaBrain(envFile) \cup SameBrain(envFile) \cup OpenRouterBrain(p, envFile) :
       Holds(p, "write", [own EXCEPT !.token = TokenFor(p, envFile)])
  /\ UNCHANGED unchangedByPrompts

(* writeFile() empties the file.  A driver or a key that the user has      *)
(* changed is from now on not the daemon's.                                *)
EmptiesFile(p) ==
  /\ prog[p].pc = "write"
  /\ envFile' = None /\ Goes(p, "writing")
  /\ doubt' = doubt \cup {k \in {"driver", "key"} : prog[p].own[k] # envFile[k]}
  /\ UNCHANGED <<logVars, plist, loaded, daemon, ends>>

(* Variant with a plausible bug: the driver is written before its key.     *)
TornUnsorted(own) ==
  {None, [None EXCEPT !.token = Half], [None EXCEPT !.token = own.token], [own EXCEPT !.key = 0]}

(* What a write that breaks off leaves: the keys are sorted.               *)
Torn(own) ==
  {None, [None EXCEPT !.token = Half], [None EXCEPT !.token = own.token],
   [own EXCEPT !.driver = "none"], [own EXCEPT !.driver = "half"]}
    \cup (IF own.key = 0 THEN {} ELSE {[own EXCEPT !.driver = "none", !.key = Half]})

(* The file is whole; or the write breaks off, and the wizard with it.     *)
WritesFile(p) ==
  /\ prog[p].pc = "writing"
  /\ \/ envFile' = prog[p].own /\ Goes(p, "offer") /\ UNCHANGED doubt
     \/ envFile' \in Torn(prog[p].own) /\ Ends(p, "failed") /\ doubt' = Keys
  /\ UNCHANGED <<logVars, plist, loaded, daemon, ends>>

(* Variant with a plausible bug: the environment is what it was.           *)
RefreshedNothing(p) == prog[p].seen

(* What came from the env file at the start is taken from the file written.*)
Refreshed(p) == Defaults(prog[p].own, prog[p].seen)

(* The end of the installation, good or bad: setup shows it and goes on to *)
(* the doctor with the new settings.                                       *)
Installed(p, pc) ==
  IF prog[p].kind = "setup"
  THEN prog' = [prog EXCEPT ![p].pc = "doctor", ![p].seen = Refreshed(p)]
  ELSE Ends(p, pc)

(* "Install the background daemon as a service?"                           *)
Offers(p) ==
  /\ prog[p].pc = "offer"
  /\ Goes(p, "collect") \/ Installed(p, "done")
  /\ UNCHANGED unchangedByPrompts

(* serviceInstall() collects the environment of the daemon: the token, the *)
(* driver but not the key of the program's own (setup has not refreshed it *)
(* yet), which the env file overrides.                                     *)
Collected(p) ==
  LET own == [Env(p) EXCEPT !.key = 0]
  IN IF prog[p].kind = "install" THEN own ELSE Defaults(envFile, own)

(* It throws without a token, or when the env file cannot be read.  What is*)
(* not the env file's is from now on the daemon's alone, and a driver that *)
(* is not comes without its key.                                           *)
Collects(p) ==
  /\ prog[p].pc = "collect"
  /\ \/ /\ Collected(p).token # 0
        /\ Holds(p, "write plist", Collected(p))
        /\ doubt' = doubt
             \cup (IF Collected(p).token # envFile.token THEN {"token"} ELSE {})
             \cup (IF Collected(p).driver # envFile.driver THEN {"driver", "key"} ELSE {})
     \/ /\ Collected(p).token = 0 \/ (prog[p].kind # "install" /\ envFile = None)
        /\ Installed(p, "failed") /\ UNCHANGED doubt
  /\ UNCHANGED <<logVars, envFile, plist, loaded, daemon, ends>>

EmptiesPlist(p) ==
  /\ prog[p].pc = "write plist"
  /\ plist' = None /\ Goes(p, "writing plist")
  /\ UNCHANGED <<logVars, envFile, loaded, daemon, doubt, ends>>

WritesPlist(p) ==
  /\ prog[p].pc = "writing plist"
  /\ \/ plist' = prog[p].own /\ Goes(p, "boot out")
     \/ Installed(p, "failed") /\ UNCHANGED plist
  /\ UNCHANGED <<logVars, envFile, loaded, daemon, doubt, ends>>

DaemonGoes ==
  /\ daemon' = None
  /\ IF daemon = None THEN UNCHANGED logVars ELSE LogEnds

(* launchctl bootout, whose failure is not looked at.                      *)
BootsOut(p) ==
  /\ prog[p].pc = "boot out"
  /\ Goes(p, IF prog[p].kind = "uninstall" THEN "remove" ELSE "boot up")
  /\ \/ loaded' = None /\ DaemonGoes
     \/ UNCHANGED <<logVars, loaded, daemon>>
  /\ UNCHANGED <<envFile, plist, doubt, ends>>

(* launchctl bootstrap loads the file, unless it fails or one is loaded.   *)
(* A wizard that has come here undisturbed has settled every difference.   *)
BootsUp(p) ==
  /\ prog[p].pc = "boot up"
  /\ \/ /\ loaded = None /\ plist # None
        /\ loaded' = plist /\ Installed(p, "done")
        /\ doubt' = IF prog[p].kind = "setup" /\ prog[p].alone THEN {} ELSE doubt
     \/ UNCHANGED <<loaded, doubt>> /\ Installed(p, "failed")
  /\ UNCHANGED <<logVars, envFile, plist, daemon, ends>>

(* rm, whose failure is not looked at.                                     *)
Removes(p) ==
  /\ prog[p].pc = "remove" /\ Ends(p, "done")
  /\ plist' \in {None, plist}
  /\ UNCHANGED <<logVars, envFile, loaded, daemon, doubt, ends>>

(* The rows of the doctor: the driver; Ollama, when it is the driver; and, *)
(* when the shell exports its URL, the daemon, which answers whoever has   *)
(* its token.                                                              *)
DriverIsWell(p) == Resolves(Env(p))

OllamaMatters(p) == Env(p).driver \in {"none", "ollama"}

DaemonAnswers(p) == daemon # None /\ daemon.token = Env(p).token

(* runDoctor(); the outcome is what `doctor` exits with, and nothing to the*)
(* wizard.                                                                 *)
Examines(p) ==
  /\ prog[p].pc = "doctor"
  /\ \/ /\ DriverIsWell(p) \/ prog[p].kind = "setup"
        /\ Ends(p, "done")
     \/ /\ prog[p].kind = "doctor"
        /\ ~DriverIsWell(p) \/ OllamaMatters(p) \/ ~DaemonAnswers(p)
        /\ Ends(p, "failed")
  /\ UNCHANGED unchangedByPrompts

-----------------------------------------------------------------------------
(* launchd and the daemon. *)

(* buildAgentFromEnv() succeeds: without a token, with a driver that does  *)
(* not resolve, or when a tool server cannot be connected, the daemon ends *)
(* at once, for launchd to try again.                                      *)
StartsUp(env) == env.token # 0 /\ Resolves(env)

(* Variant with a plausible bug: the env file before the loaded list.      *)
StartsFromFile ==
  /\ loaded # None /\ daemon = None
  /\ StartsUp(Defaults(envFile, loaded))
  /\ daemon' = Defaults(envFile, loaded)
  /\ UNCHANGED <<logVars, prog, envFile, plist, loaded, doubt, ends>>

(* RunAtLoad and KeepAlive: the daemon's environment is that of the loaded *)
(* list, with the env file for defaults.                                   *)
Starts ==
  /\ loaded # None /\ daemon = None
  /\ StartsUp(Defaults(loaded, envFile))
  /\ daemon' = Defaults(loaded, envFile)
  /\ UNCHANGED <<logVars, prog, envFile, plist, loaded, doubt, ends>>

Dies ==
  /\ daemon # None /\ ends < MaxEnds
  /\ ends' = ends + 1
  /\ DaemonGoes
  /\ UNCHANGED <<prog, envFile, plist, loaded, doubt>>

(* The user logs out, which ends every program in the middle of what it    *)
(* does, and in, when launchd loads what it finds on disk.                 *)
LogsIn ==
  /\ ends < MaxEnds /\ ends' = ends + 1
  /\ prog' = [p \in Ids |-> IF UnderWay(p) THEN [NewProgram EXCEPT !.pc = "failed"] ELSE prog[p]]
  /\ LET writing == {p \in Ids : prog[p].pc = "writing"}
     IN /\ envFile' \in {envFile} \cup UNION {Torn(prog[p].own) : p \in writing}
        /\ doubt' = IF writing = {} THEN doubt ELSE Keys
  /\ loaded' = plist
  /\ DaemonGoes
  /\ UNCHANGED plist

Logs == daemon # None /\ LogStep /\ UNCHANGED settingsVars

-----------------------------------------------------------------------------
ProgramStep(p) ==
  Begins(p) \/ Answered(p) \/ EmptiesFile(p) \/ WritesFile(p)
    \/ Offers(p) \/ Collects(p) \/ EmptiesPlist(p) \/ WritesPlist(p) \/ BootsOut(p) \/ BootsUp(p)
    \/ Removes(p) \/ Examines(p)

Next == Starts \/ Dies \/ LogsIn \/ Logs \/ \E p \in Ids : ProgramStep(p)

Spec == Init /\ [][Next]_vars

-----------------------------------------------------------------------------
(* Properties *)

(* The variables hold values of their types, in particular nothing is      *)
(* installed, loaded or running without a token: the daemon is never       *)
(* without authentication, and never refused by itself at a launch; and it *)
(* asks for the token that launchd has loaded, whatever the env file says. *)
TypeOK ==
  /\ LogTypeOK
  /\ prog \in [Ids ->
       [pc : Over \cup {"new", "read", "write", "writing", "offer", "collect",
                        "write plist", "writing plist", "boot out", "boot up", "remove", "doctor"},
        kind : Commands,
        shell : Shells, seen : Settings, own : Settings, alone : BOOLEAN]]
  /\ envFile \in Settings
  /\ \A copy \in {plist, loaded, daemon} : copy \in Settings /\ (copy # None => copy.token # 0)
  /\ daemon # None => daemon.token = loaded.token
  /\ doubt \subseteq Keys
  /\ ends \in 0 .. MaxEnds

(* All copies of a setting agree: a client that takes its token from the   *)
(* env file is let in, and the daemon runs the driver the user has chosen. *)
(* They may differ after a write of the env file broke off, after two      *)
(* programs ran at once, when the daemon was installed with a token or a   *)
(* driver that is not the env file's, and, for driver and key, when the    *)
(* wizard has changed them and has not installed the service.  But running *)
(* the wizard once more, alone and with the installation, makes them agree *)
(* again, from whatever state that was.  And a doctor that nobody disturbs *)
(* looks at the settings that the next program in its shell would have,    *)
(* also when the wizard in the same process has just changed them.         *)
SettingsAgree ==
  /\ \A k \in Keys \ doubt : \A a, b \in {envFile, plist, loaded, daemon} :
       a[k] # None[k] /\ b[k] # None[k] => a[k] = b[k]
  /\ \A p \in Ids : prog[p].pc = "doctor" /\ prog[p].alone =>
       Env(p) = Defaults(prog[p].shell, envFile)

(* Whoever is told to use OpenRouter has a key for it, on every path       *)
(* through the wizard's questions and wherever a write of the env file     *)
(* breaks off: an agent that starts with the env file has one, and so has  *)
(* the daemon that launchd starts, unless the file is being written or the *)
(* key in doubt (as when the service was installed from a shell with another*)
(* driver and its key, of which the property list gets only the driver).   *)
DriverHasKey ==
  /\ HasKey(envFile)
  /\ \A list \in {plist, loaded} :
       list # None /\ envFile # None /\ "key" \notin doubt =>
         HasKey(Defaults(list, envFile))
=============================================================================
