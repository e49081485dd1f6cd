--------------------------- MODULE PluginScripts ---------------------------
(***************************************************************************)
(* The runtime plugins of a task, from what is asked of them to what their *)
(* commands do: init.py of each plugin writes a script in the init         *)
(* container, which the task container calls before the job (and, for cmd, *)
(* after it).  init.d/initializer.py has the loop over the plugins (see    *)
(* PluginInit for what happens when it is run again),                      *)
(* plugins/plugin_utils.py the failure policy and the package cache.       *)
(*                                                                         *)
(* The kind "storage" is a plugin that uses StorageCommandGenerator as     *)
(* lines 42-56 of teamwise_storage/init.py do.  Those lines are kept for   *)
(* such plugins and are not reached: teamwise_storage itself returns.      *)
(***************************************************************************)
EXTENDS StorageMounts

CONSTANTS
    Jobs,      \* sequences of plugin configs: kind, policy, asks, names, dir
    Sites,     \* what a task may find: cache, extension, gang, first, alone, port
    Packages,  \* packages of a group (package_cache_info)
    MaxTries,  \* tries of git clone
    Given      \* directories with files that are there before the plugins

ASSUME ScriptsAssumption ==
    /\ MaxTries \in Nat \ {0}
    /\ {"openssh-client", "openssh-server"} \subseteq Packages["ssh"]
    /\ \A t \in {"nfs", "samba", "azurefile"} : Tools[t] \subseteq Packages[t]
    /\ \A j \in Jobs : j \in Seq([kind : {"ssh", "git", "cmd", "tensorboard", "storage",
                                          "teamwise_storage"},
                                  policy : {"fail", "ignore", "Ignore"}, asks : SUBSET STRING,
                                  names : Seq(STRING), dir : Seq(STRING)])

VARIABLES
    job,      \* the plugins of the task role, in order
    site,     \* cache: none (no cache in the image), absent (nothing for this OS),
              \* cached32 or cached; extension: what userExtensionSecrets.yaml
              \* has, or "none"; gang: GANG_ALLOCATION; first: first task of all;
              \* alone: the only one; port: PAI_CONTAINER_SSH_PORT is not empty
    phase,    \* init, pre, job, post, end; refused: the init container failed;
              \* failed: a script failed, and the task with it
    cur,      \* the plugin at hand
    tries,    \* tries of git clone so far
    script,   \* per kind: the commands of each plugin's script
    line,     \* next line of the current script
    errexit,  \* is errexit set in it
    status,   \* status of its last command
    box,      \* the task container: packages, sshd, directories
    bad,      \* plugins that had a command that failed
    quit      \* a user's command has called exit with a failure

runVars == <<line, errexit, status>>
vars == <<job, site, phase, cur, tries, script, runVars, box, bad, quit>>

Lenient(c) == c.policy \in {"ignore", "Ignore"}

Init ==
    /\ job \in Jobs /\ site \in Sites
    /\ phase = "init" /\ cur = 1 /\ tries = 0
    /\ script = [k \in {"pre", "post"} |-> [i \in DOMAIN job |-> <<>>]]
    /\ line = 1 /\ errexit = FALSE /\ status = "ok"
    /\ box = [have |-> {}, sshd |-> FALSE, key |-> FALSE, code |-> FALSE,
              dirs |-> {Root} \cup {<<s, <<>>>> : s \in DOMAIN Type} \cup Given,
              data |-> Given, table |-> <<>>]
    /\ bad = {} /\ quit = FALSE

-----------------------------------------------------------------------------
(* The init container: what each plugin writes                              *)

Set(on) == [op |-> "set", on |-> on]

\* Mutant of InjectCommands: errexit is not put back.
InjectCommandsOpen(c, commands) ==
    IF commands = <<>> THEN <<>>
    ELSE IF Lenient(c) THEN <<Set(FALSE)>> \o commands ELSE <<Set(TRUE)>> \o commands

\* PluginHelper.inject_commands: failurePolicy in lower case decides.
InjectCommands(c, commands) ==
    IF commands = <<>> THEN <<>>
    ELSE IF Lenient(c) THEN <<Set(FALSE)>> \o commands \o <<Set(TRUE)>>
                       ELSE <<Set(TRUE)>> \o commands

\* ssh/init.py: jobssh is for jobs whose containers all run together, and users'
\* keys are those of the user extension and that of the job.  A type that is
\* empty is lost on the command line of sshd.sh, which then has one argument too
\* few.
KeyPair(c) == c.kind = "ssh" /\ "jobSSH" \in site.extension
JobSsh(c) == site.gang /\ "jobssh" \in c.asks
UserSsh(c) ==
    /\ {"userssh", "type"} \subseteq c.asks
    /\ "value" \in c.asks \/ "sshKeys" \in site.extension

SshCommands(c) ==
    (IF JobSsh(c) \/ UserSsh(c)
     THEN <<Install("ssh"), [op |-> "sshd", jobssh |-> JobSsh(c),
                              called |-> ~ (UserSsh(c) /\ "empty type" \in c.asks)]>> ELSE <<>>)
    \o (IF JobSsh(c) /\ "sshbarrier" \in c.asks THEN <<[op |-> "barrier"]>> ELSE <<>>)

\* git/init.py, lines 56-62
GitCommands(c) ==
    IF "clone_dir" \in c.asks
    THEN <<[op |-> "check empty", at |-> c.dir], Mkdir(c.dir), [op |-> "mv", at |-> c.dir]>>
    ELSE <<>>

TensorboardCommands(c) ==
    IF site.first /\ c.asks # {} THEN <<Plain, Plain>> ELSE <<>>

\* cmd/init.py: callbacks, or preCommands and postCommands.
User == [op |-> "user"]
CmdCommands(c, key, event) ==
    IF (IF "callbacks" \in c.asks THEN event ELSE key) \in c.asks THEN <<User, User>> ELSE <<>>

PreCommands(c) ==
    CASE c.kind = "ssh" -> SshCommands(c)
      [] c.kind = "git" -> GitCommands(c)
      [] c.kind = "tensorboard" -> TensorboardCommands(c)
      [] c.kind = "cmd" -> CmdCommands(c, "preCommands", "taskStarts")
      [] c.kind = "storage" -> StorageCommands(c.names)
      [] c.kind = "teamwise_storage" -> <<>>
PostCommands(c) ==
    IF c.kind = "cmd" THEN CmdCommands(c, "postCommands", "taskSucceeds") ELSE <<>>

\* When init.py ends with an exception or a status other than 0, but for git
\* clone: ssh looks for jobSSH in the user extension even if there is none,
\* tensorboard needs a port and a logdir that is not empty, and storage asks the
\* API server for its secrets, which may not answer.
SshRaises == "none" \in site.extension
GitRaises(c) == "repo_uri" \notin c.asks
TensorboardRaises(c) == site.first /\ c.asks # {} /\ ~ ({"logdir", "port"} \subseteq c.asks)
CmdRaises(c) == "callbacks" \in c.asks /\ c.asks \cap {"preCommands", "postCommands"} # {}
Raises(c) ==
    CASE c.kind = "ssh" -> {SshRaises}
      [] c.kind = "git" -> {GitRaises(c)}
      [] c.kind = "tensorboard" -> {TensorboardRaises(c)}
      [] c.kind = "cmd" -> {CmdRaises(c)}
      [] c.kind = "storage" -> {StorageRaises(c.names), TRUE}
      [] c.kind = "teamwise_storage" -> {FALSE}

Preparing == phase = "init" /\ cur \in DOMAIN job

\* initializer.py, lines 54-61 and 180-184
Write(c) ==
    /\ script' = [pre  |-> [script["pre"] EXCEPT ![cur] = InjectCommands(c, PreCommands(c))],
                  post |-> [script["post"] EXCEPT ![cur] = InjectCommands(c, PostCommands(c))]]
    /\ cur' = cur + 1 /\ tries' = 0
    /\ UNCHANGED <<job, site, phase, runVars, bad, quit>>
Refuse(c) ==
    /\ IF c.policy = "ignore" THEN cur' = cur + 1 /\ UNCHANGED phase
                              ELSE phase' = "refused" /\ UNCHANGED cur
    /\ tries' = 0
    /\ UNCHANGED <<job, site, script, runVars, bad, quit>>

Prepare ==
    /\ Preparing
    /\ LET c == job[cur] IN
        /\ \E raises \in Raises(c) :
              \/ raises /\ Refuse(c)
              \/ ~raises /\ c.kind # "git" /\ Write(c)
        /\ box' = [box EXCEPT !.key = @ \/ KeyPair(c)]

\* git clone into /usr/local/pai/code, with retries; never if a plugin before
\* has cloned there.
Cloning == Preparing /\ job[cur].kind = "git" /\ "repo_uri" \in job[cur].asks
Clone ==
    /\ Cloning /\ ~box.code
    /\ box' = [box EXCEPT !.code = TRUE]
    /\ Write(job[cur])

\* Mutant of CloneFails: the last try is not counted.
CloneFailsOnce ==
    /\ Cloning
    /\ IF tries < MaxTries
       THEN /\ tries' = tries + 1
            /\ UNCHANGED <<job, site, phase, cur, script, runVars, bad, quit>>
       ELSE Refuse(job[cur])
    /\ UNCHANGED box

CloneFails ==
    /\ Cloning
    /\ IF tries + 1 < MaxTries
       THEN /\ tries' = tries + 1
            /\ UNCHANGED <<job, site, phase, cur, script, runVars, bad, quit>>
       ELSE Refuse(job[cur])
    /\ UNCHANGED box
-----------------------------------------------------------------------------
(* The package cache: plugin_utils.py 66-83 and runtime.d/install_group.sh.  *)
(* An outcome is whether the exit status is 0, and the packages then.       *)

\* dpkg -V of all packages of the group; it may complain of a changed file.
Verify(g, have) == IF Packages[g] \subseteq have THEN BOOLEAN ELSE {FALSE}

\* apt-get update and apt-get install, the last of which fails as a whole but
\* may leave some packages installed.
AptGet(ps, have) == {<<TRUE, have \cup ps>>} \cup {<<FALSE, have \cup s>> : s \in SUBSET ps}

\* dpkg -i of each file, and apt-get install -f: nobody looks at their status.
DpkgAll(g, have) == {have \cup s : s \in SUBSET Packages[g]}

\* Mutant of InstallGroup: what dpkg -i did is not verified.
InstallGroupUnverified(g, have) ==
    IF site.cache = "absent" THEN {<<FALSE, have>>}
    ELSE {<<TRUE, h>> : h \in DpkgAll(g, have)}

InstallGroup(g, have) ==
    IF site.cache = "absent" THEN {<<FALSE, have>>}
    ELSE {<<TRUE, have>> : v \in Verify(g, have) \cap {TRUE}}
         \cup (IF site.cache = "cached32" THEN AptGet(Packages[g], have)
               ELSE UNION {{<<TRUE, h>> : v \in Verify(g, h) \cap {TRUE}}
                           \cup AptGet(Packages[g], h) : h \in DpkgAll(g, have)})

\* The cached group if the image of the init container has a cache, and the
\* fallback commands if that fails.
TryToInstallByCache(g, have) ==
    IF site.cache = "none" THEN AptGet(Packages[g], have)
    ELSE {r \in InstallGroup(g, have) : r[1]}
         \cup UNION {AptGet(Packages[g], r[2]) : r \in {q \in InstallGroup(g, have) : ~q[1]}}

-----------------------------------------------------------------------------
(* The commands                                                             *)

Installed(how, ok) == {[box EXCEPT !.have = r[2]] : r \in {q \in how : q[1] = ok}}

\* sshd.sh ends well without having started sshd if there is none, if the port
\* is empty, and if it is called with one argument too few (lines 106-136).
Starts(c) == c.op = "sshd" /\ c.called /\ site.port
StartSshd(c) ==
    {IF "openssh-server" \in box.have /\ Starts(c) THEN [box EXCEPT !.sshd = TRUE] ELSE box}

\* The barrier has nobody to wait for in a job of one task; otherwise it needs
\* the key of the job and ssh (see SshBarrier).
PassBarrier ==
    IF site.alone \/ (box.key /\ "openssh-client" \in box.have) THEN {box} ELSE {}

CheckCloneDir(p) ==
    IF Resolve(box.table, p) \in box.dirs /\ NotEmpty(box, Resolve(box.table, p)) THEN {} ELSE {box}
MoveCode(p) ==
    IF box.code /\ Resolve(box.table, p) \in box.dirs
    THEN {[box EXCEPT !.code = FALSE, !.data = @ \ {Resolve(box.table, p)}]} ELSE {}

\* The containers that a command may leave if it succeeds, and if it fails.
Succeeds(c) ==
    CASE c.op \in {"plain", "exit unless", "user"} -> {box}
      [] c.op = "install" -> Installed(TryToInstallByCache(c.group, box.have), TRUE)
      [] c.op = "apt" -> Installed(AptGet(c.packages, box.have), TRUE)
      [] c.op = "mkdir" -> MkdirIn(box, c.at)
      [] c.op = "mount" -> MountIn(box, c.server, c.path, c.at)
      [] c.op = "umount" -> UmountIn(box, c.at)
      [] c.op = "rm" -> IF RmSucceeds(box, c.at) THEN {RmIn(box, c.at)} ELSE {}
      [] c.op = "link" -> LinkIn(box, c.to, c.at)
      [] c.op = "check empty" -> CheckCloneDir(c.at)
      [] c.op = "mv" -> MoveCode(c.at)
      [] c.op = "sshd" -> StartSshd(c)
      [] c.op = "barrier" -> PassBarrier
Fails(c) ==
    CASE c.op = "install" -> Installed(TryToInstallByCache(c.group, box.have), FALSE)
      [] c.op = "apt" -> Installed(AptGet(c.packages, box.have), FALSE)
      [] c.op = "rm" -> {box, RmIn(box, c.at)}
      [] c.op \notin {"install", "apt", "rm"} -> {box}

-----------------------------------------------------------------------------
(* The task container: precommands.sh and postcommands.sh call the scripts   *)
(* one by one under errexit, each in a shell of its own.                     *)

Current == script[phase][cur]
Running == phase \in {"pre", "post"} /\ cur \in DOMAIN job /\ line <= Len(Current)

NewShell == line' = 1 /\ errexit' = FALSE /\ status' = "ok"

\* All plugins have written: the task container starts.
StartScripts ==
    /\ phase = "init" /\ cur > Len(job)
    /\ phase' = "pre" /\ cur' = 1
    /\ NewShell
    /\ UNCHANGED <<job, site, tries, script, box, bad, quit>>

SetOption ==
    /\ Running /\ Current[line].op = "set"
    /\ errexit' = Current[line].on /\ status' = "ok" /\ line' = line + 1
    /\ UNCHANGED <<job, site, phase, cur, tries, script, box, bad, quit>>

Succeed ==
    /\ Running /\ Current[line].op # "set"
    /\ box' \in Succeeds(Current[line])
    /\ status' = "ok" /\ line' = line + 1
    /\ UNCHANGED <<job, site, phase, cur, tries, script, errexit, bad, quit>>

Fail ==
    /\ Running /\ Current[line].op # "set"
    /\ box' \in Fails(Current[line])
    /\ bad' = bad \cup {cur}
    /\ IF errexit THEN phase' = "failed" /\ UNCHANGED <<line, status>>
                  ELSE line' = line + 1 /\ status' = "fail" /\ UNCHANGED phase
    /\ UNCHANGED <<job, site, cur, tries, script, errexit, quit>>

\* The user's commands may call exit, and so does the check of the release for
\* azureblob, whatever the failure policy.
Exit ==
    /\ Running /\ Current[line].op \in {"user", "exit unless"}
    /\ phase' = "failed" /\ quit' = TRUE
    /\ UNCHANGED <<job, site, cur, tries, script, runVars, box, bad>>
ExitWell ==
    /\ Running /\ Current[line].op = "user"
    /\ line' = Len(Current) + 1 /\ status' = "ok"
    /\ UNCHANGED <<job, site, phase, cur, tries, script, errexit, box, bad, quit>>

\* A script ends with the status of its last command.
EndScript ==
    /\ phase \in {"pre", "post"} /\ cur \in DOMAIN job /\ line > Len(Current)
    /\ IF status = "fail" THEN phase' = "failed" /\ UNCHANGED <<cur, runVars>>
       ELSE /\ cur' = IF phase = "pre" THEN cur + 1 ELSE cur - 1
            /\ NewShell
            /\ UNCHANGED phase
    /\ UNCHANGED <<job, site, tries, script, box, bad, quit>>

RunJob ==
    /\ phase = "pre" /\ cur \notin DOMAIN job
    /\ phase' = "job"
    /\ UNCHANGED <<job, site, cur, tries, script, runVars, box, bad, quit>>

\* The postcommands run if the job succeeds.
EndJob ==
    /\ phase = "job"
    /\ phase' \in {"post", "end"} /\ cur' = Len(job)
    /\ NewShell
    /\ UNCHANGED <<job, site, tries, script, box, bad, quit>>

End ==
    /\ phase = "post" /\ cur \notin DOMAIN job
    /\ phase' = "end"
    /\ UNCHANGED <<job, site, cur, tries, script, runVars, box, bad, quit>>

Next ==
    \/ Prepare \/ Clone \/ CloneFails \/ StartScripts
    \/ SetOption \/ Succeed \/ Fail \/ Exit \/ ExitWell \/ EndScript
    \/ RunJob \/ EndJob \/ End

Spec == Init /\ [][Next]_vars

-----------------------------------------------------------------------------
(* Properties                                                               *)

Strict(i) == ~Lenient(job[i])

\* Every variable has its type, and git clone is not tried more than MaxTries
\* times (git/init.py 35-38).
TypeOK ==
    /\ job \in Jobs /\ site \in Sites
    /\ phase \in {"init", "pre", "job", "post", "end", "refused", "failed"}
    /\ cur \in 0..(Len(job) + 1) /\ tries \in 0..(MaxTries - 1)
    /\ \A k \in {"pre", "post"} : DOMAIN script[k] = DOMAIN job
    /\ line \in Nat \ {0} /\ errexit \in BOOLEAN /\ status \in {"ok", "fail"}
    /\ bad \subseteq DOMAIN job /\ quit \in BOOLEAN

\* The failure policy is kept (initializer.py 54-61, plugin_utils.py 36-46):
\* the init of a plugin stops the task unless the policy is "ignore", a command
\* of a plugin whose failures count stops it at once, and one whose failures are
\* ignored never does, short of calling exit.
PolicyKept ==
    /\ phase = "refused" => job[cur].policy # "ignore"
    /\ phase = "failed" => quit \/ Strict(cur)
    /\ \A i \in bad : Strict(i) => phase = "failed" /\ cur = i

\* What a command needs has been installed when it runs, if a failure would have
\* counted (package_cache.md, "If it returns 0, all the packages are installed
\* successfully"), and the barrier comes after an sshd.sh that did start sshd,
\* unless its port was empty or it was called with too few arguments: sshd.sh says
\* so in its log only, and the barriers of all others would find out after hours.
Needs(c) ==
    CASE c.op = "mount" -> Tools[Type[c.server]]
      [] c.op = "sshd" -> {"openssh-server"}
      [] c.op = "barrier" -> {"openssh-client"}
      [] c.op \notin {"mount", "sshd", "barrier"} -> {}
UsesInstalled ==
    Running /\ Strict(cur) =>
        /\ Needs(Current[line]) \subseteq box.have
        /\ Current[line].op = "barrier" =>
              \E k \in 1..(line - 1) :
                  Current[k].op = "sshd" /\ (Starts(Current[k]) => box.sshd)

\* The mount infos of the storage plugins up to the i-th that have a script.
Asked(i) == FlattenSeq([k \in 1..i |-> IF job[k].kind = "storage" /\ script["pre"][k] # <<>>
                                       THEN Infos(Names(job[k].names)) ELSE <<>>])

\* What is removed on the way to a mount: the root of a share, the mount point of a blob.
Removed(m) == IF IsBlob(m.server) THEN Norm[m.mountPoint] ELSE Tmp(m.server)

\* Mount points lie apart from each other and from where the roots of servers are
\* mounted, and what is removed from files that are there.
Apart(p, q) == ~IsPrefix(p, q) /\ ~IsPrefix(q, p)
WellPlaced(infos) ==
    \A i \in DOMAIN infos : LET p == Norm[infos[i].mountPoint] IN
        /\ \A j \in DOMAIN infos \ {i} : Apart(p, Norm[infos[j].mountPoint])
        /\ \A s \in DOMAIN Type : Apart(p, Tmp(s))
        /\ \A l \in Given : ~Under(l, <<"local", Removed(infos[i])>>)

\* No plugin destroys files of the user, on a server or in the image, unless
\* failures of it were ignored: rm -r meets no mounted server and git no directory
\* with files (storage_helper.py 127-131, check_clone_dir.sh), if mount points are
\* well placed.
FilesAreKept ==
    (\A i \in bad : Strict(i)) /\ WellPlaced(Asked(Len(job))) => box.data = Given

\* When the script of a storage plugin has ended and nothing failed, every directory asked for
\* is at its mount point, and nothing else of a server is in sight, but for the
\* root of a blob container, which stays (storage_command_generator.py 44-98).
Visible == {m.to : m \in {n \in ToSet(box.table) : n.link \/ ~IsBlob(n.to[1])}}
MountedAsAsked ==
    phase = "pre" /\ cur \in DOMAIN job /\ Current # <<>> /\ line > Len(Current)
    /\ bad = {} /\ job[cur].kind = "storage" /\ WellPlaced(Asked(cur)) =>
        LET target(m) == <<m.server, Render(m.path)>>
        IN /\ \A m \in ToSet(Asked(cur)) : Resolve(box.table, Norm[m.mountPoint]) = target(m)
           /\ Visible = {target(m) : m \in ToSet(Asked(cur))}
=============================================================================
