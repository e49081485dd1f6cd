# A TLA+ model of the OpenPAI runtime

OpenPAI runs every task of a job in a Kubernetes pod. This repository is what
the pod adds around the user's command: an *init container* that prepares the
pod, an *entry point* that runs the command in the task container and reports
how it ended, and *plugins* that add commands of their own. These modules model
that code, TLC checks them on small instances, and TLAPS proves the main
properties for every value of the constants.

Paths are those of the repository (`src/init`, `go/pkg/...`); the comments in
the modules put `src/` in front of them, as `PROJECT.json` does.

## 1. The system

| component | state | operations | interacts with |
|---|---|---|---|
| **init container** `src/init`, `src/init.d/user_command_renderer.py` | work directory, log directory (both on volumes that outlive it), the stage it is at | chmod; move old logs; clean; install; barrier or retriever; error spec; env; config; plugins; ports; image; user command; exit code map | runs the programs below; the kubelet may run it again |
| **plugin initializer** `src/init.d/initializer.py`, `src/plugins/plugin_utils.py` | lists of pre and post commands, one pre and one post script per plugin | collect, run each plugin's init under its failure policy, include its scripts, write precommands.sh and postcommands.sh | writes files that the entry point runs |
| **runtime entry** `src/runtime`, `src/runtime.d/runtime_entry.sh` and the scripts beside it | phase of the script, child processes, FIFOs, log files, termination message | source env; mkdir; precommands; user command; wait; postcommands; EXIT trap | pipes to tee and multilog; runs exithandler |
| **log pipeline** (same script, 134-151) | lines in each pipe, two files of user-all | tee, tee -a FIFO, three multilogs | job and its daemons write, exit handler reads |
| **exit handler** `go/cmd/exithandler`, `go/pkg/aggregator` | specs of known failures, tails of two logs, GPU state, the report | search a spec; extract the log around the match; truncate and write the report | called by the trap; its status is the container's |
| **ssh plugin** `src/plugins/ssh` | per container: sshd, instances to check, retries | sshd.sh; barrier rounds; give up | containers of a job through ssh |
| **image checker** `src/init.d/image_checker.py` | headers, token, authorization type | ping, login, token, manifest | registry and token server |
| **framework parser, port checker** `framework_parser.py`, `port.py` | none / ports seen | export addresses and ports of all tasks; connect to each port | other tasks of the node, the framework's snapshot |
| **package cache** `install_group.sh`, `plugin_utils.py` 66-83 | packages installed | verify, install from cache, else apt-get | dpkg, apt; commands of plugins |
| **plugins cmd, git, tensorboard, ssh** `plugins/*/init.py` | files under `/usr/local/pai/code` | check parameters, clone with retries, write commands | plugin initializer; their commands run in the task container |
| **storage commands** `plugins/teamwise_storage` | none / mounts and directories of the task container | collect mount infos by server; mount roots, make directories, mount or link each | API server's secrets; the commands run in the task container. The plugin itself is deprecated and returns |
| helpers, logger, deployment, build | none | | |

What is hard about it: the entry point is a shell script under `errexit` with
eight and more processes around two FIFOs, not all of them waited for; the
init container appends to files on volumes that survive it, and may be executed
again at any point; the exit handler does index arithmetic on logs that anybody
may have written, and a panic of it costs the report; the containers of a job
wait for each other without a coordinator; the image checker must not fail a job
for what a registry answers on a bad day; plugins are shell scripts that install
packages, mount servers and remove directories in one container, one after the
other, some with failures ignored. `PROJECT.json` lists these as hazards,
each at its line with the properties that cover it.

## 2. The modules

| module | models | proofs |
|---|---|---|
| `LogPipeline` | tee, FIFO and multilog around the user's command | in `RuntimeEntry_proofs` |
| `TaskLifecycle` | abstract: what the task container promises | |
| `RuntimeEntry` (extends `LogPipeline`) | runtime_entry.sh, implements `TaskLifecycle` | `RuntimeEntry_proofs` |
| `PluginInit` | the plugin loop | `InitContainer_proofs` (lemmas) |
| `InitContainer` (extends `PluginInit`) | init, the kubelet executing it again | `InitContainer_proofs` |
| `SpecMatch` | exit handler: which spec decides | `ErrorAggregator_proofs` |
| `MatchLog` | exit handler: which lines are shown | `MatchLog_proofs` |
| `ExitSummary` | exit handler: what is cut from the report | `ErrorAggregator_proofs` |
| `SshBarrier` | the barrier of all containers of a job | `SshBarrier_proofs` |
| `ImageChecker` | the image check | `InitChecks_proofs` |
| `Ports` | ports of the tasks of a role on one node: allotted, exported for peers, checked, bound | `InitChecks_proofs` |
| `StorageMounts` | the commands that mount storage, and what they do to the directories | in `PluginScripts_proofs` |
| `PluginScripts` (extends `StorageMounts`) | the plugins from their parameters to the effect of their commands, the package cache | `PluginScripts_proofs` |
| `SequenceFacts` | nothing of the code: induction over sequences and what a fold computes, for the proofs | in itself |

Each `MC_*` module is the instance TLC runs, with the `.cfg` files named after
it. Operators said to be "a mutant of" another are plausible bugs of the code:
the definition they belong to is replaced by them to see that a property fails.

### LogPipeline

A pipe is first-in first-out, so a stream is a row of counters: lines written by
the job, passed on by the first tee, kept in the stream's own log, sent to the
FIFO by the second tee, logged in user-all. What matters of a process is whether
it has opened, holds or has closed its end. A FIFO differs from a pipe: opening
waits for the other end, and EOF is seen when no writer has it open *now*. The
job may leave a daemon behind that inherits its streams. One line of the output
may be evidence of a known failure; `evAt` is its place in user-all, which is two
files (`curStart`, `oldStart`) as multilog rotates them: a file that is full at the
end of a line becomes the old one, and the one before it is deleted, in one step.

### RuntimeEntry

`mpc` follows the script. errexit is the rule that a failing child makes the
script go to `trap`, with `rc` as `$?`; every end of the script passes the trap.
The handler's reading of user-all is split at its real steps (look at the size,
tail of the rotated file, copy of the current one, run exithandler), with the
loggers still running between them. A rotation in between deletes the file that was
found: `test -f` may fail then, or `tail`, which under errexit ends the handler with
1, as does any other failure of lines 77-79. `seen` and `rot` remember what there was at the look, and
`raced` that there was a rotation since. exithandler reads the last `MaxSearch` of each log (10 MB,
error_aggregator.go:149-154); it is one step with all its outcomes: code of a user match, of a
platform match, the default, or a panic (`main.go` 44-49). What Kubernetes makes of the
termination message is not modelled.
Order of specs in the file is not modelled here: if both match, either may be
first. The precommands' stderr never reaches the FIFO (`2>&1 > PIPE`, line 127);
their lines in the model are those of stdout.

### PluginInit and InitContainer

`InitContainer` has one action per stage. A stage fails with one of the statuses
its program can have, among them that of a killed child, and `ExitCode` is the
code map. The files that matter are sets or sequences of *executions*: which
execution's copy of a directory is installed, which executions appended to a
script. `Rerun` stops an execution anywhere and starts the next one; an
execution that failed is not started again (the pod is not restarted by the
kubelet). Failures of `find`, `mkdir` and `mv` while old logs are moved are left
out. With no log at all the test `[ -f ]` in the script has no operand and
holds.

### SpecMatch, MatchLog, ExitSummary

The three parts of the Go program. `SpecMatch` takes an arbitrary file of specs,
where a pattern is what it says about exit code, the two logs and the GPU (not
given, given and true, given and false), and walks it as the code does, the
leaking locations of line 329 included. `MatchLog` takes a log of characters (two
kinds of letters, carriage return, line feed) and a location, and computes the
lines shown; Go's index panics are a result. `ExitSummary` takes the sizes of the
four pieces of the report and cuts them as `truncateExitSummary` does. Cuts are in
bytes of the text (lines 422, 491, 503), and what counts is what yaml.v2 makes of the
rest: as little as the text itself, and up to `Factor` per byte and `Key` on top, since
a cut may change the style of the whole piece (plain, block, quotes with escapes, base64 if a
rune was split). Nothing more is assumed of it, so that a cut may even make a piece
longer; `grown` remembers the pieces of which a cut freed less than it took of the text. `Tags` is
what the limit sets aside (line 557), `LineFeeds` what it forgets (line 200). The `errorLogs`
map is counted in `Base`.

### SshBarrier

One barrier per container and an sshd that may or may not run. A round tries the
instances in any order, as the results of a round do not depend on it. `ssh` may
fail although sshd is up. Containers may end at any time and are not restarted.
Failures of the plugin may be ignored in the containers of some task roles and
not in others (`Ignores`). An ssh attempt ends: the script sets no `ConnectTimeout`, so its length is not
bounded by the plugin, and there is no clock beyond the rounds.

### ImageChecker

A job is a combination of what the image, registry and credentials are like; each
request gets the answer such a registry gives, or an odd one (5xx, 429, nothing).
`resp.ok` of a `head` request is any status below 400 and redirects are not followed,
so a registry that redirects (`moved`) is taken at its word (`Ok`). Two proper answers
cannot be read: a challenge with a comma within a value (line 75, IndexError), and a
token that comes under the name `token` only (line 170, KeyError). Both make the check be ignored.
Exceptions of class `ImageCheckError` fail the job, all others are caught in
`main`. A 404 to the unauthenticated first request makes the check be ignored
(198-201): only registries that ask for authorization get a verdict on a missing
image, which is why `Decided` is about those.

### Ports

`Create` is the framework controller's: a pod for a task, or a new one for a
retry, whose UID is hashed into numbers that may be anything in the range;
`Record` is when the status of the framework gets that UID, and until then there is none:
`None` is hashed like any other text (`Nobody`). `GetFramework` is the step of init
that fetches the status (131-150; a gang waits for all UIDs), and `GenerateEnv` a later one
that exports the ports of *every* task from that snapshot as
`framework_parser.py` does, or from the index of the task; pods may end and be
created again between the two. `fresh` remembers whose present pod is in a
snapshot. `port.py` then looks at the task's own ports
one by one, in any order (the code's order is that of the keys of a JSON object),
with other tasks binding and releasing theirs in between. A task container that
starts may find a port taken all the same ("clash"): the check holds nothing.
`held` remembers what another task has listened on without a break since the
check began, which is what a check can be expected to see. Listening sockets are
those of the role's own tasks; a socket that does not answer on localhost is
left out. Addresses are copied from the same snapshot as ports and go the same way.

### StorageMounts

A path is the sequence of the names on it, so that nesting is a prefix. A
container has directories (each of the local file system or of a server), those
that hold files of the user from before, and a table of mounts and symbolic
links in the order they were made; looking a path up (`Follow`, `Resolve`, `Entry`)
needs the table only and follows it name by name. `mkdir`, `mount`, `umount`, `rm -r` and `ln -s` have the effects on it
that the scripts rely on: a mount hides what is below it, `rm -r` goes down into
what is mounted below and does not remove a mount point, a link to a directory
is made *in* a directory that is already there. The other half of the module
is the generator: the mount infos asked for are grouped by server, in the order
servers are first met; per server the root is mounted, the directories are made,
the root is unmounted and removed (nfs, samba, azurefile) or stays with links into
it (azureblob), and then each mount point gets its directory. Consecutive
commands that matter only by their success are one `Plain`.

### PluginScripts

One job, a list of plugins, and one site: whether the image has a package cache,
what the user extension holds, whether the tasks run all together, whether there are
others, whether the container has an ssh port. `Prepare`,
`Clone` and `CloneFails` are the init container: whether `init.py` of the plugin
at hand raises, which commands it writes, and the options that
`inject_commands` puts around them. Then the task container calls the scripts:
`line`, `errexit` and `status` are the state of the shell, every command may
succeed or fail with the effects each outcome can have on the container (`box`), and user
commands may call `exit`. `TryToInstallByCache` has all the outcomes of
`install_group.sh`: what `dpkg -i` left is not looked at, `dpkg -V` may complain of a
good package, `apt-get` may leave a part. `sshd.sh` may end with 0 and no sshd: without the
package, without a port, or called with too few arguments, which is what an empty type of user
keys comes to (`Starts`). The barrier of a job of one instance passes with nothing to
check. The job is one step.
`PluginInit` and this module look at the same loop from two sides: there the
plugins have no content and the loop is interrupted and run again; here it runs once.

The kind `storage` is a plugin that calls `StorageCommandGenerator` as
`teamwise_storage/init.py` does in lines 42-56, which that plugin does not reach
(lines 38-39 return) and keeps for plugins to come. `FilesAreKept` and `MountedAsAsked` are
about mount points that are *well placed*: none is inside another, above or below
where the root of a server is mounted meanwhile, and what the scripts remove on the way
to a mount (`Removed`: the mount point of a blob, the temporary root of a share) has no
files of the user in it. Without it they do not hold, see below.

## 3. What is checked

Passing runs (TLC; `entry_safety` takes about two and a half minutes, the others less than two):

| run | instance | shows |
|---|---|---|
| `entry_safety` | the whole entry point: 4 lines on stdout, 1 on stderr, pipes of 1 line, rotation at 2 and so twice, `MinLog` 2, `MaxSearch` 3, daemons, failures, panics | output is lost only by a late relay; the tail survives rotation; postcommands see all output; evidence in the tail is recognised, or lost only to a rotation meanwhile; `RuntimeEntry` implements `TaskLifecycle` |
| `liveness` | 2 lines on stdout, 1 of the precommands, rotation at 2 | the container ends after its job; a daemon of the precommands blocks nothing |
| `init_container` | 2 plugins with any policies, 3 executions, 3 directory names, with and without barrier | the work directory is that of one execution; teardown mirrors setup; no log is lost |
| `spec_match` | up to 2 specs and 3 patterns | first match decides; a reported match is the spec's own |
| `match_log` | logs of up to 9 characters, all locations, 5 lines shown | the match is shown; the report is contiguous; when an index can be out of range |
| `exit_summary` | pieces of up to 3 bytes, each taking up to 2 bytes in YAML and 1 on top, limit 6 of which tags take 1 | it fits but for line feeds and the growth of a match; order of loss; the match is kept longest |
| `ssh_barrier` | 3 containers, one with failures ignored, 1 retry | nobody goes first; all rounds are made; every barrier ends |
| `image_checker` | all jobs and registries of the model, odd answers anywhere | fails only if sure; found is there unless redirected; proper answers decide but for two that are misread |
| `ports` | 2 tasks with 2 ports each, 3 numbers to hash into, or numbered by index; any number of retries; with and without a gang | distinct ports; sequential tasks never meet; a port held through the check is refused; exported ports agree if the snapshot had the present pods |
| `plugin_scripts` | 42 lists of 1 to 3 plugins over all kinds, policies and parameters, 11 sites, 2 tries of git clone, three servers | the policy of each plugin is kept; nothing is used before it is installed; no files of the user are removed; what is asked for is mounted, and nothing else |

Why the bounds are enough. Pipes of one line make every process block on the
next. Five lines with a rotation after two make multilog delete a file, and both
files of user-all hold part of the tail, with the current one shorter than `MinLog` or
not; `MaxSearch` is less than what the merged log can have. Three
executions of the init container allow an interruption of an execution that
itself found remains of an interrupted one. Two specs with three patterns have a
pattern before and after the matching one in the same spec and in another. Logs
of nine characters have more lines than `MaxLines`, more characters than
`MaxSize` on one side, and joins on both sides of the match; those with two kinds
of letters and carriage returns are bounded at five. Sizes up to the limit in
each piece reach every cut and every boundary of the rest (negative, zero,
exactly the piece), and a cut that frees nothing. Three containers are the least where one has passed and two
still disagree; with a round and one retry the first round, a retry and the last
round all occur. Two ports each out of three numbers repeat within a task and between two tasks,
and sequential ones lie elsewhere; a second task is enough for every
property of `Ports`, as each is about one task and one other, and the theorems
have no such bound. The lists of plugins have, for each kind, a policy that
counts and one that does not, each way its `init.py` can raise, and a plugin
before or behind it to be harmed: two mount points on one server, a link in
front of a mount, a clone into a mounted directory and into one with files, a second clone, an
unknown name, a name twice, a mount point below another. The outcomes of each
command are all there, so that a list of three goes through every mixture of
failures.

Deadlock is checked for `Ports` only: all other systems stop when they are done.
Symmetry is used for the names of `prelog_*` directories only.

### Fairness

`RuntimeEntry` (with the processes of `LogPipeline`): weak fairness for each process of the script
and for its main line, because the kernel schedules what can run; none for the
user's job, the precommands or their daemons, which may run for ever.
Postcommands are taken to end. `SshBarrier`: weak fairness for each barrier, a
loop of bounded sleeps and attempts that end; nothing about when containers
start or end. The other modules state safety only: `Ports` waits for tasks that may
run for ever, and the rest are programs that take one step after the other.

### Where the code does not do what it says

Two runs check a statement of a comment and end with a counterexample.

| run | statement | what happens |
|---|---|---|
| `summary_is_written` | main.go:42, a summary is written | dropping the platform match makes the rest negative, and slicing the user match panics |
| `only_if_sure` | image_checker.py:88-89, only certainty fails a job | digests, upper-case tags, an absent registryuri and unknown challenges fail the job |

Read off the code while modelling it, visible in the models, and not given runs
of their own:

* A daemon of a successful job that holds its stdout keeps the container running
  for ever (`wait ${LOGGER_PID}`, runtime_entry.sh:151, against lines 26-27).
  `EndsAfterJob` has the exception in its hypothesis.
* "all" output does not get into user-all (runtime_entry.sh:136) when one relay
  opens the FIFO only after the other one has closed it: multilog sees the end of
  its input and leaves (146-147). `LossOnlyIfLate` says that nothing else is lost.
* After a job that failed no logger is waited for (errexit at runtime_entry.sh:150), and
  `kept` may be behind `wrote` when the script ends. After one that succeeded the script waits for
  the logger of user-all (151); the multilogs of user-stdout and user-stderr then have
  their whole input, and the model, which does not wait for their last write, allows
  more than is likely.
* A rotation while the exit handler looks for the rotated log makes `tail` fail, and
  with it the handler before exithandler has run (runtime_entry.sh:74-78), or what was in
  the current log is in neither of the two files it copies. `KnownFailureRecognised` says what is
  left then.
* The directories user-stdout, user-stderr and user-all of an earlier execution
  are not moved (init:99 takes regular files; the comment in 98 says "previous
  logs"). They are left out of `InitContainer`.
* The init container reports an unknown error as 1 and not as 248 (init:73, 32),
  and an image checker that was killed as 254 (init:62, 66): see `ExitCode`.
* The locations of matches leak from one pattern to the next
  (error_aggregator.go:329): the platform match of a pattern whose user
  expression then fails is reported with a later pattern of the same spec.
  `ReportsOwnMatch` is about the spec for that reason.
* A match with a carriage return before its line feed panics
  (error_aggregator.go:278-279): `PanicNeedsLongOrCR`.
* The limit of the termination message is 4096 less the tags, and two line feeds come on top
  (error_aggregator.go:200, 557); nothing is measured after the cut of a match
  (492, 504), which may make YAML write it in base64. `SummaryFits` says how far it
  goes. The tests take the tags off before they compare (aggregator_test.go:109).
* A registry that redirects is said to have the image (image_checker.py:189, 248), and a
  challenge with a comma within a value or a body with `token` only makes the check be
  ignored (75, 170): `FoundIsThere` and `Decided` name these.
* The ports exported for a peer are those of the pod in the snapshot. One that was created
  since has others, and one whose UID was not recorded has those of `None`, the task itself
  included when the job is no gang (framework_parser.py:124-150). `PeersAgree` says when they
  are right.
* sshd.sh ends with 0 and starts nothing when there is no port or an argument is missing, as
  for user keys with an empty type (sshd.sh:107-108, 130-131; ssh/init.py:112-114).
* Without a timeout the ssh barrier retries 1800 times after 10 seconds, which
  is 300 minutes and not the 30 of ssh/README.md:22: see `MAX_RETRY_COUNT`.
* The ssh plugin raises for every job without a user extension: line 69 of
  ssh/init.py looks a key up in it, and initializer.py:245 makes it `None`
  (other uses guard against that). See `SshRaises`.
* A job whose key is missing from the user extension still waits at the
  barrier, which cannot be passed, until the retries are used up: `PassBarrier`.
* The failure policy "Ignore" is lenient for the commands of a plugin
  (plugin_utils.py:40 takes lower case) and strict for its init
  (initializer.py:57). `PolicyKept` says just that.
* A user's `exit` in a cmd plugin ends the task although failures are ignored, and
  so does the check of the release for azureblob: `Exit`.
* A git plugin with failures ignored may overwrite the files of a non-empty `clone_dir`,
  as the check in front is only one of the commands (git/init.py 56-62). A second git plugin always fails,
  because both clone into the same directory.
The next four are of the storage generator, which no plugin reaches.

* When `umount` fails and failures are ignored, the `rm -r` that follows removes
  the files of the server (storage_helper.py 129-130). This is why `FilesAreKept`
  is about plugins whose failures count.
* A blob mounted below another mount point removes the directory of the
  other server that is in its place (storage_helper.py:249): `WellPlaced`.
* Mount points are compared as they are written (storage_helper.py:57): "/data" and
  "/data/" pass, and the second hides the first.
* Storage names that the secret does not have are skipped with a warning
  (storage_command_generator.py:125).
And of tensorboard:

* tensorboard.sh.template writes to a file that is called RUNTIME_LOG_PIPE: the
  `$` is missing.

## 4. What is proved

TLAPS checks these for every value of the constants under the named
assumptions in the modules (bounds are naturals, sizes positive, `MinLog` no
larger than the rotation size, exit codes of specs not multiples of 256).

* **LogPipeline** (`PipelineInvariant` in `RuntimeEntry_proofs`; used by `NoOtherLoss` and
  `TailSurvivesRotation` of `RuntimeEntry_proofs`). `PipeInv` adds to the types the order of the counters along a chain (nobody
  passes on what was not passed to it), what a closed process implies for its
  counters (it read everything, and its predecessor is closed), and that the
  logger exits only with no relay open that it had seen. Without these a closed
  logger says nothing about what was written.
* **RuntimeEntry** (`EntryTypes`, `NoOtherLoss`, `TailSurvivesRotation`, `PostFindsOutput`, `KnownFailures`,
  `KeepsContract`). `EntryInv` adds `PhaseInv`, which children may be in which
  state at each line of the script, and `HandlerInv`, how `input`, `seen` and `rot`
  relate to the files of user-all between the steps of the handler. The
  refinement maps each step of the script to a step of `TaskLifecycle` or to a
  stutter; the step that matters is the last, where `CodesAssumption` keeps a
  status from being 0 modulo 256.
* **InitContainer** (`InitTypes`, `FreshWorkspace`, `TeardownOrder`,
  `LogsAreKept`). `WorkInv` says stage by stage which files are there and that
  all are of this execution from `clean` on; `PluginInv` that the lists of
  commands are the scripts of the plugins done so far, in order and in reverse
  order; `LogInv` that a new directory for logs is empty.
* **SpecMatch** (`SearchTypes`, `FirstMatch`, `OwnMatch`). The invariant: no
  pattern tried so far holds, and a kept location was found by a pattern of the
  spec at hand.
* **ExitSummary** (`SummaryTypes`, `ReportFits`, `LossInOrder`, `MatchStays`).
  The invariant ties the rest to the size measured last and keeps, for each stage,
  which pieces are gone or in `grown`. The proof uses of YAML only that a piece takes no less than
  its text: a cut of a log that frees as much as it takes leaves no rest, so that
  later pieces are cut only if an earlier one is gone or has grown; and a match that
  frees what it takes makes the report fit.
* **MatchLog** (`MatchAlwaysShown`, `ReportsArePieces`, `PanicsAreExplained`), for
  every log over any characters, every match and all sizes. The state takes one
  step, so `LogInv` only says that the result is what the functions return; the
  work is to say what `Unix`, `Lines`, `Index`, `MergeLogs` and `Join` return for
  sequences of any length. `Lines` maps the concatenation of two texts to the two
  lists of lines glued, last line to first (`LinesOfConcat`); `MergeLogs` is such
  a gluing or a panic (`MergeIsGlue`), so what is extracted is the lines of the
  match glued between others, cut in front only (`ExtractedAround`); `Join` undoes
  `Lines`, hence the match is in the text shown. `Unix` leaves a text without
  carriage return whole (`UnixKeeps`), so `Index` finds such a match; and
  `StageSizes` has a line after a short match, so `MergeLogs` has one to join.
* **ImageChecker** (`CheckerTypes`, `FailuresAreSure`, `FoundImagesAreThere`,
  `CheckIsDecided`), for any set of jobs. `CheckerInv` says what is known before
  each request: credentials are sent if and only if they are for the image's
  registry, a token is had only for good credentials or for none, a bearer's
  registry is asked without a token only if it lets anybody in. The verdict is
  inductive with it (`Verdict`).
* **SshBarrier** (`BarrierTypes`, `NobodyFirst`, `AllRounds`), for any set of
  containers. The invariant: what is neither left to try nor failed in this
  round was up once, and the number of tries follows from the retries and
  whether the instance still fails.

* **Ports** (`PortsTypes`, `PortsAreDistinct`, `HeldPortsAreRefused`,
  `ExportsAgree`, `SequentialTasksApart`), for any tasks, labels, counts and
  ranges. `EnvInv`: what a snapshot has of a task whose present pod is in it
  is what that pod's UID is hashed into, what a task exports is what its snapshot has, and a task
  of a gang has found its own pod. `CheckInv`: of the ports looked at so far no two are the same, and none has been held by another
  task since the check began. Tasks numbered by index need a lemma of arithmetic besides: a
  number determines its label (the blocks do not overlap, `PortsAssumption`) and
  its task (`Count * t + k` with `k < Count`), so that the sets of two tasks are disjoint.
* **PluginScripts**, packages (`ScriptTypes`, `PolicyIsKept`, `InstalledBeforeUse`), for any
  lists of plugins, in any order and with any parameters, any storage configs and
  servers, any package groups and sites. A row of commands is `Prepared` if what
  each of them needs is given by one before it: sshd by the installation of its
  group, the barrier by sshd, a mount by the tools of its server's type. Rows that are
  prepared make a row that is (`PreparedConcat`), hence so does `FlattenSeq` of any
  number of them (`FlattenPrepared`); for one server, the row that is run first has
  what all others need (`Serves`, `Covered`), however many mount points there
  are, and only servers with a type get a row (`OrderTyped`, and what
  `StorageRaises` refuses). `Shaped` puts the options around it: the option first,
  for a lenient plugin the option put back at the end. `LineInv` says what is so at a
  line of a script: errexit is as the policy wants, a lenient script ends with
  status 0, and in a strict one all that the commands so far give is there
  (`GivenIsThere`), since each of them succeeded and none takes a package away
  (`CommandsKeep`). `ScriptsAssumption` has what the proof takes from
  `package_cache_info`: the groups of nfs, samba and azurefile hold the tools
  that mounting needs.
* **PluginScripts**, mounts and files (`FilesStay`, `MountsAsAsked`), for any plugins in
  any order, any servers of the four types and any mount points that are well placed.
  The two properties speak of the end of a script and of files only, and neither says
  what `rm -r`, `umount` or a later script will meet. `FilesInv` does, in three parts.
  `TidyScripts` is about what the init container has written: each script mounts the root of a share only to unmount it with nothing but
  `mkdir` in between, removes only `Removed` places, links right after it has removed, mounts
  for each mount info asked for, and git's `mv` follows its check (`StorageTidy`,
  from a row per mount info to a row per server to the script, as for packages). `AtFirst` is the container
  before the first script. `FilesStand` is about what the commands up to the line at
  hand have done: every entry of the table of mounts is of a mount info asked for
  (`Standing`), the root of a share is there only where its `umount` is due
  (`RootsAreShort`), what `rm -r`, `ln -s` and `mv` rely on is so when their line is
  reached (`LineIsSafe`), and what the lines before asked for is in its place, but between
  the `rm` and the link of a blob (`InSight`). It must be said not only of the
  mount infos asked for so far but of all sets asked for up to a script that is not over
  (`Asks`, `Ahead`): `FilesAreKept` is about the placement of all mount points, `MountedAsAsked`
  of those up to now. The steps need the invariant of the packages
  too: a `mount` whose tools are there and that succeeded has made an entry. What a
  path resolves to is by induction over the walk (`LocalPath`, `AtMountPoint`, `OnServer`): a
  path with no entry of the table on it stays local, a mount point ends in its
  entry, and below the root of a server one is on the server. `StorageAssumption` is what the proof takes of types: mount infos have a server,
  a path and a mount point, normal forms are paths. TLC checked an instance of
  `FilesInv` before it was proved.

Induction. The library's induction theorems take an operator, which the provers
cannot instantiate; `SequenceFacts` states induction with a set instead
(`NatSetInduction`, `SeqSetInduction`: a set with `<<>>` that is closed under
`Append` has all sequences) from the well-foundedness of `<`, and proves what
`FoldLeft` computes for `<<>>` and for `Append(s, c)`, and that a set closed under
concatenation is closed under `FlattenSeq` (`FlattenInduction`). The fold step is a
constant of the module, instantiated once per fold. The folds of `MatchLog` and
`ServerOrder` have named steps for that reason, `Filter` of `StorageMounts` is
written with `FlattenSeq` as the prover knows nothing of `SelectSeq`, and `Resolve` and
`Roots` walk a path and a table with recursive functions, of which `WalkExists`
and `DescentExists` say that they exist.

Only model-checked: liveness (`EndsAfterJob`, `PreDaemonDoesNotBlock`,
`BarrierEnds`), as the prover has neither fairness arguments nor ENABLED. Every
other property of a passing run is a theorem.

## 5. Not modelled, and the plan

Done: the log pipeline and the entry point with its abstract contract; the init
container with the plugins; the parts of the exit handler; the ssh barrier; the
image check; the ports and what peers export; the plugins with their commands,
the package cache and the storage commands. Next, in this order:

1. `ExitHandler`: composition of `SpecMatch`, `MatchLog` and `ExitSummary` under
   `main.go` 43-104 with the termination file, implementing what `RuntimeEntry`
   takes for `RunExitHandler`; `gpu_info_collector.go` with its timeout.
2. `PodLifecycle`: `InitContainer` followed by `RuntimeEntry`: what the
   precommands find is what the plugins wrote, the status of the pod.
3. An abstract specification of the init container (a
   workspace that is either empty or complete) that it implements.

Left out: rendering of secrets and parameters (`initializer.py` 188-216,
`common/utils.py`), which is text substitution; the collection of the plugins
from prerequisites and extras (`initializer.py` 91-130), a function of the job
that the model takes as its result; `init_deployment`, which nothing calls;
genconf and the decompression of large frameworks (`framework_parser.py`);
how the image of the package cache is built (`ubuntu_build.sh`); addresses,
credentials and options of mounts; the choice of GPU fields; deployment and
build files.

## 6. Running

    tlc -config RuntimeEntry_safety.cfg MC_RuntimeEntry
    tlapm RuntimeEntry_proofs.tla

`PROJECT.json` lists every run with its configuration and properties, the
mutants, the lines each definition stands for, the findings, the hazards and the
theorems.
