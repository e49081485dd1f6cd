----------------------------- MODULE LogPipeline -----------------------------
(***************************************************************************)
(* The processes that carry the output of the user's command to the log    *)
(* files, as src/src/runtime.d/runtime_entry.sh:136-148 wires them:        *)
(*                                                                         *)
(*   user.sh --stream--> tee --> multilog            (user-stdout/-stderr) *)
(*                        |                                                *)
(*                        +----> tee -a LOG_PIPE --> multilog  (user-all)  *)
(*                                                                         *)
(* There is one such chain per stream; both chains end in the same FIFO,   *)
(* LOG_PIPE, and in the one multilog ("the logger") that reads it.         *)
(*                                                                         *)
(* Pipes are first-in first-out, so a stream is a set of counters: how     *)
(* many lines were written, and how many of them each process passed on.   *)
(* A pipe ends (EOF) when nobody holds its write end any more.  A FIFO is  *)
(* different: a process that opens it waits for the other end, and the     *)
(* reader sees EOF as soon as no writer has it open, even if a writer that *)
(* has not opened it yet is still to come.                                 *)
(***************************************************************************)
EXTENDS Naturals, FiniteSets

CONSTANTS
    MaxLines,   \* bound: per stream, the lines written to it
    PipeCap,    \* capacity of every pipe, in lines
    RotSize,    \* LOCAL_LOG_MAX_SIZE: multilog rotates a file of this size
    Evident     \* bound: where evidence may be written, streams or "pre"

Streams == {"out", "err"}
Codes == {0, 1}       \* exit statuses of a child, to what the script tests

ASSUME BoundsAssumption ==
    /\ MaxLines \in [Streams -> Nat]
    /\ PipeCap \in Nat \ {0} /\ RotSize \in Nat \ {0}
    /\ Evident \subseteq Streams \cup {"pre"}

VARIABLES
    job,       \* user.sh: not started, running or exited
    jobCode,   \* its exit status, once it has exited
    held,      \* per stream: who holds the write end (the job, its daemons)
    wrote,     \* per stream: lines written
    ev,        \* per stream: number of the line that is evidence, 0 for none
    splitter,  \* per stream: the first tee, idle, running or closed
    split,     \* per stream: lines the first tee passed on, to both readers
    kept,      \* per stream: lines in the stream's own log
    relay,     \* per stream: tee -a LOG_PIPE; forked until it opens the FIFO
    sent,      \* per stream: lines it wrote to the FIFO
    logger,    \* the multilog of user-all: idle, forked, open or exited
    logged,    \* per stream: lines in user-all
    total,     \* lines in user-all, those already deleted included
    curStart,  \* user-all/current holds lines curStart + 1 .. total
    oldStart,  \* the rotated file holds oldStart + 1 .. curStart
    evAt       \* position of the evidence in user-all, 0 if not logged

jobVars    == <<job, jobCode, held, wrote, ev>>
teeVars    == <<splitter, split, kept, relay, sent>>
loggerVars == <<logger, logged, total, curStart, oldStart, evAt>>
pipeVars   == <<jobVars, teeVars, loggerVars>>

PipeTypeOK ==
    /\ job \in {"idle", "running", "exited"} /\ jobCode \in Codes
    /\ held \in [Streams -> SUBSET {"job", "daemon"}]
    /\ wrote \in [Streams -> Nat] /\ ev \in [Streams -> Nat]
    /\ \A s \in Streams : ev[s] <= wrote[s] /\ wrote[s] <= MaxLines[s]
    /\ splitter \in [Streams -> {"idle", "running", "closed"}]
    /\ split \in [Streams -> Nat] /\ kept \in [Streams -> Nat]
    /\ relay \in [Streams -> {"idle", "forked", "open", "closed"}]
    /\ sent \in [Streams -> Nat] /\ logged \in [Streams -> Nat]
    /\ logger \in {"idle", "forked", "open", "exited"}
    /\ total \in Nat /\ curStart \in Nat /\ oldStart \in Nat /\ evAt \in Nat

PipeInit ==
    /\ job = "idle" /\ jobCode = 0
    /\ held = [s \in Streams |-> {}]
    /\ wrote = [s \in Streams |-> 0] /\ ev = [s \in Streams |-> 0]
    /\ splitter = [s \in Streams |-> "idle"]
    /\ split = [s \in Streams |-> 0] /\ kept = [s \in Streams |-> 0]
    /\ relay = [s \in Streams |-> "idle"] /\ sent = [s \in Streams |-> 0]
    /\ logger = "idle" /\ logged = [s \in Streams |-> 0]
    /\ total = 0 /\ curStart = 0 /\ oldStart = 0 /\ evAt = 0

-----------------------------------------------------------------------------
(* The job *)

\* Lines 142-148: the command, its two chains and the logger, all started in
\* the background.  The chains are forked before user.sh is executed.
StartJob ==
    /\ job = "idle"
    /\ job' = "running"
    /\ held' = [s \in Streams |-> {"job"}]
    /\ splitter' = [s \in Streams |-> "running"]
    /\ relay' = [s \in Streams |-> "forked"]
    /\ logger' = "forked"
    /\ UNCHANGED <<jobCode, wrote, ev, split, kept, sent, logged, total,
                   curStart, oldStart, evAt>>

\* The job, or a daemon it left behind, writes a line.  At most one line of
\* all is evidence: it matches a pattern of the error spec.  A full pipe
\* blocks the writer.
Write(s) ==
    /\ held[s] # {}
    /\ wrote[s] < MaxLines[s]
    /\ wrote[s] - split[s] < PipeCap
    /\ wrote' = [wrote EXCEPT ![s] = @ + 1]
    /\ \/ UNCHANGED ev
       \/ /\ s \in Evident /\ \A t \in Streams : ev[t] = 0
          /\ ev' = [ev EXCEPT ![s] = wrote[s] + 1]
    /\ UNCHANGED <<job, jobCode, held, teeVars, loggerVars>>

\* The job closes a stream, or redirects it elsewhere, and goes on.
CloseStream(s) ==
    /\ job = "running" /\ "job" \in held[s]
    /\ held' = [held EXCEPT ![s] = @ \ {"job"}]
    /\ UNCHANGED <<job, jobCode, wrote, ev, teeVars, loggerVars>>

\* The job starts a daemon, which inherits the streams the job still holds.
StartDaemon ==
    /\ job = "running"
    /\ \E s \in Streams : "job" \in held[s] /\ "daemon" \notin held[s]
    /\ held' = [s \in Streams |->
                  IF "job" \in held[s] THEN {"job", "daemon"} ELSE held[s]]
    /\ UNCHANGED <<job, jobCode, wrote, ev, teeVars, loggerVars>>

StopDaemon ==
    /\ \E s \in Streams : "daemon" \in held[s]
    /\ held' = [s \in Streams |-> held[s] \ {"daemon"}]
    /\ UNCHANGED <<job, jobCode, wrote, ev, teeVars, loggerVars>>

ExitJob ==
    /\ job = "running"
    /\ job' = "exited"
    /\ jobCode' \in Codes
    /\ held' = [s \in Streams |-> held[s] \ {"job"}]
    /\ UNCHANGED <<wrote, ev, teeVars, loggerVars>>

-----------------------------------------------------------------------------
(* The chain of one stream *)

\* The first tee copies a line to the stream's multilog and to the relay, and
\* waits while either pipe is full.
Split(s) ==
    /\ splitter[s] = "running"
    /\ split[s] < wrote[s]
    /\ split[s] - kept[s] < PipeCap
    /\ split[s] - sent[s] < PipeCap
    /\ split' = [split EXCEPT ![s] = @ + 1]
    /\ UNCHANGED <<jobVars, splitter, kept, relay, sent, loggerVars>>

\* It ends when its input does: nothing left to read, no writer left.
CloseSplitter(s) ==
    /\ splitter[s] = "running"
    /\ held[s] = {} /\ split[s] = wrote[s]
    /\ splitter' = [splitter EXCEPT ![s] = "closed"]
    /\ UNCHANGED <<jobVars, split, kept, relay, sent, loggerVars>>

\* The stream's own multilog writes a line to user-stdout or user-stderr.
Keep(s) ==
    /\ kept[s] < split[s]
    /\ kept' = [kept EXCEPT ![s] = @ + 1]
    /\ UNCHANGED <<jobVars, splitter, split, relay, sent, loggerVars>>

\* The relay opens the FIFO.  From here on it counts as a writer, though the
\* call returns only when a reader has come.
OpenRelay(s) ==
    /\ relay[s] = "forked"
    /\ relay' = [relay EXCEPT ![s] = "open"]
    /\ UNCHANGED <<jobVars, splitter, split, kept, sent, loggerVars>>

Send(s) ==
    /\ relay[s] = "open" /\ logger = "open"
    /\ sent[s] < split[s]
    /\ (sent["out"] - logged["out"]) + (sent["err"] - logged["err"]) < PipeCap
    /\ sent' = [sent EXCEPT ![s] = @ + 1]
    /\ UNCHANGED <<jobVars, splitter, split, kept, relay, loggerVars>>

CloseRelay(s) ==
    /\ relay[s] = "open" /\ logger = "open"
    /\ splitter[s] = "closed" /\ sent[s] = split[s]
    /\ relay' = [relay EXCEPT ![s] = "closed"]
    /\ UNCHANGED <<jobVars, splitter, split, kept, sent, loggerVars>>

-----------------------------------------------------------------------------
(* The logger of user-all *)

\* Opening the FIFO returns once a writer has come, now or earlier.
OpenLogger ==
    /\ logger = "forked"
    /\ \E s \in Streams : relay[s] \in {"open", "closed"}
    /\ logger' = "open"
    /\ UNCHANGED <<jobVars, teeVars, logged, total, curStart, oldStart, evAt>>

\* Mutant of Log: no old file is kept, as if LOCAL_LOG_MAX_FILES were 1.
LogKeepingOne(s) ==
    /\ logger = "open"
    /\ logged[s] < sent[s]
    /\ logged' = [logged EXCEPT ![s] = @ + 1]
    /\ total' = total + 1
    /\ evAt' = IF ev[s] = logged[s] + 1 THEN total + 1 ELSE evAt
    /\ IF total' - curStart < RotSize
         THEN UNCHANGED <<curStart, oldStart>>
         ELSE curStart' = total' /\ oldStart' = total'
    /\ UNCHANGED <<jobVars, teeVars, logger>>

\* multilog writes a line to current.  It rotates a file that is full at the end of
\* the line, and keeps one old file (LOCAL_LOG_MAX_FILES counts current as well).
Log(s) ==
    /\ logger = "open"
    /\ logged[s] < sent[s]
    /\ logged' = [logged EXCEPT ![s] = @ + 1]
    /\ total' = total + 1
    /\ evAt' = IF ev[s] = logged[s] + 1 THEN total + 1 ELSE evAt
    /\ IF total' - curStart < RotSize
         THEN UNCHANGED <<curStart, oldStart>>
         ELSE curStart' = total' /\ oldStart' = curStart
    /\ UNCHANGED <<jobVars, teeVars, logger>>

\* Mutant of CloseLogger: it ends when the writers do, with lines unread.
CloseLoggerUnread ==
    /\ logger = "open"
    /\ \A s \in Streams : relay[s] # "open"
    /\ logger' = "exited"
    /\ UNCHANGED <<jobVars, teeVars, logged, total, curStart, oldStart, evAt>>

\* EOF: the FIFO is empty and no writer has it open at this moment.
CloseLogger ==
    /\ logger = "open"
    /\ \A s \in Streams : relay[s] # "open" /\ logged[s] = sent[s]
    /\ logger' = "exited"
    /\ UNCHANGED <<jobVars, teeVars, logged, total, curStart, oldStart, evAt>>

-----------------------------------------------------------------------------
JobNext ==
    \/ \E s \in Streams : Write(s) \/ CloseStream(s)
    \/ StartDaemon \/ StopDaemon \/ ExitJob

StreamNext(s) ==
    Split(s) \/ CloseSplitter(s) \/ OpenRelay(s) \/ Send(s) \/ CloseRelay(s)

LoggerNext == OpenLogger \/ (\E s \in Streams : Log(s)) \/ CloseLogger

PipeNext ==
    \/ StartJob \/ JobNext \/ LoggerNext
    \/ \E s \in Streams : StreamNext(s) \/ Keep(s)

\* The pipeline by itself; RuntimeEntry says which of its processes go on.
PipeSpec == PipeInit /\ [][PipeNext]_pipeVars

-----------------------------------------------------------------------------
\* A relay that came too late: the logger saw EOF when the relays that had
\* come were done, so nobody will ever read what this one has to write.
Late(s) == logger = "exited" /\ relay[s] \in {"forked", "open"}

\* A daemon keeps a stream of the job open.
DaemonHolds == \E s \in Streams : "daemon" \in held[s]

\* Once the logger of user-all has exited, every line of both streams is in
\* user-all, except those of a stream whose relay was late
\* (runtime_entry.sh:151 takes the logger's exit for the end of the output).
LossOnlyIfLate ==
    logger = "exited" =>
        \A s \in Streams : logged[s] = wrote[s] \/ Late(s)

\* user-all is two files: current is never full, and once multilog has deleted
\* a file the old one is full; so the last RotSize lines logged can always be
\* read back (runtime_entry.sh:36-37, 147).
TailIsKept ==
    /\ oldStart <= curStart /\ curStart <= total
    /\ total - curStart < RotSize
    /\ oldStart > 0 => curStart - oldStart >= RotSize
=============================================================================
