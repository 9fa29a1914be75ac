------------------------------- MODULE Pusher -------------------------------
(***************************************************************************)
(* util/cron/pna_pusher.sh and util/cron/pna_archiver.sh: how the logs of  *)
(* the monitor travel from the log directory, through archives in the      *)
(* archive directory of the monitoring host, to the daily directory of the *)
(* collecting host and from there to the archival host.                    *)
(*                                                                         *)
(* Time goes by in three steps for each ten minutes that the scripts      *)
(* group logs by: the first minute, the four after it and the last five.   *)
(* The monitor writes a log at any time, and as long as it likes.  The log *)
(* is named in UTC, by the second before it is opened (flowtab_dump), so   *)
(* the last log of a group may be opened when the next one has begun.  The *)
(* pusher reads the local time, which is zone groups behind UTC, or ahead, *)
(* and changes once to summer time or back.  Cron starts the pusher after  *)
(* the first minute of a group (crontab-pusher), and not before the run    *)
(* before has ended; it may miss a run.  The pusher may be killed between  *)
(* any two commands, and scp may fail, with or without leaving a useless   *)
(* file behind.                                                            *)
(***************************************************************************)
EXTENDS Integers

CONSTANTS
    LogNames,       \* bound: the times that logs may be named by
    LastTime,       \* bound on the time
    Zones,          \* groups that local time may be behind UTC
    Day,            \* the time until find -ctime +0 lists a file
    MaxFaults       \* bound on the kills, failing copies and failing tars

ASSUME PusherAssumption ==
    /\ LastTime \in Nat /\ LastTime >= 2
    /\ LogNames \subseteq 0 .. LastTime
    /\ Zones \subseteq Int
    /\ Day \in Nat
    /\ MaxFaults \in Nat

VARIABLES
    now,        \* the current time
    zone,       \* groups that local time is behind UTC
    changed,    \* local time has changed to or from summer time
    begun,      \* history: all logs the monitor has begun
    logs,       \* the logs in LOG_DIR, by the time they are named by
    writing,    \* the logs the monitor has open
    archives,   \* ARCHIVE_DIR: the contents of its files by their names
    daily,      \* the same for REMOTE_LOCATION of the pusher, with the ctime
    stored,     \* the same for REMOTE_LOCATION of the archiver
    push,       \* the pusher: where it is and its shell variables
    moving,     \* the archiver: the file it has copied and will remove
    faults,     \* kills, failing copies and failing tars so far
    mishaps,    \* history: what happened that may lose a log
    slow,       \* history: logs still open a minute after their group's end
    early       \* history: groups collected before their end

monitor == <<begun, writing>>
clock == <<now, zone, changed>>
trouble == <<faults, mishaps>>
timing == <<slow, early>>
vars == <<clock, monitor, logs, archives, daily, stored, push, moving, trouble, timing>>

Fault == faults < MaxFaults /\ faults' = faults + 1

Times == 0 .. LastTime
Group(time) == time \div 3
Groups == {Group(t) - z : t \in -1 .. LastTime, z \in Zones \cup {0}}

Kinds == {"", "straggle", "none"}
FileNames == [group : Groups, kind : Kinds, ext : {"tar", "bz2"}]
TarName(g, k) == [group |-> g, kind |-> k, ext |-> "tar"]
Zipped(a) == [a EXCEPT !.ext = "bz2"]

NoFile == TarName(0, "none")
NoFiles == <<>>
With(dir, a, content) ==
    [b \in DOMAIN dir \cup {a} |-> IF b = a THEN content ELSE dir[b]]
Without(dir, a) == [b \in DOMAIN dir \ {a} |-> dir[b]]

\* The contents of an archive: logs, each with whether it was whole.
Snapshot(g) == {[log |-> l, whole |-> l \notin writing] : l \in {k \in logs : Group(k) = g}}

-----------------------------------------------------------------------------
(* The monitor and the clock.                                              *)

\* The name is of the second before.
BeginLog ==
    /\ \E l \in {now - 1, now} \cap LogNames :
        /\ l \notin begun
        /\ begun' = begun \cup {l}
        /\ logs' = logs \cup {l}
        /\ writing' = writing \cup {l}
    /\ UNCHANGED <<clock, archives, daily, stored, push, moving, trouble, timing>>

\* The log may have been unlinked in the meantime.
EndLog ==
    /\ \E l \in writing : writing' = writing \ {l}
    /\ UNCHANGED <<clock, begun, logs, archives, daily, stored, push, moving, trouble, timing>>

\* The first minute of a group is over.
FirstMinuteOver(t) == t % 3 = 1

Tick ==
    /\ now < LastTime
    /\ now' = now + 1
    /\ slow' = IF FirstMinuteOver(now') THEN slow \cup {l \in writing : Group(l) < Group(now')}
               ELSE slow
    /\ UNCHANGED <<zone, changed, monitor, logs, archives, daily, stored, push, moving, trouble,
                   early>>

\* Summer time begins or ends; in the latter case an hour comes twice.
ChangeZone ==
    /\ ~changed
    /\ changed' = TRUE
    /\ zone' \in Zones \ {zone}
    /\ mishaps' = IF zone' > zone THEN mishaps \cup {"clock"} ELSE mishaps
    /\ UNCHANGED <<now, monitor, logs, archives, daily, stored, push, moving, faults, timing>>

-----------------------------------------------------------------------------
(* The pusher.                                                             *)

\* Mutant: the last digit of the minutes is kept.
ArchiveTimeUncut == now - 2 - zone

\* The group of five minutes ago, in local time.
ArchiveTime == Group(now - 2) - zone

\* Mutant: cron starts the pusher at the whole ten minutes.
ScheduledAtTen(t) == t % 3 = 0

\* Cron starts the pusher at minute 01 of every ten.
Scheduled(t) == FirstMinuteOver(t)

Running == push.pc \notin {"idle", "done", "killed"}

\* Where local time is ahead of UTC, the group to be collected is not over.
Start ==
    /\ ~Running
    /\ Scheduled(now) /\ now > push.started
    /\ push' = [pc |-> "tar", started |-> now, target |-> ArchiveTime,
                archive |-> TarName(ArchiveTime, ""), todo |-> {}, failed |-> FALSE]
    /\ early' = IF zone < 0 THEN early \cup (Group(now) .. ArchiveTime) ELSE early
    /\ UNCHANGED <<clock, monitor, logs, archives, daily, stored, moving, trouble, slow>>

\* tar cf replaces any archive of that name; without a log to put into it it
\* makes an empty one.
Tar ==
    /\ push.pc = "tar"
    /\ \/ /\ archives' = With(archives, push.archive, Snapshot(push.archive.group))
          /\ UNCHANGED trouble
       \/ /\ Fault
          /\ archives' = With(archives, push.archive, {})
          /\ mishaps' = mishaps \cup {"tar"}
    /\ push' = [push EXCEPT !.pc = "rm"]
    /\ UNCHANGED <<clock, monitor, logs, daily, stored, moving, timing>>

\* rm -f, whatever came of tar.
RemoveLogs ==
    /\ push.pc = "rm"
    /\ logs' = {l \in logs : Group(l) # push.archive.group}
    /\ push' = [push EXCEPT !.pc = "bzip2"]
    /\ UNCHANGED <<clock, monitor, archives, daily, stored, moving, trouble, timing>>

\* bzip2 replaces the archive by a compressed one, unless there is one.  After
\* the archive of the target come the stragglers: for log in *.
Compress ==
    /\ push.pc = "bzip2"
    /\ archives' = IF Zipped(push.archive) \in DOMAIN archives THEN archives
                   ELSE With(Without(archives, push.archive),
                             Zipped(push.archive), archives[push.archive])
    /\ push' = [push EXCEPT
        !.pc = "loop",
        !.todo = IF push.archive.kind = "" THEN {TarName(Group(l), "straggle") : l \in logs}
                 ELSE @]
    /\ UNCHANGED <<clock, monitor, logs, daily, stored, moving, trouble, timing>>

\* Mutant: stragglers are left alone.
IsStragglerNever(g) == FALSE

\* A log of the group is still there, and it is not brand new.
IsStraggler(g) == g < push.target /\ \E l \in logs : Group(l) = g

Stragglers ==
    /\ push.pc = "loop"
    /\ \E a \in push.todo :
        /\ \A b \in push.todo : a.group <= b.group
        /\ push' = [push EXCEPT
            !.todo = @ \ {a},
            !.pc = IF IsStraggler(a.group) THEN "tar" ELSE @,
            !.archive = IF IsStraggler(a.group) THEN a ELSE @]
    /\ UNCHANGED <<clock, monitor, logs, archives, daily, stored, moving, trouble, timing>>

\* The loop over the archives, which finds those of earlier runs too.
ListArchives ==
    /\ push.pc = "loop" /\ push.todo = {}
    /\ push' = [push EXCEPT !.pc = "scp", !.todo = DOMAIN archives]
    /\ UNCHANGED <<clock, monitor, logs, archives, daily, stored, moving, trouble, timing>>

\* scp to a directory: the file arrives; or the copy fails, and the directory
\* stays as it is or gets a file of no use.
Copied(dir, a, content) == With(dir, a, content)
Spoiled(dir, a, nothing) == {dir, With(dir, a, nothing)}

\* What scp and the ctime of its target come to on the collecting host.
Received(content) == [content |-> content, ctime |-> now]

\* Mutant: the archive is removed whether or not scp was successful.
ScpUnchecked ==
    /\ push.pc = "scp"
    /\ \E a \in push.todo :
        /\ daily' \in Spoiled(daily, a, Received({}))
        /\ push' = [push EXCEPT !.pc = "unlink", !.archive = a]
    /\ UNCHANGED <<clock, monitor, logs, archives, stored, moving, trouble, timing>>

\* One turn of the loop over the archives.
Scp ==
    /\ push.pc = "scp"
    /\ \E a \in push.todo :
        \/ /\ daily' = Copied(daily, a, Received(archives[a]))
           /\ push' = [push EXCEPT !.pc = "unlink", !.archive = a]
           /\ UNCHANGED trouble
        \/ /\ Fault /\ UNCHANGED mishaps
           /\ daily' \in Spoiled(daily, a, Received({}))
           /\ push' = [push EXCEPT !.todo = @ \ {a}, !.failed = TRUE]
    /\ UNCHANGED <<clock, monitor, logs, archives, stored, moving, timing>>

\* The archive that has been copied is removed.
Unlink ==
    /\ push.pc = "unlink"
    /\ archives' = Without(archives, push.archive)
    /\ push' = [push EXCEPT !.pc = "scp", !.todo = @ \ {push.archive}]
    /\ UNCHANGED <<clock, monitor, logs, daily, stored, moving, trouble, timing>>

Done ==
    /\ push.pc = "scp" /\ push.todo = {}
    /\ push' = [push EXCEPT !.pc = "done", !.archive = NoFile]
    /\ UNCHANGED <<clock, monitor, logs, archives, daily, stored, moving, trouble, timing>>

Kill ==
    /\ Running /\ Fault
    /\ push' = [push EXCEPT !.pc = "killed", !.archive = NoFile, !.todo = {}]
    /\ UNCHANGED <<clock, monitor, logs, archives, daily, stored, moving, mishaps, timing>>

-----------------------------------------------------------------------------
(* The archiver.                                                           *)

\* find -ctime +0, then scp; the file is removed if the copy succeeded.
ArchiverScp ==
    /\ moving = NoFile
    /\ \E a \in DOMAIN daily :
        /\ now - daily[a].ctime >= Day
        /\ \/ /\ stored' = Copied(stored, a, daily[a].content)
              /\ moving' = a
              /\ UNCHANGED faults
           \/ /\ Fault
              /\ stored' \in Spoiled(stored, a, {})
              /\ UNCHANGED moving
    /\ UNCHANGED <<clock, monitor, logs, archives, daily, push, mishaps, timing>>

\* The pusher may have replaced the file since it was copied.
ArchiverRemove ==
    /\ moving # NoFile
    /\ daily' = Without(daily, moving)
    /\ mishaps' = IF daily[moving].content = stored[moving] THEN mishaps
                  ELSE mishaps \cup {"overtaken"}
    /\ moving' = NoFile
    /\ UNCHANGED <<clock, monitor, logs, archives, stored, push, faults, timing>>

-----------------------------------------------------------------------------
\* The monitor is started after the run of the first group has ended.
Init ==
    /\ now = 2 /\ zone \in Zones /\ changed = FALSE
    /\ begun = {} /\ writing = {} /\ logs = {}
    /\ archives = NoFiles /\ daily = NoFiles /\ stored = NoFiles
    /\ push = [pc |-> "idle", started |-> 1, target |-> Group(-1) - zone,
               archive |-> NoFile, todo |-> {}, failed |-> FALSE]
    /\ moving = NoFile
    /\ faults = 0 /\ mishaps = {} /\ slow = {}
    /\ early = Group(1) .. (Group(-1) - zone)

Next ==
    \/ BeginLog \/ EndLog \/ Tick \/ ChangeZone
    \/ Start \/ Tar \/ RemoveLogs \/ Compress \/ Stragglers
    \/ ListArchives \/ Scp \/ Unlink \/ Done \/ Kill
    \/ ArchiverScp \/ ArchiverRemove

Spec == Init /\ [][Next]_vars

-----------------------------------------------------------------------------
(* Properties.                                                             *)

Contents == SUBSET [log : LogNames, whole : BOOLEAN]

\* The directories hold archives of groups by their names, and the shell
\* variables are in range.
TypeOK ==
    /\ now \in Times /\ zone \in Zones /\ changed \in BOOLEAN
    /\ begun \subseteq LogNames /\ writing \subseteq begun /\ logs \subseteq begun
    /\ \A dir \in {archives, stored} :
        DOMAIN dir \subseteq FileNames /\ \A a \in DOMAIN dir : dir[a] \in Contents
    /\ DOMAIN daily \subseteq FileNames
    /\ \A a \in DOMAIN daily : daily[a].content \in Contents /\ daily[a].ctime \in Times
    /\ push.pc \in {"idle", "tar", "rm", "bzip2", "loop", "scp", "unlink", "done", "killed"}
    /\ push.started \in Times /\ push.target \in Groups
    /\ push.archive \in FileNames /\ push.todo \subseteq FileNames
    /\ push.failed \in BOOLEAN
    /\ moving \in FileNames
    /\ faults \in 0 .. MaxFaults
    /\ mishaps \subseteq {"tar", "clock", "overtaken"}
    /\ slow \subseteq begun /\ early \subseteq Int

In(dir) == UNION {dir[a] : a \in DOMAIN dir}
InDaily == UNION {daily[a].content : a \in DOMAIN daily}
Whole(l) == [log |-> l, whole |-> TRUE]

Lost(l) == l \notin logs /\ Whole(l) \notin In(archives) \cup InDaily \cup In(stored)

\* The scripts work undisturbed: tar works, they do not meet in the same
\* file, and local time is not ahead of UTC and does not go back.
Undisturbed == mishaps = {} /\ early = {}

\* However often copies fail, runs are missed and the pusher is killed, a log
\* is lost in five ways only: tar fails and rm removes the logs all the same;
\* local time goes back, and an archive is replaced by an empty one of the
\* same group; the archiver removes a file that the pusher replaced after the
\* archiver had copied it; local time is ahead of UTC, and logs are removed
\* while their group goes on; or the log itself was still open a minute after
\* the end of its group.
LostInFiveWays == Undisturbed => \A l \in begun \ slow : ~Lost(l)

\* The pusher pushes log files to the remote file store (line 2 of
\* pna_pusher.sh): none is lost on the way as long as tar works, the two
\* scripts do not meet in the same file, local time is behind UTC and no log
\* stays open, whatever summer time does.  The end of summer time refutes it:
\* no run checks it.
NoLogLost ==
    mishaps \subseteq {"clock"} /\ early = {} /\ slow = {} => \A l \in begun : ~Lost(l)

\* "Push complete log files": an archive holds an unfinished log only if the
\* log was still open a minute after the end of its group, or if its group
\* was collected before its end, for local time was ahead of UTC.  The last
\* log of a group is opened when the next group has begun: it is minute 01 in
\* the crontab that lets it end.
OnlyComplete ==
    \A c \in In(archives) \cup InDaily \cup In(stored) :
        c.whole \/ c.log \in slow \/ Group(c.log) \in early

\* A run in which every copy succeeds leaves nothing behind, not even of the
\* runs that were missed, killed or failed before it: no archive, and every
\* log up to its group is on a remote host.
RunCatchesUp ==
    push.pc = "done" /\ ~push.failed =>
        /\ archives = NoFiles
        /\ Undisturbed => \A l \in begun \ slow :
             Group(l) <= push.target => Whole(l) \in InDaily \cup In(stored)
=============================================================================
