---------------------------- MODULE PusherProofs ----------------------------
(***************************************************************************)
(* Proofs about Pusher, for any number of logs, runs and faults, in any    *)
(* order of the steps of the monitor, the pusher and the archiver.         *)
(***************************************************************************)
EXTENDS Pusher, TLAPS

USE PusherAssumption

-----------------------------------------------------------------------------
(* The inductive invariant.                                                *)

PushRecords ==
    [pc : {"idle", "tar", "rm", "bzip2", "loop", "scp", "unlink", "done", "killed"},
     started : Times, target : Groups, archive : FileNames,
     todo : SUBSET FileNames, failed : BOOLEAN]
Receipts == [content : Contents, ctime : Times]

\* The directories are functions, and push is a record.
Shapes ==
    /\ archives \in [DOMAIN archives -> Contents]
    /\ stored \in [DOMAIN stored -> Contents]
    /\ daily \in [DOMAIN daily -> Receipts]
    /\ push \in PushRecords

Packing == push.pc \in {"tar", "rm", "bzip2"}

\* After the first minute of a group the open logs of earlier ones are slow,
\* and so is any open log of a group up to the target, unless the group is
\* collected early.
OpenLogs ==
    /\ now % 3 # 0 => \A l \in writing : Group(l) < Group(now) => l \in slow
    /\ \A l \in writing : Group(l) <= push.target => l \in slow \/ Group(l) \in early

\* The pusher works on groups that are over or early, and names it takes from
\* a list are there.
Course ==
    /\ OpenLogs
    /\ Group(push.started) .. push.target \subseteq early
    /\ push.started % 3 = 1 /\ push.started <= now
    /\ Packing => /\ push.archive.ext = "tar"
                  /\ push.archive.group <= push.target
                  /\ push.archive.kind = "" => push.archive.group = push.target
    /\ (Packing \/ push.pc = "loop") =>
         \A a \in push.todo : a = TarName(a.group, "straggle")
    /\ push.pc \in {"rm", "bzip2"} => push.archive \in DOMAIN archives
    /\ push.pc \in {"scp", "unlink"} =>
         /\ push.todo \subseteq DOMAIN archives
         /\ ~push.failed => DOMAIN archives \subseteq push.todo
    /\ push.pc = "unlink" => push.archive \in push.todo
    /\ push.pc = "done" /\ ~push.failed => DOMAIN archives = {}
    /\ moving # NoFile => moving \in DOMAIN daily /\ moving \in DOMAIN stored

Remote == DOMAIN daily \cup DOMAIN stored

\* Names: those of a run are new on the remote hosts, and on the way there
\* no log of their group is left that would bring a name back.
Names ==
    /\ push.target <= Group(push.started - 2) - zone
    /\ \A a \in DOMAIN archives \cup Remote :
         /\ a.group <= push.target
         /\ push.pc = "tar" /\ push.archive.kind = "" => a.group < push.target
    /\ \A a \in Remote : \A l \in logs : Group(l) # a.group
    /\ Packing => push.archive \notin Remote /\ Zipped(push.archive) \notin Remote

\* Logs: a log is removed only once it is in the archive of its group, and
\* the loop over the logs leaves none of a group up to the target.
OfTodo(l) == TarName(Group(l), "straggle") \in push.todo
First == push.archive.kind = ""
Straggling ==
    push.pc = "tar" /\ ~First => \E l \in logs : Group(l) = push.archive.group
Archiving ==
    push.pc = "rm" => \A l \in logs \ slow :
         Group(l) = push.archive.group => Whole(l) \in archives[push.archive]
Tars ==
    \A a \in DOMAIN archives : a.ext = "tar" =>
         \/ \A c \in archives[a] : c.log \in logs /\ Group(c.log) = a.group
         \/ \A l \in logs : Group(l) # a.group
Remaining ==
    \A l \in logs :
         /\ (push.pc \in {"loop", "bzip2", "scp", "unlink", "done"} \/ (Packing /\ ~First))
              => Group(l) # push.target
         /\ push.pc \in {"scp", "unlink", "done"} => Group(l) > push.target
         /\ (push.pc = "loop" \/ (push.pc = "bzip2" /\ ~First)) =>
              Group(l) > push.target \/ OfTodo(l)
         /\ push.pc \in {"tar", "rm"} /\ ~First =>
              Group(l) > push.target \/ OfTodo(l) \/ Group(l) = push.archive.group
Progress == Straggling /\ Archiving /\ Tars /\ Remaining

\* Copies: the copy of an archive further up the road holds what any copy
\* further down does.
Copies ==
    /\ \A a \in DOMAIN archives :
         /\ a \in DOMAIN daily => daily[a].content \subseteq archives[a]
         /\ a \in DOMAIN stored => stored[a] \subseteq archives[a]
    /\ \A a \in DOMAIN daily \ DOMAIN archives :
         a \in DOMAIN stored => stored[a] \subseteq daily[a].content
    /\ push.pc = "unlink" =>
         \/ /\ push.archive \in DOMAIN daily
            /\ daily[push.archive].content = archives[push.archive]
         \/ /\ push.archive \in DOMAIN stored \ DOMAIN daily
            /\ stored[push.archive] = archives[push.archive]

-----------------------------------------------------------------------------
(* Directories and groups.                                                 *)

\* A directory after a file is put into it, and after one is removed.
LEMMA WithShape ==
    ASSUME NEW S, NEW f, f \in [DOMAIN f -> S], NEW a, NEW v \in S
    PROVE  With(f, a, v) \in [DOMAIN With(f, a, v) -> S]
BY DEF With

\* A directory after a file is removed.
LEMMA WithoutFile ==
    ASSUME NEW f, NEW a
    PROVE  /\ DOMAIN Without(f, a) = DOMAIN f \ {a}
           /\ \A b \in DOMAIN f \ {a} : Without(f, a)[b] = f[b]
BY DEF Without

\* The files that are left keep their contents' type.
LEMMA WithoutShape ==
    ASSUME NEW S, NEW f, f \in [DOMAIN f -> S], NEW a
    PROVE  Without(f, a) \in [DOMAIN Without(f, a) -> S]
BY DEF Without

\* Groups of ten minutes.
LEMMA GroupType == ASSUME NEW n \in Int PROVE Group(n) \in Int
BY DEF Group

\* A later time is of no earlier group.
LEMMA GroupMonotone ==
    ASSUME NEW m \in Int, NEW n \in Int, m <= n
    PROVE  Group(m) <= Group(n)
BY DEF Group

\* Only the first time of a group follows one of another group, and two
\* before the second time of a group is the group before.
LEMMA GroupEnds ==
    ASSUME NEW m \in Int
    PROVE  /\ m % 3 \in {0, 1, 2}
           /\ m % 3 # 0 => Group(m - 1) = Group(m)
           /\ m % 3 = 1 => Group(m - 2) = Group(m) - 1
           /\ (m + 1) % 3 = 2 => m % 3 = 1 /\ Group(m + 1) = Group(m)
BY DEF Group

\* Runs start at minutes 01, so the groups before those of two runs differ.
LEMMA GroupNext ==
    ASSUME NEW m \in Int, NEW n \in Int, m % 3 = 1, n % 3 = 1, m < n
    PROVE  Group(m - 2) < Group(n - 2)
BY DEF Group

\* The groups of UTC and of local time five minutes ago.
LEMMA GroupRange ==
    /\ Times \subseteq Int /\ LogNames \subseteq Int /\ Groups \subseteq Int
    /\ \A n \in LogNames \cup {0} : Group(n) \in Groups
    /\ \A n \in Times, z \in Zones : n >= 1 => Group(n - 2) - z \in Groups
<1>1. Times \subseteq Int /\ LogNames \subseteq 0 .. LastTime /\ LogNames \subseteq Int
      /\ Zones \subseteq Int
  BY DEF Times
<1>2. \A t \in -1 .. LastTime : Group(t) \in Int
  BY GroupType
<1>3. Groups \subseteq Int
  BY <1>1, <1>2 DEF Groups
<1>4. ASSUME NEW t \in -1 .. LastTime, NEW z \in Zones \cup {0}
      PROVE  Group(t) - z \in Groups
  BY DEF Groups
<1>5. ASSUME NEW n \in LogNames \cup {0} PROVE Group(n) \in Groups
  <2>1. n \in -1 .. LastTime
    BY <1>1
  <2>2. Group(n) - 0 \in Groups
    BY <1>4, <2>1
  <2> QED BY <1>2, <2>1, <2>2
<1>6. ASSUME NEW n \in Times, NEW z \in Zones, n >= 1 PROVE Group(n - 2) - z \in Groups
  <2>1. n - 2 \in -1 .. LastTime
    BY <1>6 DEF Times
  <2> QED BY <1>4, <2>1
<1> QED BY <1>1, <1>3, <1>5, <1>6

\* The names that the scripts make up are names.
LEMMA NameTypes ==
    /\ NoFile \in FileNames
    /\ \A g \in Groups, k \in Kinds : TarName(g, k) \in FileNames
    /\ \A a \in FileNames : Zipped(a) \in FileNames
    /\ \A a \in FileNames :
         Zipped(a).group = a.group /\ Zipped(a).ext = "bz2" /\ Zipped(a).kind = a.kind
<1>1. 0 \in Groups /\ "none" \in Kinds
  <2>1. Group(0) = 0
    BY DEF Group
  <2> QED BY <2>1, GroupRange DEF Kinds
<1>2. \A g \in Groups, k \in Kinds : TarName(g, k) \in FileNames
  BY DEF TarName, FileNames
<1>3. \A a \in FileNames : Zipped(a) \in FileNames
    /\ Zipped(a).group = a.group /\ Zipped(a).ext = "bz2" /\ Zipped(a).kind = a.kind
  BY DEF Zipped, FileNames
<1> QED BY <1>1, <1>2, <1>3 DEF NoFile

\* What tar puts into an archive.
LEMMA SnapshotType ==
    ASSUME TypeOK, NEW g
    PROVE  /\ Snapshot(g) \in Contents
           /\ {} \in Contents
           /\ \A c \in Snapshot(g) : c.log \in logs /\ Group(c.log) = g
           /\ \A l \in logs : Group(l) = g /\ l \notin writing => Whole(l) \in Snapshot(g)
<1>1. logs \subseteq LogNames
  BY DEF TypeOK
<1>2. ASSUME NEW c \in Snapshot(g)
      PROVE  /\ c \in [log : LogNames, whole : BOOLEAN]
             /\ c.log \in logs /\ Group(c.log) = g
  <2>1. PICK l \in logs : Group(l) = g /\ c = [log |-> l, whole |-> l \notin writing]
    BY DEF Snapshot
  <2>2. PICK w \in BOOLEAN : w = (l \notin writing)
    OBVIOUS
  <2>3. c = [log |-> l, whole |-> w]
    BY <2>1, <2>2
  <2> QED BY <1>1, <2>1, <2>3
<1>3. \A l \in logs : Group(l) = g => [log |-> l, whole |-> l \notin writing] \in Snapshot(g)
  BY DEF Snapshot
<1>4. \A l \in logs : Group(l) = g /\ l \notin writing => Whole(l) \in Snapshot(g)
  BY <1>3 DEF Whole
<1> QED BY <1>2, <1>4 DEF Contents

-----------------------------------------------------------------------------
(* Types and the course of a run.                                          *)

Basic == TypeOK /\ Shapes /\ Course

\* TypeOK follows from the shapes and the rest.
Others ==
    /\ now \in Times /\ zone \in Zones /\ changed \in BOOLEAN
    /\ begun \subseteq LogNames /\ writing \subseteq begun /\ logs \subseteq begun
    /\ DOMAIN archives \subseteq FileNames
    /\ DOMAIN stored \subseteq FileNames
    /\ DOMAIN daily \subseteq FileNames
    /\ moving \in FileNames
    /\ faults \in 0 .. MaxFaults
    /\ mishaps \subseteq {"tar", "clock", "overtaken"}
    /\ slow \subseteq begun /\ early \subseteq Int

\* The parts make up the whole.
LEMMA TypeParts == Shapes => (TypeOK <=> Others)
<1> SUFFICES ASSUME Shapes PROVE TypeOK <=> Others
  OBVIOUS
<1>1. \A dir \in {archives, stored} : \A a \in DOMAIN dir : dir[a] \in Contents
  BY DEF Shapes
<1>2. \A a \in DOMAIN daily : daily[a].content \in Contents /\ daily[a].ctime \in Times
  BY DEF Shapes, Receipts
<1>3. /\ push.pc \in {"idle", "tar", "rm", "bzip2", "loop", "scp", "unlink", "done", "killed"}
      /\ push.started \in Times /\ push.target \in Groups
      /\ push.archive \in FileNames /\ push.todo \subseteq FileNames
      /\ push.failed \in BOOLEAN
  BY DEF Shapes, PushRecords
<1> QED BY <1>1, <1>2, <1>3 DEF TypeOK, Others

\* The types of the shell variables.
LEMMA PushFields ==
    ASSUME Shapes
    PROVE  /\ push.started \in Nat /\ push.target \in Int
           /\ push.archive \in FileNames /\ push.archive.group \in Int
           /\ push.todo \in SUBSET FileNames
<1>1. /\ push.started \in Times /\ push.target \in Groups
      /\ push.archive \in FileNames /\ push.todo \in SUBSET FileNames
  BY DEF Shapes, PushRecords
<1>2. Times \subseteq Nat /\ Groups \subseteq Int
  BY GroupRange DEF Times
<1>3. push.archive.group \in Groups
  BY <1>1 DEF FileNames
<1> QED BY <1>1, <1>2, <1>3

\* A new log is of a group that had not ended when the last run started.
LEMMA NewLog ==
    ASSUME Basic, BeginLog
    PROVE  \E l \in LogNames :
             /\ begun' = begun \cup {l} /\ logs' = logs \cup {l} /\ writing' = writing \cup {l}
             /\ Group(push.started) <= Group(l)
             /\ now % 3 # 0 => Group(l) = Group(now)
<1>1. Course /\ Shapes /\ now \in Int
  BY GroupRange DEF Basic, TypeOK
<1>2. PICK l \in {now - 1, now} \cap LogNames :
        begun' = begun \cup {l} /\ logs' = logs \cup {l} /\ writing' = writing \cup {l}
  BY DEF BeginLog
<1>3. push.started \in Int /\ push.started <= now /\ push.started % 3 = 1
  <2>1. push.started \in Int
    BY <1>1, PushFields
  <2>2. push.started <= now /\ push.started % 3 = 1
    BY <1>1 DEF Course
  <2> QED BY <2>1, <2>2
<1>4. Group(push.started) <= Group(now - 1) /\ Group(now - 1) <= Group(now)
  <2>1. Group(push.started - 1) = Group(push.started)
    BY <1>3, GroupEnds
  <2>2. Group(push.started - 1) <= Group(now - 1) /\ Group(now - 1) <= Group(now)
    BY <1>1, <1>3, GroupMonotone
  <2> QED BY <2>1, <2>2
<1>5. Group(push.started) \in Int /\ Group(now - 1) \in Int /\ Group(now) \in Int
  BY <1>1, <1>3, GroupType
<1>6. Group(push.started) <= Group(l)
  BY <1>2, <1>4, <1>5
<1>7. now % 3 # 0 => Group(l) = Group(now)
  BY <1>1, <1>2, GroupEnds
<1> QED BY <1>2, <1>6, <1>7

\* The monitor and the clock.
LEMMA BasicMonitor ==
    ASSUME Basic, BeginLog \/ EndLog \/ Tick \/ ChangeZone
    PROVE  Others' /\ Shapes' /\ Course'
<1>1. Others /\ Shapes /\ Course
  BY TypeParts DEF Basic
<1>2. UNCHANGED <<archives, stored, daily, push, moving, early>>
  BY DEF BeginLog, EndLog, Tick, ChangeZone, clock, monitor, trouble, timing
<1>3. Shapes'
  BY <1>1, <1>2 DEF Shapes
<1>4. now \in Int /\ Times \subseteq Int
  BY <1>1, GroupRange DEF Others
<1>5. CASE BeginLog
  <2>1. PICK l \in LogNames :
          /\ begun' = begun \cup {l} /\ logs' = logs \cup {l} /\ writing' = writing \cup {l}
          /\ Group(push.started) <= Group(l)
          /\ now % 3 # 0 => Group(l) = Group(now)
    BY <1>5, NewLog
  <2>2. UNCHANGED <<now, zone, changed, faults, mishaps, slow>>
    BY <1>5 DEF BeginLog, clock, trouble, timing
  <2>3. Others'
    BY <1>1, <1>2, <2>1, <2>2 DEF Others
  <2>4. Group(l) \in Int /\ Group(push.started) \in Int /\ push.target \in Int
    BY <1>1, <2>1, GroupType, GroupRange, PushFields
  <2>5. Group(l) <= push.target => Group(l) \in early
    <3>1. Group(l) <= push.target => Group(l) \in Group(push.started) .. push.target
      BY <2>1, <2>4
    <3>2. Group(push.started) .. push.target \subseteq early
      BY <1>1 DEF Course
    <3> QED BY <3>1, <3>2
  <2>6. now % 3 # 0 => ~(Group(l) < Group(now))
    BY <2>1, <2>4
  <2>7. OpenLogs'
    BY <1>1, <1>2, <2>1, <2>2, <2>5, <2>6 DEF Course, OpenLogs
  <2>8. Course'
    BY <1>1, <1>2, <2>2, <2>7 DEF Course, Packing
  <2> QED BY <1>3, <2>3, <2>8
<1>6. CASE EndLog
  <2>1. UNCHANGED <<now, zone, changed, begun, logs, faults, mishaps, slow>> /\ writing' \subseteq writing
    BY <1>6 DEF EndLog, clock, trouble, timing
  <2>2. Others'
    BY <1>1, <1>2, <2>1 DEF Others
  <2>3. Course'
    BY <1>1, <1>2, <2>1 DEF Course, OpenLogs, Packing
  <2> QED BY <1>3, <2>2, <2>3
<1>7. CASE Tick
  <2>1. /\ now' = now + 1 /\ now' \in Times
        /\ UNCHANGED <<zone, changed, begun, writing, logs, faults, mishaps>>
    BY <1>1, <1>7 DEF Others, Tick, Times, monitor, trouble
  <2>2. /\ slow \subseteq slow' /\ slow' \subseteq slow \cup writing
        /\ now' % 3 = 1 => \A l \in writing : Group(l) < Group(now') => l \in slow'
    BY <1>7 DEF Tick, FirstMinuteOver
  <2>3. Others'
    BY <1>1, <1>2, <2>1, <2>2 DEF Others
  <2>4. now' % 3 # 0 => \A l \in writing : Group(l) < Group(now') => l \in slow'
    <3>1. now' % 3 \in {0, 1, 2}
      BY <1>4, <2>1, GroupEnds
    <3>2. CASE now' % 3 = 2
      <4>1. now % 3 = 1 /\ Group(now') = Group(now)
        BY <1>4, <2>1, <3>2, GroupEnds
      <4>2. \A l \in writing : Group(l) < Group(now) => l \in slow
        <5>1. now % 3 # 0
          BY <4>1
        <5> QED BY <1>1, <5>1 DEF Course, OpenLogs
      <4> QED BY <2>2, <4>1, <4>2
    <3>3. CASE now' % 3 = 1
      BY <2>2, <3>3
    <3> QED BY <3>1, <3>2, <3>3
  <2>5. OpenLogs'
    BY <1>1, <1>2, <2>1, <2>2, <2>4 DEF Course, OpenLogs
  <2>6. push.started <= now'
    <3>1. push.started <= now
      BY <1>1 DEF Course
    <3> QED BY <1>1, <1>4, <2>1, <3>1, PushFields
  <2>7. Course'
    BY <1>1, <1>2, <2>5, <2>6 DEF Course, Packing
  <2> QED BY <1>3, <2>3, <2>7
<1>8. CASE ChangeZone
  <2>1. /\ UNCHANGED <<now, begun, writing, logs, faults, slow>>
        /\ zone' \in Zones /\ changed' \in BOOLEAN
        /\ mishaps' \subseteq mishaps \cup {"clock"}
    BY <1>8 DEF ChangeZone, monitor, timing
  <2>2. Others'
    BY <1>1, <1>2, <2>1 DEF Others
  <2>3. Course'
    BY <1>1, <1>2, <2>1 DEF Course, OpenLogs, Packing
  <2> QED BY <1>3, <2>2, <2>3
<1> QED BY <1>5, <1>6, <1>7, <1>8

\* A run starts after the first minute of a group: the group before is over,
\* and groups that are not are early.
LEMMA BasicStart ==
    ASSUME Basic, Start
    PROVE  Others' /\ Shapes' /\ Course'
<1>1. Others /\ Shapes /\ Course
  BY TypeParts DEF Basic
<1>2. UNCHANGED <<now, zone, changed, begun, writing, logs, archives, stored, daily, moving,
                  faults, mishaps, slow>>
  BY DEF Start, clock, monitor, trouble
<1>3. push' = [pc |-> "tar", started |-> now, target |-> ArchiveTime,
               archive |-> TarName(ArchiveTime, ""), todo |-> {}, failed |-> FALSE]
  BY DEF Start
<1>4. now % 3 = 1 /\ now > push.started
  BY DEF Start, Scheduled, FirstMinuteOver
<1>5. now \in Times /\ now \in Nat /\ zone \in Zones /\ zone \in Int /\ now >= 1
  <2>1. now \in Times /\ now \in Nat /\ zone \in Zones
    BY <1>1 DEF Others, Times
  <2>2. push.started \in Nat
    BY <1>1, PushFields
  <2>3. now >= 1
    BY <1>4, <2>1, <2>2
  <2> QED BY <2>1, <2>3
<1>6. ArchiveTime \in Groups /\ ArchiveTime \in Int /\ ArchiveTime = Group(now) - 1 - zone
      /\ Group(now) \in Int
  <2>1. Group(now - 2) - zone \in Groups
    BY <1>5, GroupRange
  <2>2. Group(now - 2) = Group(now) - 1 /\ Group(now) \in Int
    BY <1>4, <1>5, GroupEnds, GroupType
  <2> QED BY <1>5, <2>1, <2>2 DEF ArchiveTime
<1>7. TarName(ArchiveTime, "") \in FileNames
  BY <1>6, NameTypes DEF Kinds
<1>8. /\ push'.pc = "tar" /\ push'.started = now /\ push'.target = ArchiveTime
      /\ push'.archive = TarName(ArchiveTime, "") /\ push'.todo = {} /\ ~push'.failed
  BY <1>3
<1>9. push' \in PushRecords
  BY <1>3, <1>5, <1>6, <1>7 DEF PushRecords
<1>10. early \subseteq early' /\ Group(now) .. ArchiveTime \subseteq early' /\ early' \subseteq Int
  <2>1. zone >= 0 => Group(now) .. ArchiveTime = {}
    BY <1>5, <1>6
  <2>2. early \subseteq Int /\ Group(now) .. ArchiveTime \subseteq Int
    BY <1>1, <1>6 DEF Others
  <2>3. CASE zone < 0
    <3>1. early' = early \cup (Group(now) .. ArchiveTime)
      BY <2>3 DEF Start
    <3> QED BY <2>2, <3>1
  <2>4. CASE ~(zone < 0)
    <3>1. early' = early
      BY <2>4 DEF Start
    <3>2. Group(now) .. ArchiveTime = {}
      BY <1>5, <2>1, <2>4
    <3> QED BY <2>2, <3>1, <3>2
  <2> QED BY <2>3, <2>4
<1>11. Shapes' /\ Others'
  BY <1>1, <1>2, <1>9, <1>10 DEF Shapes, Others
<1>12. /\ push'.archive.group = push'.target /\ push'.archive.ext = "tar"
       /\ push'.target <= push'.target
  <2>1. TarName(ArchiveTime, "").group = ArchiveTime /\ TarName(ArchiveTime, "").ext = "tar"
    BY DEF TarName
  <2>2. ArchiveTime <= ArchiveTime
    BY <1>6
  <2> QED BY <1>8, <2>1, <2>2
<1>13. OpenLogs'
  <2>1. ASSUME NEW l \in writing, Group(l) <= ArchiveTime
        PROVE  l \in slow \/ Group(l) \in early'
    <3>1. Group(l) \in Int
      BY <1>1, GroupType, GroupRange DEF Others
    <3>2. CASE Group(l) < Group(now)
      <4>1. now % 3 # 0
        BY <1>4
      <4> QED BY <1>1, <3>2, <4>1 DEF Course, OpenLogs
    <3>3. CASE Group(now) <= Group(l)
      <4>1. Group(l) \in Group(now) .. ArchiveTime
        BY <1>6, <2>1, <3>1, <3>3
      <4> QED BY <1>10, <4>1
    <3> QED BY <1>6, <3>1, <3>2, <3>3
  <2> QED BY <1>1, <1>2, <1>8, <2>1 DEF Course, OpenLogs
<1>14. (Group(push.started) .. push.target \subseteq early)'
  BY <1>8, <1>10 DEF Group
<1>15. now' % 3 = 1 /\ now' <= now
  BY <1>2, <1>4, <1>5
<1>16. Course'
  BY <1>1, <1>2, <1>8, <1>12, <1>13, <1>14, <1>15 DEF Course, Packing
<1> QED BY <1>11, <1>16

\* The loops: the next straggler, the list of archives, the end.
LEMMA BasicLoop ==
    ASSUME Basic, Stragglers \/ ListArchives \/ Done \/ Kill
    PROVE  Others' /\ Shapes' /\ Course'
<1>1. Others /\ Shapes /\ Course
  BY TypeParts DEF Basic
<1>2. UNCHANGED <<now, zone, changed, slow, early, begun, writing, logs, archives, stored, daily, moving, mishaps>>
  BY DEF Stragglers, ListArchives, Done, Kill, clock, monitor, timing, trouble
<1>3. push \in PushRecords /\ DOMAIN archives \subseteq FileNames
  BY <1>1 DEF Shapes, Others
<1>4. faults' \in 0 .. MaxFaults
  <2>1. faults \in 0 .. MaxFaults
    BY <1>1 DEF Others
  <2>2. CASE Kill
    BY <2>1, <2>2 DEF Kill, Fault
  <2>3. CASE faults' = faults
    BY <2>1, <2>3
  <2> QED BY <2>2, <2>3 DEF Stragglers, ListArchives, Done, trouble
<1>5. CASE Stragglers
  <2>1. PICK a \in push.todo :
          push' = [push EXCEPT !.todo = @ \ {a},
                               !.pc = IF IsStraggler(a.group) THEN "tar" ELSE @,
                               !.archive = IF IsStraggler(a.group) THEN a ELSE @]
    BY <1>5 DEF Stragglers
  <2>2. push.pc = "loop" /\ a \in FileNames /\ a = TarName(a.group, "straggle")
    BY <1>1, <1>5, PushFields DEF Stragglers, Course
  <2>3. push' \in PushRecords
    BY <1>3, <2>1, <2>2 DEF PushRecords
  <2>4. a.ext = "tar" /\ a.kind = "straggle" /\ a.group \in Int
    <3>1. a.group \in Groups
      BY <2>2 DEF FileNames
    <3>2. \A g : TarName(g, "straggle").ext = "tar" /\ TarName(g, "straggle").kind = "straggle"
      BY DEF TarName
    <3> QED BY <2>2, <3>1, <3>2, GroupRange
  <2>5. IsStraggler(a.group) => a.group <= push.target
    BY <1>1, <2>4, PushFields DEF IsStraggler
  <2>6. CASE IsStraggler(a.group)
    <3>1. push'.pc = "tar" /\ push'.archive = a /\ push'.todo = push.todo \ {a}
          /\ push'.target = push.target /\ push'.started = push.started
      BY <1>3, <2>1, <2>6 DEF PushRecords
    <3> QED BY <1>1, <1>2, <1>4, <2>2, <2>3, <2>4, <2>5, <2>6, <3>1
            DEF Shapes, Others, Course, OpenLogs, Packing
  <2>7. CASE ~IsStraggler(a.group)
    <3>1. push'.pc = "loop" /\ push'.archive = push.archive /\ push'.todo = push.todo \ {a}
          /\ push'.target = push.target /\ push'.started = push.started
      BY <1>3, <2>1, <2>2, <2>7 DEF PushRecords
    <3> QED BY <1>1, <1>2, <1>4, <2>2, <2>3, <3>1 DEF Shapes, Others, Course, OpenLogs, Packing
  <2> QED BY <2>6, <2>7
<1>6. CASE ListArchives
  <2>1. push' = [push EXCEPT !.pc = "scp", !.todo = DOMAIN archives]
    BY <1>6 DEF ListArchives
  <2>2. /\ push' \in PushRecords /\ push'.pc = "scp" /\ push'.todo = DOMAIN archives
        /\ push'.target = push.target /\ push'.started = push.started
    BY <1>3, <2>1 DEF PushRecords
  <2> QED BY <1>1, <1>2, <1>4, <2>2 DEF Shapes, Others, Course, OpenLogs, Packing
<1>7. CASE Done
  <2>1. push' = [push EXCEPT !.pc = "done", !.archive = NoFile] /\ push.pc = "scp"
        /\ push.todo = {}
    BY <1>7 DEF Done
  <2>2. /\ push' \in PushRecords /\ push'.pc = "done" /\ push'.failed = push.failed
        /\ push'.target = push.target /\ push'.started = push.started
    BY <1>3, <2>1, NameTypes DEF PushRecords
  <2>3. ~push.failed => DOMAIN archives = {}
    BY <1>1, <2>1 DEF Course
  <2> QED BY <1>1, <1>2, <1>4, <2>2, <2>3 DEF Shapes, Others, Course, OpenLogs, Packing
<1>8. CASE Kill
  <2>1. push' = [push EXCEPT !.pc = "killed", !.archive = NoFile, !.todo = {}]
    BY <1>8 DEF Kill
  <2>2. /\ push' \in PushRecords /\ push'.pc = "killed"
        /\ push'.target = push.target /\ push'.started = push.started
    BY <1>3, <2>1, NameTypes DEF PushRecords
  <2> QED BY <1>1, <1>2, <1>4, <2>2 DEF Shapes, Others, Course, OpenLogs, Packing
<1> QED BY <1>5, <1>6, <1>7, <1>8

\* tar, rm and bzip2.
LEMMA BasicTar ==
    ASSUME Basic, Tar
    PROVE  Others' /\ Shapes' /\ Course'
<1>1. Others /\ Shapes /\ Course /\ TypeOK
  BY TypeParts DEF Basic
<1>2. UNCHANGED <<now, zone, changed, slow, early, begun, writing, logs, stored, daily, moving>>
  BY DEF Tar, clock, monitor, timing
<1>3. PICK c \in Contents : archives' = With(archives, push.archive, c)
  BY <1>1, SnapshotType DEF Tar
<1>4. push \in PushRecords /\ push.pc = "tar" /\ push' = [push EXCEPT !.pc = "rm"]
  BY <1>1 DEF Shapes, Tar
<1>5. /\ push' \in PushRecords /\ push'.pc = "rm" /\ push'.archive = push.archive
      /\ push'.target = push.target /\ push'.started = push.started /\ push'.todo = push.todo
  BY <1>4 DEF PushRecords
<1>6. /\ DOMAIN archives' = DOMAIN archives \cup {push.archive}
      /\ archives' \in [DOMAIN archives' -> Contents]
  <2>1. archives \in [DOMAIN archives -> Contents]
    BY <1>1 DEF Shapes
  <2>2. DOMAIN With(archives, push.archive, c) = DOMAIN archives \cup {push.archive}
    BY DEF With
  <2>3. With(archives, push.archive, c) \in [DOMAIN With(archives, push.archive, c) -> Contents]
    BY <2>1, WithShape
  <2> QED BY <1>3, <2>2, <2>3
<1>7. faults' \in 0 .. MaxFaults /\ mishaps' \subseteq {"tar", "clock", "overtaken"}
  <2>1. faults \in 0 .. MaxFaults /\ mishaps \subseteq {"tar", "clock", "overtaken"}
    BY <1>1 DEF Others
  <2> QED BY <2>1 DEF Tar, Fault, trouble
<1>8. push.archive \in FileNames
  BY <1>1, PushFields
<1>9. Shapes' /\ Others'
  BY <1>1, <1>2, <1>5, <1>6, <1>7, <1>8 DEF Shapes, Others
<1>10. Course'
  BY <1>1, <1>2, <1>4, <1>5, <1>6 DEF Course, OpenLogs, Packing
<1> QED BY <1>9, <1>10

\* rm only takes logs away.
LEMMA BasicRemoveLogs ==
    ASSUME Basic, RemoveLogs
    PROVE  Others' /\ Shapes' /\ Course'
<1>1. Others /\ Shapes /\ Course
  BY TypeParts DEF Basic
<1>2. UNCHANGED <<now, zone, changed, slow, early, begun, writing, archives, stored, daily, moving,
                  faults, mishaps>>
  BY DEF RemoveLogs, clock, monitor, timing, trouble
<1>3. push \in PushRecords /\ push.pc = "rm" /\ push' = [push EXCEPT !.pc = "bzip2"]
  BY <1>1 DEF Shapes, RemoveLogs
<1>4. /\ push' \in PushRecords /\ push'.pc = "bzip2" /\ push'.archive = push.archive
      /\ push'.target = push.target /\ push'.started = push.started /\ push'.todo = push.todo
  BY <1>3 DEF PushRecords
<1>5. logs' \subseteq logs
  BY DEF RemoveLogs
<1>6. Shapes' /\ Others'
  BY <1>1, <1>2, <1>4, <1>5 DEF Shapes, Others
<1>7. Course'
  BY <1>1, <1>2, <1>3, <1>4 DEF Course, OpenLogs, Packing
<1> QED BY <1>6, <1>7

\* bzip2: the archive keeps its name, or takes its new one.
LEMMA Compressed ==
    ASSUME Basic, Compress
    PROVE  /\ push.archive \in DOMAIN archives
           /\ Zipped(push.archive) \in FileNames /\ Zipped(push.archive) # push.archive
           /\ \/ archives' = archives /\ Zipped(push.archive) \in DOMAIN archives
              \/ /\ Zipped(push.archive) \notin DOMAIN archives
                 /\ DOMAIN archives' =
                      (DOMAIN archives \ {push.archive}) \cup {Zipped(push.archive)}
                 /\ archives'[Zipped(push.archive)] = archives[push.archive]
                 /\ \A a \in DOMAIN archives \ {push.archive} : archives'[a] = archives[a]
           /\ archives' \in [DOMAIN archives' -> Contents]
<1> DEFINE z == Zipped(push.archive)
           w == Without(archives, push.archive)
<1>1. push.archive \in DOMAIN archives /\ push.archive.ext = "tar" /\ push.archive \in FileNames
  BY PushFields DEF Basic, Course, OpenLogs, Packing, Compress
<1>2. z \in FileNames /\ z.ext = "bz2"
  BY <1>1, NameTypes
<1>3. z # push.archive
  BY <1>1, <1>2
<1>4. archives \in [DOMAIN archives -> Contents]
  BY DEF Basic, Shapes
<1>5. \/ z \in DOMAIN archives /\ archives' = archives
      \/ z \notin DOMAIN archives /\ archives' = With(w, z, archives[push.archive])
  BY DEF Compress
<1>6. /\ DOMAIN w = DOMAIN archives \ {push.archive}
      /\ \A b \in DOMAIN archives \ {push.archive} : w[b] = archives[b]
      /\ w \in [DOMAIN w -> Contents]
  BY <1>4, WithoutFile, WithoutShape
<1>7. archives[push.archive] \in Contents
  BY <1>1, <1>4
<1> HIDE DEF w, z
<1>8. CASE z \in DOMAIN archives /\ archives' = archives
  BY <1>1, <1>2, <1>3, <1>4, <1>8 DEF z
<1>9. CASE z \notin DOMAIN archives /\ archives' = With(w, z, archives[push.archive])
  <2>1. /\ DOMAIN archives' = DOMAIN w \cup {z}
        /\ archives'[z] = archives[push.archive]
        /\ \A b \in DOMAIN w : b # z => archives'[b] = w[b]
        /\ archives' \in [DOMAIN archives' -> Contents]
    <3> DEFINE v == archives[push.archive]
    <3> HIDE DEF v
    <3>1. /\ DOMAIN With(w, z, v) = DOMAIN w \cup {z}
          /\ With(w, z, v)[z] = v
          /\ \A b \in DOMAIN w : b # z => With(w, z, v)[b] = w[b]
      BY DEF With
    <3>2. With(w, z, v) \in [DOMAIN With(w, z, v) -> Contents]
      BY <1>6, <1>7, WithShape DEF v
    <3>3. archives' = With(w, z, v)
      BY <1>9 DEF v
    <3> QED BY <3>1, <3>2, <3>3 DEF v
  <2> QED BY <1>1, <1>2, <1>3, <1>6, <1>9, <2>1 DEF z
<1> QED BY <1>5, <1>8, <1>9

\* bzip2 keeps the types, and lists names of stragglers only.
LEMMA BasicCompress ==
    ASSUME Basic, Compress
    PROVE  Others' /\ Shapes' /\ Course'
<1>1. Others /\ Shapes /\ Course /\ TypeOK
  BY TypeParts DEF Basic
<1>2. UNCHANGED <<now, zone, changed, slow, early, begun, writing, logs, stored, daily, moving, faults, mishaps>>
  BY DEF Compress, clock, monitor, timing, trouble
<1> DEFINE todo == IF push.archive.kind = "" THEN {TarName(Group(l), "straggle") : l \in logs}
                   ELSE push.todo
<1>3. push \in PushRecords /\ push.pc = "bzip2" /\ push' = [push EXCEPT !.pc = "loop", !.todo = todo]
  BY <1>1 DEF Shapes, Compress
<1>4. \A l \in logs : TarName(Group(l), "straggle") \in FileNames
  <2>1. \A l \in logs : l \in LogNames
    BY <1>1 DEF Others
  <2> QED BY <2>1, GroupRange, NameTypes DEF Kinds
<1>5. todo \subseteq FileNames /\ \A a \in todo : a = TarName(a.group, "straggle")
  <2>1. \A g : TarName(g, "straggle") = TarName(TarName(g, "straggle").group, "straggle")
    BY DEF TarName
  <2>2. push.todo \subseteq FileNames /\ \A a \in push.todo : a = TarName(a.group, "straggle")
    BY <1>1, <1>3, PushFields DEF Course, OpenLogs, Packing
  <2> QED BY <1>4, <2>1, <2>2
<1> HIDE DEF todo
<1>6. /\ push' \in PushRecords /\ push'.pc = "loop"
      /\ push'.target = push.target /\ push'.started = push.started /\ push'.todo = todo
  BY <1>3, <1>5 DEF PushRecords
<1>7. DOMAIN archives' \subseteq FileNames /\ archives' \in [DOMAIN archives' -> Contents]
  BY <1>1, Compressed DEF Others
<1>8. Shapes' /\ Others'
  BY <1>1, <1>2, <1>6, <1>7 DEF Shapes, Others
<1>9. Course'
  BY <1>1, <1>2, <1>5, <1>6 DEF Course, OpenLogs, Packing
<1> QED BY <1>8, <1>9

\* scp of the pusher: a file of the list arrives, or what is there is spoiled.
Pushed(a) ==
    /\ push.pc = "scp" /\ a \in push.todo
    /\ DOMAIN daily' = DOMAIN daily \cup {a}
    /\ daily'[a] = Received(archives[a])
    /\ \A b \in DOMAIN daily \ {a} : daily'[b] = daily[b]
    /\ push' = [push EXCEPT !.pc = "unlink", !.archive = a]
    /\ UNCHANGED trouble
NotPushed(a) ==
    /\ push.pc = "scp" /\ a \in push.todo
    /\ \/ daily' = daily
       \/ /\ DOMAIN daily' = DOMAIN daily \cup {a}
          /\ daily'[a] = Received({})
          /\ \A b \in DOMAIN daily \ {a} : daily'[b] = daily[b]
    /\ push' = [push EXCEPT !.todo = @ \ {a}, !.failed = TRUE]
    /\ Fault /\ UNCHANGED mishaps

\* A file put into a directory.
PutInto(new, old, a, v) ==
    /\ DOMAIN new = DOMAIN old \cup {a}
    /\ new[a] = v
    /\ \A b \in DOMAIN old \ {a} : new[b] = old[b]

\* With puts a file into a directory.
LEMMA WithPuts ==
    ASSUME NEW S, NEW f, f \in [DOMAIN f -> S], NEW a, NEW v \in S
    PROVE  /\ PutInto(With(f, a, v), f, a, v)
           /\ With(f, a, v) \in [DOMAIN With(f, a, v) -> S]
BY DEF With, PutInto

\* Scp is one of the two.
LEMMA ScpCases ==
    ASSUME Basic, Scp
    PROVE  /\ UNCHANGED <<now, zone, changed, slow, early, begun, writing, logs, archives, stored, moving>>
           /\ daily' \in [DOMAIN daily' -> Receipts]
           /\ \E a \in push.todo : Pushed(a) \/ NotPushed(a)
<1>1. UNCHANGED <<now, zone, changed, slow, early, begun, writing, logs, archives, stored, moving>>
  BY DEF Scp, clock, monitor, timing
<1>2. /\ daily \in [DOMAIN daily -> Receipts]
      /\ archives \in [DOMAIN archives -> Contents]
      /\ push.todo \subseteq DOMAIN archives /\ push.pc = "scp"
      /\ now \in Times
  BY DEF Basic, Shapes, Course, Scp, TypeOK
<1>3. {} \in Contents
  BY DEF Contents
<1>4. \A c \in Contents : Received(c) \in Receipts
  BY <1>2 DEF Received, Receipts
<1>5. PICK a \in push.todo :
        \/ /\ daily' = With(daily, a, Received(archives[a]))
           /\ push' = [push EXCEPT !.pc = "unlink", !.archive = a]
           /\ UNCHANGED trouble
        \/ /\ Fault /\ UNCHANGED mishaps
           /\ daily' \in {daily, With(daily, a, Received({}))}
           /\ push' = [push EXCEPT !.todo = @ \ {a}, !.failed = TRUE]
  BY DEF Scp, Copied, Spoiled
<1>6. archives[a] \in Contents
  BY <1>2
<1>7. ASSUME NEW v \in Receipts, daily' = With(daily, a, v)
      PROVE  PutInto(daily', daily, a, v) /\ daily' \in [DOMAIN daily' -> Receipts]
  BY <1>2, <1>7, WithPuts
<1>8. CASE daily' = With(daily, a, Received(archives[a]))
           /\ push' = [push EXCEPT !.pc = "unlink", !.archive = a]
           /\ UNCHANGED trouble
  <2>1. PutInto(daily', daily, a, Received(archives[a])) /\ daily' \in [DOMAIN daily' -> Receipts]
    BY <1>4, <1>6, <1>7, <1>8
  <2>2. Pushed(a)
    BY <1>2, <1>8, <2>1 DEF Pushed, PutInto
  <2> QED BY <1>1, <2>1, <2>2
<1>9. CASE /\ Fault /\ UNCHANGED mishaps
           /\ daily' \in {daily, With(daily, a, Received({}))}
           /\ push' = [push EXCEPT !.todo = @ \ {a}, !.failed = TRUE]
  <2>1. \/ daily' = daily
        \/ PutInto(daily', daily, a, Received({})) /\ daily' \in [DOMAIN daily' -> Receipts]
    BY <1>3, <1>4, <1>7, <1>9
  <2>2. NotPushed(a)
    BY <1>2, <1>9, <2>1 DEF NotPushed, PutInto
  <2> QED BY <1>1, <1>2, <2>1, <2>2
<1> QED BY <1>5, <1>8, <1>9

\* The copies of archives have types, and the list gets shorter.
LEMMA BasicScp ==
    ASSUME Basic, Scp
    PROVE  Others' /\ Shapes' /\ Course'
<1>1. Others /\ Shapes /\ Course
  BY TypeParts DEF Basic
<1>2. /\ UNCHANGED <<now, zone, changed, slow, early, begun, writing, logs, archives, stored, moving>>
      /\ daily' \in [DOMAIN daily' -> Receipts]
  BY ScpCases
<1>3. PICK a \in push.todo : Pushed(a) \/ NotPushed(a)
  BY ScpCases
<1>4. /\ push \in PushRecords /\ push.pc = "scp" /\ a \in DOMAIN archives /\ a \in FileNames
      /\ push.todo \subseteq DOMAIN archives /\ (~push.failed => DOMAIN archives \subseteq push.todo)
  BY <1>1, <1>3 DEF Shapes, Course, Others, Pushed, NotPushed
<1>5. /\ DOMAIN daily \subseteq DOMAIN daily' /\ DOMAIN daily' \subseteq DOMAIN daily \cup {a}
      /\ faults' \in 0 .. MaxFaults /\ mishaps' = mishaps
  <2>1. faults \in 0 .. MaxFaults
    BY <1>1 DEF Others
  <2> QED BY <1>3, <2>1 DEF Pushed, NotPushed, Fault, trouble
<1>6. /\ push' \in PushRecords
      /\ push'.target = push.target /\ push'.started = push.started
      /\ \/ push'.pc = "unlink" /\ push'.archive = a /\ push'.todo = push.todo
            /\ push'.failed = push.failed
         \/ push'.pc = "scp" /\ push'.todo = push.todo \ {a} /\ push'.failed
  BY <1>3, <1>4 DEF Pushed, NotPushed, PushRecords
<1>7. Shapes' /\ Others'
  BY <1>1, <1>2, <1>4, <1>5, <1>6 DEF Shapes, Others
<1>8. Course'
  BY <1>1, <1>2, <1>3, <1>4, <1>5, <1>6 DEF Course, OpenLogs, Packing
<1> QED BY <1>7, <1>8

\* The archive goes, and nothing else does.
LEMMA BasicUnlink ==
    ASSUME Basic, Unlink
    PROVE  /\ Others' /\ Shapes' /\ Course'
           /\ DOMAIN archives' = DOMAIN archives \ {push.archive}
           /\ \A a \in DOMAIN archives' : archives'[a] = archives[a]
<1>1. Others /\ Shapes /\ Course
  BY TypeParts DEF Basic
<1>2. UNCHANGED <<now, zone, changed, slow, early, begun, writing, logs, daily, stored, moving, faults, mishaps>>
  BY DEF Unlink, clock, monitor, timing, trouble
<1>3. push \in PushRecords /\ push.pc = "unlink"
      /\ push' = [push EXCEPT !.pc = "scp", !.todo = @ \ {push.archive}]
      /\ archives' = Without(archives, push.archive)
  BY <1>1 DEF Shapes, Unlink
<1>4. /\ DOMAIN archives' = DOMAIN archives \ {push.archive}
      /\ \A a \in DOMAIN archives' : archives'[a] = archives[a]
      /\ archives' \in [DOMAIN archives' -> Contents]
  <2>1. archives \in [DOMAIN archives -> Contents]
    BY <1>1 DEF Shapes
  <2> DEFINE p == push.archive
  <2> HIDE DEF p
  <2>2. /\ DOMAIN Without(archives, p) = DOMAIN archives \ {p}
        /\ \A a \in DOMAIN archives \ {p} : Without(archives, p)[a] = archives[a]
        /\ Without(archives, p) \in [DOMAIN Without(archives, p) -> Contents]
    BY <2>1 DEF Without
  <2>3. archives' = Without(archives, p)
    BY <1>3 DEF p
  <2> QED BY <2>2, <2>3 DEF p
<1>5. /\ push' \in PushRecords /\ push'.pc = "scp" /\ push'.todo = push.todo \ {push.archive}
      /\ push'.target = push.target /\ push'.started = push.started /\ push'.failed = push.failed
  BY <1>3 DEF PushRecords
<1>6. Shapes' /\ Others'
  BY <1>1, <1>2, <1>4, <1>5 DEF Shapes, Others
<1>7. Course'
  BY <1>1, <1>2, <1>3, <1>4, <1>5 DEF Course, OpenLogs, Packing
<1> QED BY <1>4, <1>6, <1>7

\* The archiver: a file arrives at the archival host, or what is there is
\* spoiled; the file is removed.
Archived(a, c) ==
    /\ a \in DOMAIN daily
    /\ PutInto(stored', stored, a, c)
    /\ \/ c = daily[a].content /\ moving' = a
       \/ c = {} /\ moving' = moving

\* ArchiverScp is one of the two, or changes nothing.
LEMMA ArchiverScpCases ==
    ASSUME Basic, ArchiverScp
    PROVE  /\ UNCHANGED <<now, zone, changed, slow, early, begun, writing, logs, archives, daily, push, mishaps>>
           /\ stored' \in [DOMAIN stored' -> Contents]
           /\ faults' \in 0 .. MaxFaults
           /\ \/ stored' = stored /\ moving' = moving
              \/ \E a \in DOMAIN daily, c \in Contents : Archived(a, c)
<1>1. UNCHANGED <<now, zone, changed, slow, early, begun, writing, logs, archives, daily, push, mishaps>>
  BY DEF ArchiverScp, clock, monitor, timing
<1>2. /\ daily \in [DOMAIN daily -> Receipts] /\ stored \in [DOMAIN stored -> Contents]
      /\ {} \in Contents
  BY DEF Basic, Shapes, Contents
<1>3. PICK a \in DOMAIN daily :
        \/ /\ stored' = With(stored, a, daily[a].content)
           /\ moving' = a
           /\ UNCHANGED faults
        \/ /\ Fault
           /\ stored' \in {stored, With(stored, a, {})}
           /\ UNCHANGED moving
  BY DEF ArchiverScp, Copied, Spoiled
<1>4. daily[a].content \in Contents
  BY <1>2 DEF Receipts
<1>5. faults' \in 0 .. MaxFaults
  <2>1. faults \in 0 .. MaxFaults
    BY DEF Basic, TypeOK
  <2> QED BY <1>3, <2>1 DEF Fault
<1>6. ASSUME NEW v \in Contents, stored' = With(stored, a, v)
      PROVE  PutInto(stored', stored, a, v) /\ stored' \in [DOMAIN stored' -> Contents]
  BY <1>2, <1>6, WithPuts
<1>7. CASE stored' = With(stored, a, daily[a].content) /\ moving' = a
  <2>1. PutInto(stored', stored, a, daily[a].content) /\ stored' \in [DOMAIN stored' -> Contents]
    BY <1>4, <1>6, <1>7
  <2>2. Archived(a, daily[a].content)
    BY <1>7, <2>1 DEF Archived
  <2> QED BY <1>1, <1>4, <1>5, <2>1, <2>2
<1>8. CASE stored' = With(stored, a, {}) /\ moving' = moving
  BY <1>1, <1>2, <1>5, <1>6, <1>8 DEF Archived
<1>9. CASE stored' = stored /\ moving' = moving
  BY <1>1, <1>2, <1>5, <1>9
<1> QED BY <1>3, <1>7, <1>8, <1>9

\* The file that is being moved is on both hosts.
LEMMA BasicArchiverScp ==
    ASSUME Basic, ArchiverScp
    PROVE  Others' /\ Shapes' /\ Course'
<1>1. Others /\ Shapes /\ Course
  BY TypeParts DEF Basic
<1>2. /\ UNCHANGED <<now, zone, changed, slow, early, begun, writing, logs, archives, daily, push, mishaps>>
      /\ stored' \in [DOMAIN stored' -> Contents]
      /\ faults' \in 0 .. MaxFaults
  BY ArchiverScpCases
<1>3. CASE stored' = stored /\ moving' = moving
  BY <1>1, <1>2, <1>3 DEF Shapes, Others, Course, OpenLogs, Packing
<1>4. ASSUME NEW a \in DOMAIN daily, NEW c \in Contents, Archived(a, c)
      PROVE  Others' /\ Shapes' /\ Course'
  <2>1. DOMAIN stored' = DOMAIN stored \cup {a} /\ moving' \in {moving, a}
    BY <1>4 DEF Archived, PutInto
  <2>2. a \in FileNames
    BY <1>1 DEF Others
  <2>3. Others' /\ Shapes'
    BY <1>1, <1>2, <2>1, <2>2 DEF Shapes, Others
  <2>4. Course'
    BY <1>1, <1>2, <2>1 DEF Course, OpenLogs, Packing
  <2> QED BY <2>3, <2>4
<1> QED BY <1>3, <1>4, ArchiverScpCases

\* The file goes, and nothing else does.
LEMMA BasicArchiverRemove ==
    ASSUME Basic, ArchiverRemove
    PROVE  /\ Others' /\ Shapes' /\ Course'
           /\ DOMAIN daily' = DOMAIN daily \ {moving}
           /\ \A a \in DOMAIN daily' : daily'[a] = daily[a]
           /\ moving \in DOMAIN stored
<1>1. Others /\ Shapes /\ Course
  BY TypeParts DEF Basic
<1>2. UNCHANGED <<now, zone, changed, slow, early, begun, writing, logs, archives, stored, push, faults>>
  BY DEF ArchiverRemove, clock, monitor, timing
<1>3. daily' = Without(daily, moving) /\ moving' = NoFile /\ moving # NoFile
  BY DEF ArchiverRemove
<1>4. /\ DOMAIN daily' = DOMAIN daily \ {moving}
      /\ \A a \in DOMAIN daily' : daily'[a] = daily[a]
      /\ daily' \in [DOMAIN daily' -> Receipts]
  <2>1. daily \in [DOMAIN daily -> Receipts]
    BY <1>1 DEF Shapes
  <2> QED BY <1>3, <2>1, WithoutFile, WithoutShape
<1>5. mishaps' \subseteq {"tar", "clock", "overtaken"}
  BY <1>1 DEF ArchiverRemove, Others
<1>6. Shapes' /\ Others'
  BY <1>1, <1>2, <1>3, <1>4, <1>5, NameTypes DEF Shapes, Others
<1>7. Course' /\ moving \in DOMAIN stored
  BY <1>1, <1>2, <1>3 DEF Course, OpenLogs, Packing
<1> QED BY <1>4, <1>6, <1>7

\* Types and course at the start.
LEMMA BasicInit == Init => Basic
<1> SUFFICES ASSUME Init PROVE Basic
  OBVIOUS
<1>1. /\ NoFiles \in [DOMAIN NoFiles -> Contents] /\ NoFiles \in [DOMAIN NoFiles -> Receipts]
      /\ DOMAIN NoFiles = {}
  BY DEF NoFiles
<1>2. 1 \in Times /\ 2 \in Times /\ Group(-1) - zone \in Groups /\ Group(1) \in Int
  <2>1. 1 \in Times /\ 2 \in Times /\ zone \in Zones
    BY DEF Times, Init
  <2> QED BY <2>1, GroupRange, GroupType
<1>3. push \in PushRecords /\ push.pc = "idle" /\ push.target = Group(-1) - zone
      /\ push.started = 1
  BY <1>2, NameTypes DEF Init, PushRecords
<1>4. Shapes
  BY <1>1, <1>3 DEF Init, Shapes
<1>5. Others
  <2>1. /\ now = 2 /\ zone \in Zones /\ changed = FALSE /\ begun = {} /\ writing = {} /\ logs = {}
        /\ archives = NoFiles /\ daily = NoFiles /\ stored = NoFiles /\ moving = NoFile
        /\ faults = 0 /\ mishaps = {} /\ slow = {} /\ early = Group(1) .. (Group(-1) - zone)
    BY DEF Init
  <2>2. 0 \in 0 .. MaxFaults /\ NoFile \in FileNames /\ {} \subseteq Int
    BY NameTypes
  <2>3. early \subseteq Int
    BY <1>2, <2>1, GroupRange
  <2> QED BY <1>1, <1>2, <2>1, <2>2, <2>3 DEF Others
<1>6. Course
  <2>1. Group(push.started) .. push.target \subseteq early /\ push.started <= now
        /\ push.started % 3 = 1
    BY <1>3 DEF Init
  <2> QED BY <1>1, <1>3, <2>1 DEF Init, Course, OpenLogs, Packing
<1> QED BY <1>4, <1>5, <1>6, TypeParts DEF Basic

\* Every step keeps the types and the course.
LEMMA BasicNext ==
    ASSUME Basic, [Next]_vars
    PROVE  Basic'
<1>1. (Others /\ Shapes => TypeOK)'
  BY TypeParts, PTL
<1>2. CASE UNCHANGED vars
  BY <1>2 DEF Basic, vars, clock, monitor, trouble, timing, TypeOK, Shapes, Course, OpenLogs, Packing
<1>3. CASE BeginLog \/ EndLog \/ Tick \/ ChangeZone
  BY <1>1, <1>3, BasicMonitor DEF Basic
<1>4. CASE Start
  BY <1>1, <1>4, BasicStart DEF Basic
<1>5. CASE Stragglers \/ ListArchives \/ Done \/ Kill
  BY <1>1, <1>5, BasicLoop DEF Basic
<1>6. CASE Tar
  BY <1>1, <1>6, BasicTar DEF Basic
<1>7. CASE RemoveLogs
  BY <1>1, <1>7, BasicRemoveLogs DEF Basic
<1>8. CASE Compress
  BY <1>1, <1>8, BasicCompress DEF Basic
<1>9. CASE Scp
  BY <1>1, <1>9, BasicScp DEF Basic
<1>10. CASE Unlink
  BY <1>1, <1>10, BasicUnlink DEF Basic
<1>11. CASE ArchiverScp
  BY <1>1, <1>11, BasicArchiverScp DEF Basic
<1>12. CASE ArchiverRemove
  BY <1>1, <1>12, BasicArchiverRemove DEF Basic
<1> QED BY <1>2, <1>3, <1>4, <1>5, <1>6, <1>7, <1>8, <1>9, <1>10, <1>11, <1>12 DEF Next

\* The directories hold archives of groups by their names, and the shell
\* variables of the pusher stay in range, whatever fails.
THEOREM Typing == Spec => []TypeOK
<1>1. Init => Basic
  BY BasicInit
<1>2. Basic /\ [Next]_vars => Basic'
  BY BasicNext
<1>3. Basic => TypeOK
  BY DEF Basic
<1> QED BY <1>1, <1>2, <1>3, PTL DEF Spec

-----------------------------------------------------------------------------
(* Only complete logs are archived.                                        *)

\* A log in an archive is whole, or it was slow or collected early.
Sound(c) == c.whole \/ c.log \in slow \/ Group(c.log) \in early

\* OnlyComplete, directory by directory.
Complete ==
    /\ \A a \in DOMAIN archives : \A c \in archives[a] : Sound(c)
    /\ \A a \in DOMAIN daily : \A c \in daily[a].content : Sound(c)
    /\ \A a \in DOMAIN stored : \A c \in stored[a] : Sound(c)

\* The parts make up the whole.
LEMMA CompleteParts == OnlyComplete <=> Complete
BY DEF OnlyComplete, Complete, Sound, In, InDaily

\* tar finds an open log only if it is slow or of an early group.
LEMMA SnapshotWhole ==
    ASSUME Basic, push.pc = "tar"
    PROVE  /\ \A c \in Snapshot(push.archive.group) : Sound(c)
           /\ \A l \in logs : Group(l) = push.archive.group =>
                l \notin writing \/ l \in slow \/ Group(l) \in early
<1>1. push.archive.group <= push.target
  BY DEF Basic, Course, Packing
<1>2. \A l \in writing : Group(l) <= push.target => l \in slow \/ Group(l) \in early
  BY DEF Basic, Course, OpenLogs
<1>3. \A l \in logs : Group(l) = push.archive.group =>
        l \notin writing \/ l \in slow \/ Group(l) \in early
  BY <1>1, <1>2
<1>4. ASSUME NEW c \in Snapshot(push.archive.group) PROVE Sound(c)
  <2>1. PICK l \in logs : Group(l) = push.archive.group
                          /\ c = [log |-> l, whole |-> l \notin writing]
    BY DEF Snapshot
  <2>2. c.log = l /\ c.whole = (l \notin writing)
    BY <2>1
  <2>3. l \notin writing \/ l \in slow \/ Group(l) \in early
    BY <1>3, <2>1
  <2>4. CASE l \notin writing
    BY <2>2, <2>4 DEF Sound
  <2>5. CASE l \in slow \/ Group(l) \in early
    BY <2>2, <2>5 DEF Sound
  <2> QED BY <2>3, <2>4, <2>5
<1> QED BY <1>3, <1>4

\* What has happened to logs and groups is not forgotten.
LEMMA HistoryGrows ==
    ASSUME [Next]_vars
    PROVE  slow \subseteq slow' /\ early \subseteq early' /\ mishaps \subseteq mishaps'
<1>1. CASE UNCHANGED vars
  BY <1>1 DEF vars, trouble, timing
<1>2. CASE Next
  <2>1. CASE Tick \/ Start
    BY <2>1 DEF Tick, Start, trouble
  <2>2. CASE ChangeZone \/ Tar \/ Scp \/ ArchiverRemove
    BY <2>2 DEF ChangeZone, Tar, Scp, ArchiverRemove, trouble, timing
  <2>3. CASE BeginLog \/ EndLog \/ RemoveLogs \/ Compress \/ Stragglers
             \/ ListArchives \/ Unlink \/ Done \/ Kill \/ ArchiverScp
    BY <2>3 DEF BeginLog, EndLog, RemoveLogs, Compress, Stragglers, ListArchives, Unlink, Done,
                Kill, ArchiverScp, trouble, timing
  <2> QED BY <1>2, <2>1, <2>2, <2>3 DEF Next
<1> QED BY <1>1, <1>2

\* Every other step copies contents, or empties them.
LEMMA CompleteNext ==
    ASSUME Basic, Complete, [Next]_vars
    PROVE  Complete'
<1>0. \A c : Sound(c) => Sound(c)'
  BY HistoryGrows DEF Sound, Group
<1>1. CASE UNCHANGED vars
  BY <1>0, <1>1 DEF Complete, vars
<1>2. CASE BeginLog \/ EndLog \/ Tick \/ ChangeZone \/ Start \/ RemoveLogs
           \/ Stragglers \/ ListArchives \/ Done \/ Kill
  <2>1. UNCHANGED <<archives, daily, stored>>
    BY <1>2 DEF BeginLog, EndLog, Tick, ChangeZone, Start, RemoveLogs, Stragglers,
                ListArchives, Done, Kill
  <2> QED BY <1>0, <2>1 DEF Complete
<1>3. CASE Tar
  <2>1. UNCHANGED <<daily, stored>> /\ push.pc = "tar"
    BY <1>3 DEF Tar
  <2>2. PICK s : archives' = With(archives, push.archive, s) /\ \A c \in s : Sound(c)
    <3>1. CASE archives' = With(archives, push.archive, {})
      BY <3>1
    <3>2. CASE archives' = With(archives, push.archive, Snapshot(push.archive.group))
      BY <2>1, <3>2, SnapshotWhole
    <3> QED BY <1>3, <3>1, <3>2 DEF Tar
  <2>3. \A a \in DOMAIN archives' : \A c \in archives'[a] : Sound(c)'
    BY <1>0, <2>2 DEF Complete, With
  <2> QED BY <1>0, <2>1, <2>3 DEF Complete
<1>4. CASE Compress
  <2>1. UNCHANGED <<daily, stored>>
    BY <1>4 DEF Compress
  <2>2. \A a \in DOMAIN archives' : \E b \in DOMAIN archives : archives'[a] = archives[b]
    BY <1>4, Compressed
  <2> QED BY <1>0, <2>1, <2>2 DEF Complete
<1>5. CASE Scp
  <2>1. UNCHANGED <<archives, stored>>
    BY <1>5, ScpCases
  <2>2. PICK a \in push.todo : Pushed(a) \/ NotPushed(a)
    BY <1>5, ScpCases
  <2>3. a \in DOMAIN archives
    BY <2>2 DEF Basic, Course, Pushed, NotPushed
  <2>4. \A b \in DOMAIN daily' : (b \in DOMAIN daily /\ daily'[b] = daily[b])
          \/ daily'[b].content = archives[a] \/ daily'[b].content = {}
    BY <2>2 DEF Pushed, NotPushed, Received
  <2> QED BY <1>0, <2>1, <2>3, <2>4 DEF Complete
<1>6. CASE Unlink
  <2>1. UNCHANGED <<daily, stored>>
    BY <1>6 DEF Unlink
  <2> QED BY <1>0, <1>6, <2>1, BasicUnlink DEF Complete
<1>7. CASE ArchiverScp
  <2>1. UNCHANGED <<archives, daily>>
    BY <1>7, ArchiverScpCases
  <2>2. \A b \in DOMAIN stored' : (b \in DOMAIN stored /\ stored'[b] = stored[b])
          \/ (\E a \in DOMAIN daily : stored'[b] = daily[a].content) \/ stored'[b] = {}
    BY <1>7, ArchiverScpCases DEF Archived, PutInto
  <2> QED BY <1>0, <2>1, <2>2 DEF Complete
<1>8. CASE ArchiverRemove
  <2>1. UNCHANGED <<archives, stored>>
    BY <1>8 DEF ArchiverRemove
  <2> QED BY <1>0, <1>8, <2>1, BasicArchiverRemove DEF Complete
<1> QED BY <1>1, <1>2, <1>3, <1>4, <1>5, <1>6, <1>7, <1>8 DEF Next

\* No archive, wherever it is, holds a log that was open when tar read it,
\* unless the log was open a minute after the end of its group or local time
\* was ahead of UTC: the start at minute 01 and the five minutes that the
\* pusher goes back are enough, in whatever order the steps come.
THEOREM ArchivesWhole == Spec => []OnlyComplete
<1>1. Init => Basic /\ Complete
  <2>1. DOMAIN NoFiles = {}
    BY DEF NoFiles
  <2> QED BY <2>1, BasicInit DEF Init, Complete
<1>2. (Basic /\ Complete) /\ [Next]_vars => (Basic /\ Complete)'
  BY BasicNext, CompleteNext
<1>3. Basic /\ Complete => OnlyComplete
  BY CompleteParts
<1> QED BY <1>1, <1>2, <1>3, PTL DEF Spec

-----------------------------------------------------------------------------
(* Nothing is lost while nothing has gone wrong.                           *)

\* A log is somewhere: not Lost, directory by directory.
Somewhere(l) ==
    \/ l \in logs
    \/ \E a \in DOMAIN archives : Whole(l) \in archives[a]
    \/ \E a \in DOMAIN daily : Whole(l) \in daily[a].content
    \/ \E a \in DOMAIN stored : Whole(l) \in stored[a]

\* The parts make up the whole.
LEMMA LostParts == \A l : ~Lost(l) <=> Somewhere(l)
BY DEF Lost, Somewhere, In, InDaily

Kept == Names /\ Progress /\ Copies /\ \A l \in begun \ slow : Somewhere(l)

\* Groups and their numbers.
LEMMA Numbers ==
    ASSUME Basic
    PROVE  /\ now \in Int /\ Group(now) \in Int
           /\ \A l \in begun : l \in Int /\ Group(l) \in Int
           /\ logs \subseteq begun
           /\ \A a \in FileNames : a.group \in Int
           /\ DOMAIN archives \subseteq FileNames /\ Remote \subseteq FileNames
           /\ push.target \in Int /\ push.started \in Nat
           /\ push.archive \in FileNames /\ push.todo \subseteq FileNames
           /\ \A l \in Int : early = {} /\ Group(push.started) <= Group(l) =>
                push.target < Group(l)
<1>1. Others /\ Shapes
  BY TypeParts DEF Basic
<1>2. now \in Int /\ logs \subseteq begun /\ \A l \in begun : l \in Int
  BY <1>1, GroupRange DEF Others
<1>3. \A a \in FileNames : a.group \in Int
  BY GroupRange DEF FileNames
<1>4. DOMAIN archives \subseteq FileNames /\ Remote \subseteq FileNames
  BY <1>1 DEF Others, Remote
<1>5. ASSUME NEW l \in Int, early = {}, Group(push.started) <= Group(l)
      PROVE  push.target < Group(l)
  <2>1. Group(push.started) \in Int /\ Group(l) \in Int /\ push.target \in Int
    BY <1>1, GroupType, PushFields
  <2>2. Group(push.started) .. push.target = {}
    BY <1>5 DEF Basic, Course
  <2>3. ~(Group(push.started) <= push.target)
    BY <2>1, <2>2
  <2> QED BY <1>5, <2>1, <2>3
<1> QED BY <1>1, <1>2, <1>3, <1>4, <1>5, GroupType, PushFields

\* A new log is of a group that no archive is of.
LEMMA KeptBeginLog ==
    ASSUME Basic, Kept, BeginLog, early' = {}
    PROVE  Kept'
<1>1. /\ UNCHANGED <<now, zone, changed, slow, early, archives, daily, stored, push>>
      /\ \E l \in LogNames : /\ begun' = begun \cup {l} /\ logs' = logs \cup {l}
                             /\ Group(push.started) <= Group(l)
  BY NewLog DEF BeginLog, clock, timing
<1>2. PICK new \in LogNames : /\ begun' = begun \cup {new} /\ logs' = logs \cup {new}
                              /\ Group(push.started) <= Group(new)
  BY <1>1
<1>3. push.target < Group(new) /\ Group(new) \in Int /\ push.target \in Int
  <2>1. new \in Int
    BY GroupRange
  <2> QED BY <1>1, <1>2, <1>2, <2>1, Numbers, GroupType
<1>3a. \A a \in FileNames : a.group <= push.target => a.group # Group(new)
  BY <1>3, Numbers
<1>4. Names'
  <2>1. \A a \in Remote : a.group # Group(new)
    BY <1>3a, Numbers DEF Kept, Names
  <2> QED BY <1>1, <1>2, <2>1 DEF Kept, Names, Remote, Packing
<1>5. Progress'
  <2>1. push.pc = "rm" => push.archive.group # Group(new)
    BY <1>3a, Numbers DEF Basic, Course, OpenLogs, Packing
  <2>2. \A a \in DOMAIN archives : a.group # Group(new)
    BY <1>3a, Numbers DEF Kept, Names
  <2>3. Group(new) # push.target
    BY <1>3
  <2>4. Progress
    BY DEF Kept
  <2> HIDE DEF Kept
  <2>5. Straggling'
    BY <1>1, <1>2, <2>4 DEF Progress, Straggling, First
  <2>6. Archiving'
    BY <1>1, <1>2, <2>1, <2>4 DEF Progress, Archiving, First, Whole
  <2>7. Tars'
    BY <1>1, <1>2, <2>2, <2>4 DEF Progress, Tars
  <2>8. Remaining'
    BY <1>1, <1>2, <1>3, <2>3, <2>4 DEF Progress, Remaining, Packing, First, OfTodo
  <2> QED BY <2>5, <2>6, <2>7, <2>8 DEF Progress
<1>6. Copies'
  BY <1>1 DEF Kept, Copies
<1>7. \A l \in begun' \ slow' : Somewhere(l)'
  BY <1>1, <1>2 DEF Kept, Somewhere
<1> QED BY <1>4, <1>5, <1>6, <1>7 DEF Kept

\* The steps that touch neither the logs nor the directories nor the pusher.
LEMMA KeptAside ==
    ASSUME Basic, Kept, EndLog \/ Tick \/ ChangeZone, mishaps' = {}
    PROVE  Kept'
<1>1. UNCHANGED <<begun, logs, archives, daily, stored, push>> /\ slow \subseteq slow'
  BY DEF EndLog, Tick, ChangeZone, monitor, timing
<1>2. zone' <= zone /\ zone \in Int /\ zone' \in Int
  <2>1. zone \in Int
    BY DEF Basic, TypeOK
  <2>2. CASE ChangeZone
    <3>1. zone' \in Int /\ ~(zone' > zone)
      BY <2>2 DEF ChangeZone
    <3> QED BY <2>1, <3>1
  <2>3. CASE zone' = zone
    BY <2>1, <2>3
  <2> QED BY <2>2, <2>3 DEF EndLog, Tick, clock
<1>3. push.target <= Group(push.started - 2) - zone'
  <2>1. push.target <= Group(push.started - 2) - zone
    BY DEF Kept, Names
  <2>2. push.target \in Int /\ Group(push.started - 2) \in Int
    BY Numbers, GroupType
  <2> QED BY <1>2, <2>1, <2>2
<1>4. Names'
  BY <1>1, <1>3 DEF Kept, Names, Remote, Packing
<1>5. Progress'
  BY <1>1 DEF Kept, Progress, Straggling, Archiving, Tars, Remaining, Packing, First, OfTodo
<1>6. Copies' /\ \A l \in begun' \ slow' : Somewhere(l)'
  BY <1>1 DEF Kept, Copies, Somewhere
<1> QED BY <1>4, <1>5, <1>6 DEF Kept

\* A run has a target of its own, later than any before.
LEMMA KeptStart ==
    ASSUME Basic, Kept, Start
    PROVE  Kept'
<1>1. UNCHANGED <<now, zone, slow, begun, logs, archives, daily, stored>>
  BY DEF Start, clock, monitor, timing
<1>2. now % 3 = 1 /\ now > push.started
  BY DEF Start, Scheduled, FirstMinuteOver
<1>2a. push' = [pc |-> "tar", started |-> now, target |-> ArchiveTime,
                archive |-> TarName(ArchiveTime, ""), todo |-> {}, failed |-> FALSE]
  BY DEF Start
<1>3. /\ push'.pc = "tar" /\ push'.started = now /\ push'.target = ArchiveTime
      /\ push'.archive = TarName(ArchiveTime, "")
  BY <1>2a
<1>4. zone \in Int /\ ArchiveTime \in Int /\ ArchiveTime = Group(now - 2) - zone
  <2>1. zone \in Int
    BY DEF Basic, TypeOK
  <2>2. Group(now - 2) \in Int
    BY Numbers, GroupType
  <2> QED BY <2>1, <2>2 DEF ArchiveTime
<1>5. push.target < ArchiveTime
  <2>1. push.target <= Group(push.started - 2) - zone
    BY DEF Kept, Names
  <2>2. push.started % 3 = 1
    BY DEF Basic, Course
  <2>3. push.started \in Int /\ now \in Int /\ push.target \in Int /\ push.started < now
    BY <1>2, Numbers
  <2>4. Group(push.started - 2) < Group(now - 2)
    BY <1>2, <2>2, <2>3, GroupNext
  <2>5. Group(push.started - 2) \in Int /\ Group(now - 2) \in Int
    BY <2>3, GroupType
  <2> QED BY <1>4, <2>1, <2>3, <2>4, <2>5
<1>6. \A a \in DOMAIN archives \cup Remote : a.group < ArchiveTime /\ a.group <= ArchiveTime
  <2>1. \A a \in DOMAIN archives \cup Remote : a.group <= push.target /\ a.group \in Int
    BY Numbers DEF Kept, Names
  <2> QED BY <1>4, <1>5, <2>1, Numbers
<1>7. /\ TarName(ArchiveTime, "").group = ArchiveTime /\ TarName(ArchiveTime, "").kind = ""
      /\ Zipped(TarName(ArchiveTime, "")).group = ArchiveTime
  BY DEF TarName, Zipped
<1>8. ~(ArchiveTime < ArchiveTime)
  BY <1>4
<1>9. TarName(ArchiveTime, "") \notin Remote /\ Zipped(TarName(ArchiveTime, "")) \notin Remote
  BY <1>6, <1>7, <1>8
<1>10. Names'
  <2>1. (push.target <= Group(push.started - 2) - zone)'
    <3>1. ArchiveTime <= Group(now - 2) - zone
      BY <1>4
    <3>2. Group(push.started - 2)' = Group(now - 2)
      BY <1>3 DEF Group
    <3> QED BY <1>1, <1>3, <3>1, <3>2
  <2>2. Remote' = Remote
    BY <1>1 DEF Remote
  <2>3. \A a \in Remote : \A l \in logs : Group(l) # a.group
    BY DEF Kept, Names
  <2> QED BY <1>1, <1>3, <1>6, <1>9, <2>1, <2>2, <2>3 DEF Names
<1>11. Progress'
  <2>1. First'
    BY <1>3, <1>7 DEF First
  <2> QED BY <1>1, <1>3, <2>1 DEF Kept, Progress, Straggling, Archiving, Tars, Remaining
<1>12. Copies' /\ \A l \in begun' \ slow' : Somewhere(l)'
  BY <1>1, <1>3 DEF Kept, Copies, Somewhere
<1> QED BY <1>10, <1>11, <1>12 DEF Kept

\* tar: an archive of the name is replaced only by one with as much in it.
LEMMA KeptTar ==
    ASSUME Basic, Kept, Tar, mishaps' = {}, early' = {}
    PROVE  Kept'
<1> DEFINE p == push.archive
           s == Snapshot(push.archive.group)
<1>1. UNCHANGED <<now, zone, slow, begun, logs, daily, stored>> /\ push.pc = "tar"
  BY DEF Tar, clock, monitor, timing
<1>2. archives' = With(archives, p, s)
  BY DEF Tar
<1>3. /\ push'.pc = "rm" /\ push'.archive = p /\ push'.target = push.target
      /\ push'.started = push.started /\ push'.todo = push.todo
  <2>1. push \in PushRecords /\ push' = [push EXCEPT !.pc = "rm"]
    BY DEF Basic, Shapes, Tar
  <2> QED BY <2>1 DEF PushRecords
<1>4. /\ \A c \in s : c.log \in logs /\ Group(c.log) = p.group
      /\ \A l \in logs \ slow : Group(l) = p.group => Whole(l) \in s
  <2>1. TypeOK
    BY DEF Basic
  <2>2. early = {}
    BY DEF Tar, timing
  <2> QED BY <1>1, <2>1, <2>2, SnapshotType, SnapshotWhole
<1> HIDE DEF s
<1>5. /\ DOMAIN archives' = DOMAIN archives \cup {p}
      /\ archives'[p] = s
      /\ \A a \in DOMAIN archives \ {p} : archives'[a] = archives[a]
  <2> HIDE DEF p
  <2> QED BY <1>2 DEF With
<1>6. p \notin Remote /\ Zipped(p) \notin Remote /\ p.group <= push.target
  BY <1>1 DEF Basic, Course, Kept, Names, Packing
<1>7. Names'
  <2>1. Remote' = Remote
    BY <1>1 DEF Remote
  <2> QED BY <1>1, <1>3, <1>5, <1>6, <2>1 DEF Kept, Names, Packing
<1>8. Progress'
  <2>1. Archiving'
    BY <1>1, <1>3, <1>4, <1>5 DEF Archiving, Whole
  <2>2. Tars'
    BY <1>1, <1>4, <1>5 DEF Kept, Progress, Tars
  <2>3. Remaining'
    BY <1>1, <1>3 DEF Kept, Progress, Remaining, Packing, First, OfTodo
  <2> QED BY <1>3, <2>1, <2>2, <2>3 DEF Progress, Straggling, Archiving
<1>9. Copies'
  BY <1>1, <1>3, <1>5, <1>6 DEF Kept, Copies, Remote
<1>10. \A l \in begun' \ slow' : Somewhere(l)'
  <2>1. p \in DOMAIN archives => \A c \in archives[p] : c.log \in logs
    <3> SUFFICES ASSUME p \in DOMAIN archives PROVE \A c \in archives[p] : c.log \in logs
      OBVIOUS
    <3>1. p.ext = "tar"
      BY <1>1 DEF Basic, Course, OpenLogs, Packing
    <3>2. ~First
      <4>1. p.group < push.target \/ ~First
        BY <1>1 DEF Kept, Names, First
      <4>2. First => p.group = push.target
        BY <1>1 DEF Basic, Course, OpenLogs, Packing, First
      <4> QED BY <4>1, <4>2, Numbers
    <3>3. \E l \in logs : Group(l) = p.group
      BY <1>1, <3>2 DEF Kept, Progress, Straggling, Archiving, Tars, Remaining
    <3> QED BY <3>1, <3>3 DEF Kept, Progress, Straggling, Archiving, Tars, Remaining
  <2>2. \A l : Whole(l).log = l
    BY DEF Whole
  <2>3. \A l \in begun \ slow : l \in logs
          \/ (\E a \in DOMAIN archives \ {p} : Whole(l) \in archives[a])
          \/ (\E a \in DOMAIN daily : Whole(l) \in daily[a].content)
          \/ (\E a \in DOMAIN stored : Whole(l) \in stored[a])
    BY <2>1, <2>2 DEF Kept, Somewhere
  <2>4. \A l \in begun' \ slow' : l \in logs'
          \/ (\E a \in DOMAIN archives' : Whole(l) \in archives'[a])
          \/ (\E a \in DOMAIN daily' : Whole(l) \in daily'[a].content)
          \/ (\E a \in DOMAIN stored' : Whole(l) \in stored'[a])
    BY <1>1, <1>5, <2>3
  <2> QED BY <2>4 DEF Somewhere, Whole
<1> QED BY <1>7, <1>8, <1>9, <1>10 DEF Kept

\* rm: every log it removes is in the archive.
LEMMA KeptRemoveLogs ==
    ASSUME Basic, Kept, RemoveLogs
    PROVE  Kept'
<1>1. /\ UNCHANGED <<now, zone, slow, begun, archives, daily, stored>> /\ push.pc = "rm"
      /\ logs' = {l \in logs : Group(l) # push.archive.group}
  BY DEF RemoveLogs, clock, monitor, timing
<1>2. /\ push'.pc = "bzip2" /\ push'.archive = push.archive /\ push'.target = push.target
      /\ push'.started = push.started /\ push'.todo = push.todo
  <2>1. push \in PushRecords /\ push' = [push EXCEPT !.pc = "bzip2"]
    BY DEF Basic, Shapes, RemoveLogs
  <2> QED BY <2>1 DEF PushRecords
<1>3. Names'
  <2>1. Remote' = Remote
    BY <1>1 DEF Remote
  <2> QED BY <1>1, <1>2, <2>1 DEF Kept, Names, Packing
<1>4. Progress'
  <2>1. First => push.archive.group = push.target
    BY <1>1 DEF Basic, Course, OpenLogs, Packing, First
  <2>2. Tars'
    BY <1>1 DEF Kept, Progress, Tars
  <2>3. Remaining'
    BY <1>1, <1>2, <2>1 DEF Kept, Progress, Remaining, Packing, First, OfTodo
  <2> QED BY <1>2, <2>2, <2>3 DEF Progress, Straggling, Archiving
<1>5. Copies'
  BY <1>1, <1>2 DEF Kept, Copies
<1>6. \A l \in begun' \ slow' : Somewhere(l)'
  <2>1. push.archive \in DOMAIN archives
    BY <1>1 DEF Basic, Course
  <2>2. \A l \in logs \ slow : Group(l) = push.archive.group => Whole(l) \in archives[push.archive]
    BY <1>1 DEF Kept, Progress, Straggling, Archiving, Tars, Remaining
  <2> QED BY <1>1, <2>1, <2>2 DEF Kept, Somewhere, Whole
<1> QED BY <1>3, <1>4, <1>5, <1>6 DEF Kept

\* bzip2: what is in the archive stays in one, under a name that is new.
LEMMA KeptCompress ==
    ASSUME Basic, Kept, Compress
    PROVE  Kept'
<1> DEFINE p == push.archive
           z == Zipped(push.archive)
<1>1. UNCHANGED <<now, zone, slow, begun, logs, daily, stored>> /\ push.pc = "bzip2"
  BY DEF Compress, clock, monitor, timing
<1>2. /\ push'.pc = "loop" /\ push'.archive = p /\ push'.target = push.target
      /\ push'.started = push.started
      /\ push'.todo = IF First THEN {TarName(Group(l), "straggle") : l \in logs} ELSE push.todo
  <2>1. push \in PushRecords
    BY DEF Basic, Shapes
  <2>2. push' = [push EXCEPT !.pc = "loop",
            !.todo = IF First THEN {TarName(Group(l), "straggle") : l \in logs} ELSE push.todo]
    BY DEF Compress, First
  <2> QED BY <2>1, <2>2 DEF PushRecords
<1>3. p \notin Remote /\ z \notin Remote /\ p.group <= push.target
      /\ z.group = p.group /\ z.ext = "bz2"
  <2>1. p \in FileNames
    BY Numbers
  <2> QED BY <1>1, <2>1, NameTypes DEF Basic, Course, Kept, Names, Packing
<1>4. /\ p \in DOMAIN archives
      /\ z # p
      /\ \/ archives' = archives
         \/ /\ z \notin DOMAIN archives
            /\ DOMAIN archives' = (DOMAIN archives \ {p}) \cup {z}
            /\ archives'[z] = archives[p]
            /\ \A a \in DOMAIN archives \ {p} : archives'[a] = archives[a]
  BY Compressed
<1> HIDE DEF p, z
<1>5. Names'
  <2>1. Remote' = Remote
    BY <1>1 DEF Remote
  <2> QED BY <1>1, <1>2, <1>3, <1>4, <2>1 DEF Kept, Names, Packing
<1>6. Progress'
  <2>1. Tars'
    BY <1>1, <1>3, <1>4 DEF Kept, Progress, Tars
  <2>2. \A l \in logs : Group(l) # push.target /\ (~First => Group(l) > push.target \/ OfTodo(l))
    BY <1>1 DEF Kept, Progress, Straggling, Archiving, Tars, Remaining
  <2>3. \A l \in logs : Group(l) > push.target \/ TarName(Group(l), "straggle") \in push'.todo
    BY <1>2, <2>2 DEF OfTodo
  <2>4. Remaining'
    BY <1>1, <1>2, <2>2, <2>3 DEF Remaining, Packing, OfTodo, TarName
  <2> QED BY <1>2, <2>1, <2>4 DEF Progress, Straggling, Archiving
<1>7. Copies'
  BY <1>1, <1>2, <1>3, <1>4 DEF Kept, Copies, Remote
<1>8. \A l \in begun' \ slow' : Somewhere(l)'
  <2>1. \A a \in DOMAIN archives : \E b \in DOMAIN archives' : archives'[b] = archives[a]
    BY <1>4
  <2>2. \A l \in begun \ slow : Somewhere(l)
    BY DEF Kept
  <2> HIDE DEF Kept
  <2> QED BY <1>1, <2>1, <2>2 DEF Somewhere, Whole
<1> QED BY <1>5, <1>6, <1>7, <1>8 DEF Kept

\* The loop over the logs: a group that still has logs has no archive on
\* the remote hosts.
LEMMA KeptStragglers ==
    ASSUME Basic, Kept, Stragglers
    PROVE  Kept'
<1>1. UNCHANGED <<now, zone, slow, begun, logs, archives, daily, stored>> /\ push.pc = "loop"
  BY DEF Stragglers, clock, monitor, timing
<1>2. PICK a \in push.todo :
          push' = [push EXCEPT !.todo = @ \ {a},
                               !.pc = IF IsStraggler(a.group) THEN "tar" ELSE @,
                               !.archive = IF IsStraggler(a.group) THEN a ELSE @]
  BY DEF Stragglers
<1>3. /\ push'.pc = (IF IsStraggler(a.group) THEN "tar" ELSE "loop")
      /\ IsStraggler(a.group) => push'.archive = a
      /\ push'.target = push.target
      /\ push'.started = push.started /\ push'.todo = push.todo \ {a}
  <2>1. push \in PushRecords
    BY DEF Basic, Shapes
  <2> QED BY <1>1, <1>2, <2>1 DEF PushRecords
<1>4. a \in FileNames /\ a = TarName(a.group, "straggle") /\ a.kind = "straggle"
  <2>1. a \in FileNames /\ a = TarName(a.group, "straggle")
    BY <1>1, Numbers DEF Basic, Course
  <2> QED BY <2>1 DEF TarName
<1>5. Names'
  <2>1. Remote' = Remote
    BY <1>1 DEF Remote
  <2>2. IsStraggler(a.group) => a \notin Remote /\ Zipped(a) \notin Remote
    <3>1. Zipped(a).group = a.group
      BY <1>4, NameTypes
    <3>2. \A b \in Remote : \A l \in logs : Group(l) # b.group
      BY DEF Kept, Names
    <3> QED BY <3>1, <3>2 DEF IsStraggler
  <2> QED BY <1>1, <1>3, <1>4, <2>1, <2>2 DEF Kept, Names, Packing
<1>6. Progress'
  <2>1. Straggling'
    BY <1>1, <1>3 DEF IsStraggler, Straggling
  <2>2. \A l \in logs :
           /\ Group(l) # push.target
           /\ Group(l) > push.target \/ OfTodo(l)
    BY <1>1 DEF Kept, Progress, Straggling, Archiving, Tars, Remaining
  <2>3. \A l \in logs : TarName(Group(l), "straggle") = a => Group(l) = a.group
    BY DEF TarName
  <2>4. ASSUME NEW l \in logs, Group(l) = a.group, ~IsStraggler(a.group)
        PROVE  Group(l) > push.target
    <3>1. ~(Group(l) < push.target)
      BY <2>4 DEF IsStraggler
    <3>2. Group(l) \in Int /\ push.target \in Int
      BY Numbers
    <3>3. Group(l) # push.target
      BY <2>2
    <3> HIDE DEF Kept
    <3> QED BY <3>1, <3>2, <3>3
  <2>5. Remaining'
    <3>1. CASE IsStraggler(a.group)
      <4>1. \A l \in logs : Group(l) > push.target \/ TarName(Group(l), "straggle") \in push'.todo
                              \/ Group(l) = a.group
        BY <1>3, <2>2, <2>3 DEF OfTodo
      <4>2. push'.pc = "tar" /\ push'.archive = a
        BY <1>3, <3>1
      <4> QED BY <1>1, <1>3, <2>2, <4>1, <4>2 DEF Remaining, OfTodo, TarName
    <3>2. CASE ~IsStraggler(a.group)
      <4>1. \A l \in logs : Group(l) > push.target \/ TarName(Group(l), "straggle") \in push'.todo
        BY <1>3, <2>2, <2>3, <2>4, <3>2 DEF OfTodo
      <4>2. push'.pc = "loop"
        BY <1>3, <3>2
      <4> QED BY <1>1, <1>3, <2>2, <4>1, <4>2 DEF Remaining, Packing, OfTodo, TarName
    <3> QED BY <3>1, <3>2
  <2>6. Tars'
    BY <1>1 DEF Kept, Progress, Tars
  <2> QED BY <1>3, <2>1, <2>5, <2>6 DEF Progress, Straggling, Archiving
<1>7. Copies' /\ \A l \in begun' \ slow' : Somewhere(l)'
  BY <1>1, <1>3 DEF Kept, Copies, Somewhere
<1> QED BY <1>5, <1>6, <1>7 DEF Kept

\* After it, no log up to the target is left.
LEMMA KeptLoop ==
    ASSUME Basic, Kept, ListArchives \/ Done \/ Kill
    PROVE  Kept'
<1>1. UNCHANGED <<now, zone, slow, begun, logs, archives, daily, stored>>
  BY DEF ListArchives, Done, Kill, clock, monitor, timing
<1>2. push \in PushRecords
  BY DEF Basic, Shapes
<1>3. /\ push'.target = push.target /\ push'.started = push.started
      /\ push'.pc \in {"scp", "done", "killed"}
      /\ push'.pc = "scp" => push.pc = "loop" /\ push.todo = {}
      /\ push'.pc = "done" => push.pc = "scp"
  BY <1>2 DEF ListArchives, Done, Kill, PushRecords
<1>4. Names'
  BY <1>1, <1>3 DEF Kept, Names, Remote, Packing
<1>5. Progress'
  <2>1. \A l \in logs : push'.pc \in {"scp", "done"} =>
           Group(l) > push.target /\ Group(l) # push.target
    <3>1. \A l \in logs : push'.pc \in {"scp", "done"} => Group(l) > push.target
      BY <1>3 DEF Kept, Progress, Straggling, Archiving, Tars, Remaining, OfTodo
    <3> QED BY <3>1, Numbers
  <2>2. Tars'
    BY <1>1 DEF Kept, Progress, Tars
  <2> QED BY <1>1, <1>3, <2>1, <2>2 DEF Progress, Straggling, Archiving, Tars, Remaining, Packing
<1>6. Copies' /\ \A l \in begun' \ slow' : Somewhere(l)'
  BY <1>1, <1>3 DEF Kept, Copies, Somewhere
<1> QED BY <1>4, <1>5, <1>6 DEF Kept

\* scp: what it replaces on the collecting host is in the archive too.
LEMMA KeptScp ==
    ASSUME Basic, Kept, Scp
    PROVE  Kept'
<1>1. UNCHANGED <<now, zone, slow, begun, logs, archives, stored>>
  BY ScpCases
<1>2. PICK a \in push.todo : Pushed(a) \/ NotPushed(a)
  BY ScpCases
<1>3. push.pc = "scp" /\ a \in DOMAIN archives /\ a \in FileNames
  BY <1>2, Numbers DEF Basic, Course, Pushed, NotPushed
<1>4. /\ push'.target = push.target /\ push'.started = push.started
      /\ \/ push'.pc = "unlink" /\ push'.archive = a /\ Pushed(a)
         \/ push'.pc = "scp"
  <2>1. push \in PushRecords
    BY DEF Basic, Shapes
  <2> QED BY <1>2, <1>3, <2>1 DEF Pushed, NotPushed, PushRecords
<1>5. /\ DOMAIN daily' \subseteq DOMAIN daily \cup {a}
      /\ \/ a \in DOMAIN daily' /\ daily'[a].content = archives[a]
         \/ push'.pc = "scp"
      /\ \A b \in DOMAIN daily \ {a} : b \in DOMAIN daily' /\ daily'[b] = daily[b]
      /\ daily' # daily => daily'[a].content \subseteq archives[a]
  <2>1. Pushed(a) => daily'[a].content = archives[a] /\ a \in DOMAIN daily'
    BY DEF Pushed, Received
  <2>2. NotPushed(a) => daily' = daily \/ daily'[a].content = {}
    BY DEF NotPushed, Received
  <2>3. /\ DOMAIN daily' \subseteq DOMAIN daily \cup {a}
        /\ \A b \in DOMAIN daily \ {a} : b \in DOMAIN daily' /\ daily'[b] = daily[b]
    BY <1>2 DEF Pushed, NotPushed
  <2> QED BY <1>2, <1>4, <2>1, <2>2, <2>3
<1>6. \A l \in logs : Group(l) > push.target /\ Group(l) # push.target /\ Group(l) # a.group
  <2>1. \A l \in logs : Group(l) > push.target
    BY <1>3 DEF Kept, Progress, Remaining
  <2>2. a.group <= push.target
    BY <1>3 DEF Kept, Names
  <2>3. \A l \in logs : Group(l) \in Int
    BY Numbers
  <2>4. a.group \in Int /\ push.target \in Int
    BY <1>3, Numbers
  <2> QED BY <2>1, <2>2, <2>3, <2>4
<1>7. Names'
  <2>1. Remote' \subseteq Remote \cup {a}
    BY <1>1, <1>5 DEF Remote
  <2> QED BY <1>1, <1>3, <1>4, <1>6, <2>1 DEF Kept, Names, Packing
<1>8. Progress'
  <2>1. Tars'
    BY <1>1 DEF Kept, Progress, Tars
  <2>2. Remaining'
    BY <1>1, <1>4, <1>6 DEF Remaining, Packing
  <2> QED BY <1>4, <2>1, <2>2 DEF Progress, Straggling, Archiving
<1>9. Copies'
  <2>1. \A b \in DOMAIN daily' \ DOMAIN archives : b \in DOMAIN daily /\ daily'[b] = daily[b]
    BY <1>3, <1>5
  <2>2. \A b \in DOMAIN archives : b \in DOMAIN daily' => daily'[b].content \subseteq archives[b]
    <3>1. CASE daily' = daily
      BY <3>1 DEF Kept, Copies
    <3>2. CASE daily' # daily
      BY <1>5, <3>2 DEF Kept, Copies
    <3> QED BY <3>1, <3>2
  <2> QED BY <1>1, <1>3, <1>4, <1>5, <2>1, <2>2 DEF Kept, Copies
<1>10. \A l \in begun' \ slow' : Somewhere(l)'
  <2>1. a \in DOMAIN daily => daily[a].content \subseteq archives[a]
    BY <1>3 DEF Kept, Copies
  <2>2. \A l \in begun \ slow : l \in logs
          \/ (\E b \in DOMAIN archives : Whole(l) \in archives[b])
          \/ (\E b \in DOMAIN daily \ {a} : Whole(l) \in daily[b].content)
          \/ (\E b \in DOMAIN stored : Whole(l) \in stored[b])
    BY <1>3, <2>1 DEF Kept, Somewhere
  <2> QED BY <1>1, <1>5, <2>2 DEF Somewhere, Whole
<1> QED BY <1>7, <1>8, <1>9, <1>10 DEF Kept

\* The archive that has been copied is on one of the two hosts.
LEMMA KeptUnlink ==
    ASSUME Basic, Kept, Unlink
    PROVE  Kept'
<1> DEFINE p == push.archive
<1>1. UNCHANGED <<now, zone, slow, begun, logs, daily, stored>> /\ push.pc = "unlink"
  BY DEF Unlink, clock, monitor, timing
<1>2. /\ DOMAIN archives' = DOMAIN archives \ {p}
      /\ \A a \in DOMAIN archives' : archives'[a] = archives[a]
  BY BasicUnlink
<1>3. push'.target = push.target /\ push'.started = push.started /\ push'.pc = "scp"
  <2>1. push \in PushRecords
    BY DEF Basic, Shapes
  <2> QED BY <2>1 DEF Unlink, PushRecords
<1>4. p \in DOMAIN archives
  BY <1>1 DEF Basic, Course
<1>5. \/ p \in DOMAIN daily /\ daily[p].content = archives[p]
      \/ p \in DOMAIN stored \ DOMAIN daily /\ stored[p] = archives[p]
  BY <1>1 DEF Kept, Copies
<1>6. p \in DOMAIN stored => stored[p] \subseteq archives[p]
  BY <1>4 DEF Kept, Copies
<1> HIDE DEF p
<1>7. Names'
  <2>1. Remote' = Remote
    BY <1>1 DEF Remote
  <2> QED BY <1>1, <1>2, <1>3, <2>1 DEF Kept, Names, Packing
<1>8. Progress'
  <2>1. Tars'
    BY <1>1, <1>2 DEF Kept, Progress, Tars
  <2>2. Remaining'
    BY <1>1, <1>3 DEF Kept, Progress, Remaining, Packing
  <2> QED BY <1>3, <2>1, <2>2 DEF Progress, Straggling, Archiving
<1>9. Copies'
  BY <1>1, <1>2, <1>3, <1>4, <1>5, <1>6 DEF Kept, Copies
<1>10. \A l \in begun' \ slow' : Somewhere(l)'
  BY <1>1, <1>2, <1>5 DEF Kept, Somewhere, Whole
<1> QED BY <1>7, <1>8, <1>9, <1>10 DEF Kept

\* The archiver: what it replaces on the archival host is still on the
\* collecting host or before it.
LEMMA KeptArchiverScp ==
    ASSUME Basic, Kept, ArchiverScp
    PROVE  Kept'
<1>1. UNCHANGED <<now, zone, slow, begun, logs, archives, daily, push>>
  BY ArchiverScpCases
<1>2. CASE stored' = stored
  BY <1>1, <1>2 DEF Kept, Names, Remote, Packing, Progress, Straggling, Archiving, Tars, Remaining,
                    First, OfTodo, Copies, Somewhere
<1>3. ASSUME NEW a \in DOMAIN daily, NEW c \in Contents, Archived(a, c)
      PROVE  Kept'
  <2>1. /\ DOMAIN stored' = DOMAIN stored \cup {a}
        /\ stored'[a] \subseteq daily[a].content
        /\ \A b \in DOMAIN stored \ {a} : stored'[b] = stored[b]
    BY <1>3 DEF Archived, PutInto
  <2>2. Names'
    <3>1. Remote' = Remote
      BY <1>1, <2>1 DEF Remote
    <3> QED BY <1>1, <3>1 DEF Kept, Names, Packing
  <2>3. Progress'
    BY <1>1 DEF Kept, Progress, Straggling, Archiving, Tars, Remaining, Packing, First, OfTodo
  <2>4. Copies'
    BY <1>1, <2>1 DEF Kept, Copies
  <2>5. \A l \in begun' \ slow' : Somewhere(l)'
    <3>1. a \in DOMAIN stored /\ a \in DOMAIN archives => stored[a] \subseteq archives[a]
      BY DEF Kept, Copies
    <3>2. a \in DOMAIN stored /\ a \notin DOMAIN archives => stored[a] \subseteq daily[a].content
      BY DEF Kept, Copies
    <3>3. \A l \in begun \ slow : l \in logs
          \/ (\E b \in DOMAIN archives : Whole(l) \in archives[b])
          \/ (\E b \in DOMAIN daily : Whole(l) \in daily[b].content)
          \/ (\E b \in DOMAIN stored \ {a} : Whole(l) \in stored[b])
      BY <3>1, <3>2 DEF Kept, Somewhere
    <3> QED BY <1>1, <2>1, <3>3 DEF Somewhere, Whole
  <2> QED BY <2>2, <2>3, <2>4, <2>5 DEF Kept
<1> QED BY <1>2, <1>3, ArchiverScpCases

\* Without a mishap it removes a file only if it has it.
LEMMA KeptArchiverRemove ==
    ASSUME Basic, Kept, ArchiverRemove, mishaps' = {}
    PROVE  Kept'
<1>1. UNCHANGED <<now, zone, slow, begun, logs, archives, stored, push>>
  BY DEF ArchiverRemove, clock, monitor, timing
<1>2. /\ DOMAIN daily' = DOMAIN daily \ {moving} /\ moving \in DOMAIN stored
      /\ \A a \in DOMAIN daily' : daily'[a] = daily[a]
  BY BasicArchiverRemove
<1>3. daily[moving].content = stored[moving]
  BY DEF ArchiverRemove
<1>4. Names'
  <2>1. Remote' \subseteq Remote
    BY <1>1, <1>2 DEF Remote
  <2> QED BY <1>1, <2>1 DEF Kept, Names, Packing
<1>5. Progress'
  BY <1>1 DEF Kept, Progress, Straggling, Archiving, Tars, Remaining, Packing, First, OfTodo
<1>6. Copies'
  BY <1>1, <1>2, <1>3 DEF Kept, Copies
<1>7. \A l \in begun' \ slow' : Somewhere(l)'
  BY <1>1, <1>2, <1>3 DEF Kept, Somewhere, Whole
<1> QED BY <1>4, <1>5, <1>6, <1>7 DEF Kept

\* As long as nothing has gone wrong, everything is kept.
Inv == Basic /\ (Undisturbed => Kept)

\* The whole invariant: each step keeps it.
LEMMA InvNext == Inv /\ [Next]_vars => Inv'
<1> SUFFICES ASSUME Inv, [Next]_vars PROVE Inv'
  OBVIOUS
<1>1. Basic'
  BY BasicNext DEF Inv
<1> SUFFICES ASSUME mishaps' = {}, early' = {} PROVE Kept'
  BY <1>1 DEF Inv, Undisturbed
<1>2. CASE UNCHANGED vars
  <2>1. UNCHANGED <<now, zone, slow, early, begun, logs, archives, daily, stored, push, mishaps>>
    BY <1>2 DEF vars, clock, monitor, trouble, timing
  <2> QED BY <2>1 DEF Inv, Undisturbed, Kept, Names, Remote, Packing, Progress, Straggling, Archiving, Tars,
                      Remaining, First, OfTodo, Copies, Somewhere
<1>3. CASE Next
  <2>1. mishaps = {} /\ early = {}
    BY HistoryGrows
  <2>2. Basic /\ Kept
    BY <2>1 DEF Inv, Undisturbed
  <2> QED BY <1>3, <2>2, KeptBeginLog, KeptAside, KeptStart, KeptTar, KeptRemoveLogs, KeptCompress,
             KeptStragglers, KeptLoop, KeptScp, KeptUnlink, KeptArchiverScp, KeptArchiverRemove
          DEF Next
<1> QED BY <1>2, <1>3

\* It holds at the start.
LEMMA InvInit == Init => Inv
<1> SUFFICES ASSUME Init PROVE Inv
  OBVIOUS
<1>1. DOMAIN NoFiles = {}
  BY DEF NoFiles
<1>2. push.pc = "idle" /\ push.target = Group(-1) - zone /\ push.started = 1
  BY DEF Init
<1>3. Names
  <2>1. push.target <= Group(push.started - 2) - zone
    <3>1. Group(push.started - 2) = Group(-1) /\ Group(-1) \in Int
      BY <1>2 DEF Group
    <3>2. zone \in Int
      BY DEF Init
    <3> QED BY <1>2, <3>1, <3>2
  <2>2. DOMAIN archives \cup Remote = {}
    BY <1>1 DEF Init, Remote
  <2> QED BY <1>2, <2>1, <2>2 DEF Names, Packing
<1>4. Progress /\ Copies /\ \A l \in begun \ slow : Somewhere(l)
  BY <1>1, <1>2 DEF Init, Progress, Straggling, Archiving, Tars, Remaining, Copies
<1> QED BY <1>3, <1>4, BasicInit DEF Inv, Kept

\* A log is lost in five ways only: tar fails, local time goes back or is
\* ahead of UTC, the archiver removes a file that the pusher has replaced, or
\* the log was open a minute after the end of its group; failing copies,
\* missed runs and kills lose none.
THEOREM FiveWays == Spec => []LostInFiveWays
<1>1. Inv => LostInFiveWays
  BY LostParts DEF Inv, Kept, LostInFiveWays
<1> QED BY <1>1, InvInit, InvNext, PTL DEF Spec

\* A run in which every copy succeeds leaves no archive behind, and every log
\* up to its group on a remote host.
THEOREM CatchesUp == Spec => []RunCatchesUp
<1>1. Inv => RunCatchesUp
  <2> SUFFICES ASSUME Inv, push.pc = "done", ~push.failed
               PROVE  /\ archives = NoFiles
                      /\ Undisturbed => \A l \in begun \ slow :
                           Group(l) <= push.target => Whole(l) \in InDaily \cup In(stored)
    BY DEF RunCatchesUp
  <2>1. DOMAIN archives = {}
    BY DEF Inv, Basic, Course
  <2>2. archives \in [{} -> Contents]
    BY <2>1 DEF Inv, Basic, Shapes
  <2>3. archives = NoFiles
    BY <2>2 DEF NoFiles
  <2>4. ASSUME Undisturbed, NEW l \in begun \ slow, Group(l) <= push.target
        PROVE  Whole(l) \in InDaily \cup In(stored)
    <3>0. Basic /\ Kept
      BY <2>4 DEF Inv
    <3>1. l \in logs => Group(l) > push.target
      BY <3>0 DEF Kept, Progress, Remaining
    <3>2. l \notin logs
      BY <2>4, <3>0, <3>1, Numbers
    <3>3. Somewhere(l)
      BY <3>0 DEF Kept
    <3> QED BY <2>1, <3>2, <3>3 DEF Somewhere, InDaily, In
  <2> QED BY <2>3, <2>4
<1> QED BY <1>1, InvInit, InvNext, PTL DEF Spec
=============================================================================
