------------------------------ MODULE Forensics ------------------------------
(***************************************************************************)
(* src/atfield/forensics.py: every tick's samples are staged in memory and  *)
(* appended to forensics.jsonl by a flusher thread, for whoever must explain *)
(* a crash. The file is rotated at a start and at a size, through a cascade *)
(* of archives in which any single rename may fail.                         *)
(***************************************************************************)
EXTENDS Integers, FiniteSets, FiniteSetsExt

CONSTANTS
    KeepArchives,      \* KEEP_ARCHIVES
    MaxLines,          \* max_bytes_before_rotate, in ticks
    MaxTicks,          \* bound: ticks recorded
    MaxFailures        \* bound: writes and renames that fail

ASSUME ArchivesAssumption == KeepArchives \in Nat

\* forensics.jsonl, forensics-prev.jsonl, and the numbered archives: -1, 0, 1...
LiveFile == -1
Slots == LiveFile..KeepArchives

\* The flusher thread, and the thread that calls stop().
Writers == {"flusher", "stopper"}

VARIABLES
    life,              \* the service is "up", in "stop"() or "down"
    staged,            \* _pending: ticks since the last flush
    batch,             \* what each writer took out of it
    flusherDone,       \* the flusher thread has left its loop
    archives,          \* the ticks in each file; {}: there is no such file
    tick,              \* ticks recorded so far
    mishaps,           \* failed file operations so far
    archived,          \* history: streams that became forensics-prev.jsonl
    excused            \* history: ticks lost to a crash, a failed write, or age

forensicsVars == <<life, staged, batch, flusherDone, archives, tick, mishaps,
                   archived, excused>>

ForensicsInit ==
    /\ life = "down"
    /\ staged = {}
    /\ batch = [w \in Writers |-> {}]
    /\ flusherDone = TRUE
    /\ archives = [s \in Slots |-> {}]
    /\ tick = 0
    /\ mishaps = 0
    /\ archived = 0
    /\ excused = {}
-----------------------------------------------------------------------------
\* One rename of the cascade, over whatever is in the way.
Moved(f, s) == IF f[s] = {} THEN f ELSE [f EXCEPT ![s + 1] = f[s], ![s] = {}]

\* The first n of its renames, from the oldest archive on: n - 1 -> n, down to
\* prev -> 1 and the live file -> prev.
Cascade(f, n) ==
    LET done[i \in 0..n] == IF i = 0 THEN f ELSE Moved(done[i - 1], KeepArchives - i)
    IN  done[n]

WholeCascade == KeepArchives + 1

\* An unlink succeeded and the rename after it did not.
Unlinked(f, s) == IF f[s] = {} THEN f ELSE [f EXCEPT ![s + 1] = {}]

Stored(f) == UNION {f[s] : s \in Slots}

\* The oldest archive makes room.
PushedOut == archives[KeepArchives] \ Stored(archives')

\* The cascade of rotate_on_startup() and _maybe_rotate(): an archive or the
\* live file may be held open by a reader, and the rest is then not moved.
Rotate ==
    \/ /\ archives' = Cascade(archives, WholeCascade)
       /\ archived' = archived + 1
       /\ excused' = excused \cup PushedOut
       /\ UNCHANGED mishaps
    \/ \E n \in 0..(WholeCascade - 1) :
       /\ mishaps < MaxFailures
       /\ mishaps' = mishaps + 1
       /\ LET reached == Cascade(archives, n) IN
            archives' \in {reached, Unlinked(reached, KeepArchives - n - 1)}
       /\ excused' = excused \cup PushedOut
       /\ UNCHANGED archived
-----------------------------------------------------------------------------
\* rotate_on_startup(), then ForensicBuffer.start().
Start ==
    /\ life = "down"
    /\ IF archives[LiveFile] = {}
       THEN UNCHANGED <<archives, archived, excused, mishaps>> ELSE Rotate
    /\ life' = "up"
    /\ flusherDone' = FALSE
    /\ UNCHANGED <<staged, batch, tick>>

\* record(): a tick with at least one number in it.
Record ==
    /\ life = "up"
    /\ tick < MaxTicks
    /\ tick' = tick + 1
    /\ staged' = staged \cup {tick + 1}
    /\ UNCHANGED <<life, batch, flusherDone, archives, mishaps, archived, excused>>

\* The flusher wakes on its interval, and at stop(). stop() drains once more,
\* when the flusher is gone or the join has timed out.
MayFlush(w) ==
    CASE w = "flusher" -> ~flusherDone /\ life # "down"
      [] w = "stopper" -> life = "stop" /\ (flusherDone \/ batch["flusher"] # {})

\* _flush_now(): the staged ticks are taken under the lock ...
TakeBatch(w) ==
    /\ MayFlush(w)
    /\ batch[w] = {} /\ staged # {}
    /\ batch' = [batch EXCEPT ![w] = staged]
    /\ staged' = {}
    /\ UNCHANGED <<life, flusherDone, archives, tick, mishaps, archived, excused>>

\* ... and written without it; a batch that cannot be written is dropped.
WriteBatch(w) ==
    /\ batch[w] # {}
    /\ batch' = [batch EXCEPT ![w] = {}]
    /\ \/ /\ archives' = [archives EXCEPT ![LiveFile] = @ \cup batch[w]]
          /\ UNCHANGED <<mishaps, excused>>
       \/ /\ mishaps < MaxFailures
          /\ mishaps' = mishaps + 1
          /\ excused' = excused \cup batch[w]
          /\ UNCHANGED archives
    /\ UNCHANGED <<life, staged, flusherDone, tick, archived>>

\* _maybe_rotate(), after each flush of the flusher.
MaybeRotate ==
    /\ ~flusherDone /\ batch["flusher"] = {}
    /\ Cardinality(archives[LiveFile]) >= MaxLines
    /\ Rotate
    /\ UNCHANGED <<life, staged, batch, flusherDone, tick>>

StopRequested ==
    /\ life = "up"
    /\ life' = "stop"
    /\ UNCHANGED <<staged, batch, flusherDone, archives, tick, mishaps, archived, excused>>

\* The event is set: the loop ends after the iteration it is in.
FlusherExits ==
    /\ life = "stop" /\ ~flusherDone /\ batch["flusher"] = {}
    /\ flusherDone' = TRUE
    /\ UNCHANGED <<life, staged, batch, archives, tick, mishaps, archived, excused>>

FaultyDrained_NotStaged == batch["stopper"] = {}

Drained == staged = {} /\ batch["stopper"] = {}

\* stop() returns and the process ends; a flusher that still hangs in a write
\* is a daemon thread and goes with it.
Exit ==
    /\ life = "stop" /\ Drained
    /\ MayFlush("stopper")
    /\ life' = "down"
    /\ flusherDone' = TRUE
    /\ batch' = [w \in Writers |-> {}]
    /\ staged' = {}
    /\ excused' = excused \cup batch["flusher"]
    /\ UNCHANGED <<archives, tick, mishaps, archived>>

\* The crash somebody will want explained.
ProcessDies ==
    /\ life # "down"
    /\ life' = "down"
    /\ flusherDone' = TRUE
    /\ staged' = {}
    /\ batch' = [w \in Writers |-> {}]
    /\ excused' = excused \cup staged \cup batch["flusher"] \cup batch["stopper"]
    /\ UNCHANGED <<archives, tick, mishaps, archived>>

ForensicsNext ==
    \/ Start \/ Record
    \/ \E w \in Writers : TakeBatch(w) \/ WriteBatch(w)
    \/ MaybeRotate \/ StopRequested \/ FlusherExits \/ Exit \/ ProcessDies

ForensicsSpec == ForensicsInit /\ [][ForensicsNext]_forensicsVars
-----------------------------------------------------------------------------
\* A tick is staged, being written or on disk, unless a crash came within the
\* flush, a write failed, or the cascade pushed it out; a service that is
\* stopped leaves nothing behind in memory.
NothingSlips ==
    1..tick = Stored(archives) \cup staged \cup batch["flusher"] \cup batch["stopper"] \cup excused
=============================================================================
