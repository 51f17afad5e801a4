------------------------------ MODULE Presence ------------------------------
(***************************************************************************)
(* presence.sentinel of src/atfield/service.py: a file that tells every     *)
(* scheduler on the machine to hold back while somebody is at the keyboard. *)
(* The loop touches it when its opinion changes and no more, the opinion is *)
(* lost when the service restarts, and the file is not.                     *)
(***************************************************************************)
EXTENDS Integers

CONSTANTS
    StaleAfter,        \* _PRESENCE_STALE_AFTER_S
    LongestTick,       \* bound: seconds from one tick to the next
    MaxToggles,        \* bound: reloads that turn [presence] on or off
    MaxFailures        \* bound: writes and unlinks that fail

VARIABLES
    sentinel,          \* presence.sentinel exists
    enabled,           \* cfg.presence.enabled
    opinion,           \* last_presence_state; "unknown" for None
    silent,            \* seconds since last_idle_sample_ns
    toggles,           \* reloads of the section so far
    failures,          \* failed file operations so far
    said,              \* history: what the last sample of this process said
    age                \* history: how long ago, or since the process started

presenceVars == <<sentinel, enabled, opinion, silent, toggles, failures, said, age>>

PresenceAgeCap == StaleAfter + LongestTick

PresenceTypes ==
    /\ sentinel \in BOOLEAN
    /\ enabled \in BOOLEAN
    /\ opinion \in {"unknown", "present", "away"}
    /\ silent \in 0..StaleAfter
    /\ toggles \in 0..MaxToggles
    /\ failures \in 0..MaxFailures
    /\ said \in {"nothing", "present", "away"}
    /\ age \in 0..PresenceAgeCap

\* The file may be there: an earlier process left it.
PresenceInit ==
    /\ sentinel \in BOOLEAN
    /\ enabled = TRUE
    /\ opinion = "unknown"
    /\ silent = 0
    /\ toggles = 0
    /\ failures = 0
    /\ said = "nothing"
    /\ age = 0
-----------------------------------------------------------------------------
Older(n, d, cap) == IF n + d > cap THEN cap ELSE n + d

\* _write_presence_sentinel() and _clear_presence_sentinel(): an OSError is
\* logged, and the opinion counts as written all the same.
SetSentinel(value) ==
    \/ sentinel' = value /\ UNCHANGED failures
    \/ /\ failures < MaxFailures
       /\ failures' = failures + 1
       /\ UNCHANGED sentinel

OpinionChanges(verdict) == opinion # verdict

\* A tick with a credible sample of system.input_idle_s.
SampleArrives(verdict, d) ==
    /\ enabled
    /\ silent' = 0
    /\ IF OpinionChanges(verdict)
       THEN SetSentinel(verdict = "present") /\ opinion' = verdict
       ELSE UNCHANGED <<sentinel, opinion, failures>>
    /\ said' = verdict
    /\ age' = 0
    /\ UNCHANGED <<enabled, toggles>>

\* The signal is gone for too long and that has not been dealt with.
GoneSilent(d) == Older(silent, d, StaleAfter) >= StaleAfter /\ opinion # "away"

\* A tick without one.
NoSample(d) ==
    /\ silent' = Older(silent, d, StaleAfter)
    /\ IF enabled /\ GoneSilent(d)
       THEN SetSentinel(FALSE) /\ opinion' = "away"
       ELSE UNCHANGED <<sentinel, opinion, failures>>
    /\ age' = Older(age, d, PresenceAgeCap)
    /\ UNCHANGED <<enabled, said, toggles>>

\* The reload touches neither the file nor what the loop remembers of it.
Reloaded == UNCHANGED <<sentinel, opinion>>

\* A reload of a config with [presence] turned on or off.
Toggle ==
    /\ toggles < MaxToggles
    /\ toggles' = toggles + 1
    /\ enabled' = ~enabled
    /\ Reloaded
    /\ UNCHANGED <<silent, failures, said, age>>

\* The process ends, in any way, and a new one starts.
ServiceRestarts ==
    /\ opinion' = "unknown"
    /\ silent' = 0
    /\ said' = "nothing"
    /\ age' = 0
    /\ UNCHANGED <<sentinel, enabled, toggles, failures>>

PresenceTick ==
    \E d \in 1..LongestTick :
        \/ \E verdict \in {"present", "away"} : SampleArrives(verdict, d)
        \/ NoSample(d)

PresenceNext == PresenceTick \/ Toggle \/ ServiceRestarts

PresenceSpec == PresenceInit /\ [][PresenceNext]_presenceVars
-----------------------------------------------------------------------------
\* Nothing has taken the file out of the loop's hands: no reload turned the
\* section off, and no file operation failed.
Undisturbed == toggles = 0 /\ failures = 0
=============================================================================
