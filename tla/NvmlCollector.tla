---------------------------- MODULE NvmlCollector ----------------------------
(***************************************************************************)
(* src/atfield/collectors/nvml.py: when a GPU session counts as failing,    *)
(* when as opened against a driver that is no longer installed, and when    *)
(* this process gives up and asks for a fresh one. A request is never taken *)
(* back. Time is in seconds and passes between two samples.                 *)
(***************************************************************************)
EXTENDS Integers

CONSTANTS
    MaxConsecutive,    \* _max_consecutive
    Persistent,        \* _PERSISTENT_FAILURE_S
    CheckInterval,     \* _DRIVER_CHECK_INTERVAL_NS
    Drivers,           \* driver versions
    Unreadable,        \* what _installed_driver_version() makes of a None
    MaxInstalls,       \* bound: changes of nvml.dll on disk
    MaxGaps            \* bound: jumps of the wall clock

VARIABLES
    consecutive,       \* _consecutive_failures
    gpuHealth,         \* _health
    failingFor,        \* seconds since _failing_since_ns
    swapVersion,       \* _swap_version
    swapFor,           \* seconds since _swap_seen_ns
    checkedFor,        \* seconds since _last_driver_check_ns
    replaced,          \* driver_replaced
    asks,              \* wants_process_restart, by its reason
    opened,            \* _driver_version
    gap,               \* the wall clock jumped since the last sample
    installed,         \* what is on disk
    broken,            \* this session fails for good
    installs,          \* changes on disk so far
    gaps,              \* jumps so far
    goodFor            \* history: since the last good tick, jump or probe

\* What is lost with the process.
session == <<consecutive, gpuHealth, failingFor, swapVersion, swapFor, checkedFor,
             replaced, asks, opened, broken, goodFor>>
machine == <<gap, installed, installs, gaps>>
nvmlVars == <<session, machine>>

Never == -1

TypeInvariant ==
    /\ consecutive \in 0..MaxConsecutive
    /\ gpuHealth \in {"healthy", "degraded", "failed"}
    /\ failingFor \in Never..Persistent /\ goodFor \in 0..Persistent
    /\ swapFor \in Never..CheckInterval /\ checkedFor \in Never..CheckInterval
    /\ swapVersion \in Drivers \cup {Unreadable}
    /\ opened \in Drivers /\ installed \in Drivers \cup {Unreadable}
    /\ replaced \in BOOLEAN /\ gap \in BOOLEAN /\ broken \in BOOLEAN
    /\ asks \in {"no", "failing", "swap"}
    /\ installs \in 0..MaxInstalls /\ gaps \in 0..MaxGaps

NvmlInit ==
    /\ installed \in Drivers /\ opened = installed
    /\ consecutive = 0 /\ gpuHealth = "healthy"
    /\ failingFor = Never /\ goodFor = 0
    /\ swapVersion = Unreadable /\ swapFor = Never /\ checkedFor = Never
    /\ replaced = FALSE /\ asks = "no"
    /\ broken = FALSE /\ gap = FALSE
    /\ installs = 0 /\ gaps = 0

\* probe() in a new process. In the middle of an install it fails, and such a
\* collector is not polled again.
Probe ==
    /\ gpuHealth' = IF installed = Unreadable THEN "failed" ELSE "healthy"
    /\ opened' = IF installed = Unreadable THEN opened ELSE installed
    /\ consecutive' = 0
    /\ failingFor' = Never /\ goodFor' = 0
    /\ swapVersion' = Unreadable /\ swapFor' = Never /\ checkedFor' = Never
    /\ replaced' = FALSE /\ asks' = "no"
    /\ broken' = FALSE /\ gap' = FALSE
    /\ UNCHANGED <<installed, installs, gaps>>
-----------------------------------------------------------------------------
FaultyFailingSince_KeptOverGap(fails) ==
    IF ~fails THEN Never ELSE IF failingFor = Never THEN 0 ELSE failingFor

\* When the run of failing ticks began: what failed across a jump of the wall
\* clock was the power transition and not the session.
FailingSince(fails) ==
    IF ~fails THEN Never ELSE IF failingFor = Never \/ gap THEN 0 ELSE failingFor

CheckDue == checkedFor = Never \/ checkedFor >= CheckInterval

SeesSwap == CheckDue /\ installed # Unreadable /\ installed # opened

\* The first sight of this version, or the install moved on.
SeesNewVersion == SeesSwap /\ installed # swapVersion

\* The swap has been known for one check interval.
SwapSettled == replaced' /\ swapFor' # Never /\ swapFor' >= CheckInterval

\* _check_driver_swap(): what the disk says, at most once per interval.
CheckDriverSwap ==
    /\ checkedFor' = IF CheckDue THEN 0 ELSE checkedFor
    /\ swapVersion' = IF SeesNewVersion THEN installed ELSE swapVersion
    /\ swapFor' = IF SeesNewVersion THEN 0 ELSE swapFor
    /\ replaced' = (replaced \/ SeesSwap)

FaultyRequest_TakenBack(fails) ==
    CASE SwapSettled -> "swap"
      [] ~SwapSettled /\ FailingSince(fails) >= Persistent -> "failing"
      [] OTHER -> "no"

\* wants_process_restart: the first reason stays.
Request(fails) ==
    CASE asks # "no" -> asks
      [] asks = "no" /\ SwapSettled -> "swap"
      [] asks = "no" /\ ~SwapSettled /\ FailingSince(fails) >= Persistent -> "failing"
      [] OTHER -> "no"

Bounded(n, cap) == IF n > cap THEN cap ELSE n

\* sample(): a call that raises, a reading that cannot be and an empty list of
\* handles are all a failing tick.
Sample ==
    \E fails \in BOOLEAN :
        /\ gpuHealth # "failed"
        /\ broken => fails
        /\ gap' = FALSE
        /\ CheckDriverSwap
        /\ asks' = Request(fails)
        /\ failingFor' = FailingSince(fails)
        /\ consecutive' = IF fails THEN Bounded(consecutive + 1, MaxConsecutive) ELSE 0
        /\ gpuHealth' = CASE ~fails -> "healthy"
                          [] fails /\ consecutive' >= MaxConsecutive -> "degraded"
                          [] OTHER -> gpuHealth
        /\ goodFor' = IF gap \/ ~fails THEN 0 ELSE goodFor
        /\ UNCHANGED <<opened, broken, installed, installs, gaps>>

Later(n, d, cap) == IF n = Never THEN Never ELSE Bounded(n + d, cap)

\* d seconds to the next sample; the machine may have slept meanwhile.
Pass(d) ==
    /\ failingFor' = Later(failingFor, d, Persistent)
    /\ goodFor' = Later(goodFor, d, Persistent)
    /\ swapFor' = Later(swapFor, d, CheckInterval)
    /\ checkedFor' = Later(checkedFor, d, CheckInterval)
    /\ \/ UNCHANGED <<gap, gaps>>
       \/ gaps < MaxGaps /\ gaps' = gaps + 1 /\ gap' = TRUE
    /\ UNCHANGED <<consecutive, gpuHealth, swapVersion, replaced, asks, opened,
                   installed, broken, installs>>

\* An installer replaces nvml.dll, takes it back, or has it half written.
Install ==
    /\ installs < MaxInstalls
    /\ installs' = installs + 1
    /\ \E version \in Drivers \cup {Unreadable} : installed' = version
    /\ UNCHANGED <<session, gap, gaps>>

\* A half-written file does not stay.
InstallEnds ==
    /\ installed = Unreadable
    /\ \E version \in Drivers : installed' = version
    /\ UNCHANGED <<session, gap, gaps, installs>>

\* The session wedges: nothing but a fresh process mends it.
Breaks ==
    /\ broken' = TRUE
    /\ UNCHANGED <<consecutive, gpuHealth, failingFor, swapVersion, swapFor,
                   checkedFor, replaced, asks, opened, goodFor, machine>>
=============================================================================
