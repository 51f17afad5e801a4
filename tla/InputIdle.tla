------------------------------ MODULE InputIdle ------------------------------
(***************************************************************************)
(* src/atfield/collectors/system.py and the presence block of the loop: how *)
(* long nobody has touched the machine, as seen by a service that may run   *)
(* in session 0, where there is no input. The source is chosen once, at the *)
(* probe; a signal that cannot be had is left out, and what Presence then   *)
(* does with it is the other half. Time is in seconds.                      *)
(***************************************************************************)
EXTENDS Presence

CONSTANTS
    Interactive,       \* sessions a user can be logged on in; 0 is not one
    NoSession,
    Threshold,         \* idle_threshold_s
    Wrap               \* 2^32 ms, the period of the 32-bit tick count

ASSUME IdleAssumption ==
    /\ StaleAfter \in Nat \ {0} /\ LongestTick \in Nat
    /\ MaxToggles \in Nat /\ MaxFailures \in Nat
    /\ Threshold \in Nat \ {0} /\ Wrap \in Nat \ {0}

VARIABLES
    own,               \* the session of the service
    console,           \* WTSGetActiveConsoleSessionId(), or NoSession
    registered,        \* sessions that have had input at all
    lastTouch,         \* tick count at the last input of each session
    clock,             \* tick count, 32 bits of it
    reader,            \* _input_idle_reader: "wts", "own session" or "none"
    untouched          \* history: since somebody touched any session

idleVars == <<own, console, registered, lastTouch, clock, reader, untouched>>
UntouchedCap == Threshold + PresenceAgeCap
-----------------------------------------------------------------------------
\* What really went by since the last input of s.
Since(s) == (clock - lastTouch[s]) % Wrap

\* WTS answers for a session at the console that has had input.
WtsAnswers == console \in registered

\* _resolve_input_idle_reader(): WTS, or the input of the own session where
\* there can be any, or, if what there is fails, nothing.
Resolvable ==
    {source \in {"wts", "own session", "none"} :
        /\ source = "wts" => WtsAnswers
        /\ source = "own session" => own # 0}

IdleInit ==
    /\ PresenceInit
    /\ own \in Interactive \cup {0}
    /\ console \in Interactive \cup {NoSession}
    /\ registered \in SUBSET Interactive
    /\ own # 0 => own \in registered
    /\ lastTouch = [s \in Interactive |-> 0]
    /\ clock \in 0..(Wrap - 1)
    /\ reader \in Resolvable
    /\ untouched = Older(0, IF registered = {} THEN UntouchedCap ELSE clock, UntouchedCap)
-----------------------------------------------------------------------------
FaultyTickCountSince_NoWrap(s) ==
    clock - lastTouch[s]

\* _read_input_idle_seconds_windows(): the low 32 bits of now against dwTime.
TickCountSince(s) ==
    LET elapsed == clock - lastTouch[s] IN
    IF elapsed < 0 THEN elapsed + Wrap ELSE elapsed

\* The value of system.input_idle_s. The console session is looked up anew for
\* each of them.
InputIdle == IF reader = "wts" THEN Since(console) ELSE TickCountSince(own)

CanRead ==
    \/ reader = "wts" /\ WtsAnswers
    \/ reader = "own session"

Verdict == IF InputIdle < Threshold THEN "present" ELSE "away"

\* A tick: time has passed, and the source answers or, for a reason of its own,
\* does not. Nobody is away for a whole period of the counter.
Collect(d) ==
    /\ \A s \in registered : Since(s) + d < Wrap
    /\ clock' = (clock + d) % Wrap
    /\ untouched' = Older(untouched, d, UntouchedCap)
    /\ UNCHANGED <<own, console, registered, lastTouch, reader>>
    /\ \/ CanRead' /\ SampleArrives(Verdict', d)
       \/ NoSample(d)

\* The process ends, in any way, and the next one resolves its source anew.
ProbeAgain ==
    /\ ServiceRestarts
    /\ reader' \in Resolvable
    /\ UNCHANGED <<own, console, registered, lastTouch, clock, untouched>>

ReloadPresence == Toggle /\ UNCHANGED idleVars

\* A key or the mouse, in any session.
Touch(s) ==
    /\ lastTouch' = [lastTouch EXCEPT ![s] = clock]
    /\ registered' = registered \cup {s}
    /\ untouched' = 0
    /\ UNCHANGED <<presenceVars, own, console, clock, reader>>

\* Fast user switching, log-on and log-off at the console.
Switch ==
    /\ \E s \in Interactive \cup {NoSession} : console' = s
    /\ UNCHANGED <<presenceVars, own, registered, lastTouch, clock, reader, untouched>>

IdleNext ==
    \/ \E d \in 1..LongestTick : Collect(d)
    \/ ProbeAgain \/ ReloadPresence \/ Switch
    \/ \E s \in Interactive : Touch(s)

IdleSpec == IdleInit /\ [][IdleNext]_<<presenceVars, idleVars>>
-----------------------------------------------------------------------------
(* presence.sentinel makes every scheduler on the machine hold back, and     *)
(* nobody looks at it: it stands only if somebody did touch a session within *)
(* the threshold of a sample of the last _PRESENCE_STALE_AFTER_S, or, right  *)
(* after a start, on the word of a past process. "Presence must NOT be       *)
(* sticky", "a fabricated one makes them act on a lie". And somebody whom a  *)
(* sample of that time has shown at the machine is shown to others, through  *)
(* reloads too, unless the file could not be touched.                        *)
PresenceIsTrue ==
    /\ Undisturbed /\ sentinel =>
         /\ age < StaleAfter
         /\ said # "nothing" => untouched < Threshold + age
    /\ failures = 0 /\ said = "present" /\ age < StaleAfter => sentinel
=============================================================================
