--------------------------- MODULE MCSideChannels ---------------------------
(* What the service writes and says beside the tick: reports to webhooks,   *)
(* the forensic stream, notices to owners, and the configuration that       *)
(* clients edit. They share no state, so one is chosen at the start and     *)
(* runs on its own; the others stay as they begin.                          *)
EXTENDS Notices, Reporter, Forensics, ConfigPatch

CONSTANTS hot, warm

VARIABLES subject

\* config.toml: a table, then two rules, one of them a warning.
Line(key, value) == [key |-> key, value |-> value, marks |-> {}]
Marked(key, value, marks) == [key |-> key, value |-> value, marks |-> marks]

HotRule == <<Line("header", "rules"), Line("name", hot), Line("threshold", 90),
             Line("min_fraction_over", 60), Line("action", "kill")>>
WarmRule == <<Line("header", "rules"), Line("name", warm), Line("threshold", 80),
              Line("min_fraction_over", 60), Line("action", "log"),
              Line("notify", TRUE)>>
Kill == <<Line("header", "kill"), Line("mode", "tree")>>

DefaultText == Kill \o HotRule \o WarmRule

\* By hand: a table after the rules, and a rule whose name is not its first key.
NameLast == WarmRule
    \o <<Line("header", "rules"), Line("threshold", 90), Line("name", hot),
         Line("min_fraction_over", 60), Line("action", "kill")>> \o Kill

\* By hand: numbers that the writer reads in part or not at all, and a comment
\* without a newline at the end; a header that it does not know.
Spelt == Kill
    \o <<Line("header", "rules"), Line("name", hot),
         Marked("threshold", 9, {"exponent"}),
         Marked("min_fraction_over", 60, {"sign"}), Line("action", "kill")>>
    \o <<Line("header", "rules"), Line("name", warm), Line("threshold", 80),
         Line("min_fraction_over", 60), Marked("action", "log", {"remark", "unended"})>>

Spaced == HotRule
    \o <<Marked("header", "rules", {"spaced"})>> \o Tail(WarmRule)

\* The last line has no newline.
Unended ==
    SubSeq(DefaultText, 1, Len(DefaultText) - 1)
    \o <<Marked("notify", TRUE, {"unended"})>>

Set(rule, field, value) == [rule |-> rule, field |-> field, value |-> value]

\* A slider; a later field out of range; the action of a warning; a fraction of
\* zero; a preset, and one for a rule that the file does not have; a reload.
Clients == {
    [kind |-> "patch", edits |-> <<Set(hot, "threshold", 95)>>],
    [kind |-> "patch", edits |-> <<Set(warm, "cooldown_s", 30),
                                   Set(warm, "threshold", 999)>>],
    [kind |-> "patch", edits |-> <<Set(warm, "threshold", 85),
                                   Set(warm, "action", "kill")>>],
    [kind |-> "patch", edits |-> <<Set(hot, "min_fraction_over", 0)>>],
    [kind |-> "preset", edits |-> <<Set(hot, "threshold", 100),
                                    Set(warm, "threshold", 95)>>],
    [kind |-> "preset", edits |-> <<Set(hot, "threshold", 100),
                                    Set("absent", "threshold", 95)>>],
    [kind |-> "reload", edits |-> <<>>]}

StartTexts == {DefaultText, NameLast}
HandWritten == StartTexts \cup {Spelt, Spaced, Unended}

everything == <<subject, vars, reporterVars, forensicsVars, configVars>>

ReportsAlone ==
    subject = "reports" /\ UNCHANGED <<subject, vars, forensicsVars, configVars>>
StreamAlone ==
    subject = "stream" /\ UNCHANGED <<subject, vars, reporterVars, configVars>>
OwnersAlone ==
    subject = "owners" /\ UNCHANGED <<subject, reporterVars, forensicsVars, configVars>>
ConfigAlone ==
    subject = "config" /\ UNCHANGED <<subject, vars, reporterVars, forensicsVars>>

SideInit ==
    /\ subject \in {"reports", "stream", "owners", "config"}
    /\ ReporterInit /\ ForensicsInit
    /\ Init
    /\ subject # "owners" => liveJobs = {}
    /\ ConfigInit
    /\ subject # "config" => file = Missing

SideNext ==
    \/ ReportsAlone /\ ReporterNext
    \/ StreamAlone /\ ForensicsNext
    \/ OwnersAlone /\ Next
    \/ ConfigAlone /\ ConfigNext

ConfigSpec == SideInit /\ subject = "config" /\ [][SideNext]_everything

\* The fairness of the reporter; the others promise nothing that takes it.
SideSpec ==
    /\ SideInit /\ [][SideNext]_everything
    /\ WF_everything(ReportsAlone /\ Worker)
    /\ WF_everything(ReportsAlone /\ RetryTimer)
    /\ WF_everything(ReportsAlone /\ Ping)
=============================================================================
