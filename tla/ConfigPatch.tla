---------------------------- MODULE ConfigPatch ----------------------------
(***************************************************************************)
(* src/atfield/config_writer.py, the PATCH and profile handlers of          *)
(* http_api.py and the reload of service.py: handler threads edit the text  *)
(* of config.toml, one field at a time and without a lock around reading    *)
(* and replacing it, while the tick loop reloads it.                        *)
(*                                                                          *)
(* The text is a sequence of lines that matter: a header ([[rules]] or a    *)
(* [table]) or a key with its value, and the marks of the line, which are   *)
(* what the loader reads and the patterns of the writer do not:             *)
(*   "exponent"  digits the pattern leaves alone, 9e1 or 4_000: ten times   *)
(*               the value here                                             *)
(*   "sign"      a number the pattern does not match, +85                   *)
(*   "spaced"    a header with blanks inside, [[ rules ]]                   *)
(*   "unended"   the last line of a file without a final newline            *)
(*   "remark"    a comment at the end of a line                             *)
(*   "glued"     a second assignment on the same line                       *)
(* A text is one that the loader accepts or not; what makes the difference  *)
(* for an edit is kept: a line that is no TOML, a key set twice, a kill     *)
(* rule with notify = true, a min_fraction_over outside (0, 1].             *)
(***************************************************************************)
EXTENDS Integers, Sequences, SequencesExt, FiniteSetsExt

CONSTANTS
    Handlers,          \* threads of the HTTP server
    Requests,          \* what clients send: [kind, edits]
    Default,           \* the text materialize_default_config() writes
    OnDisk,            \* texts the service may be started with
    MaxRequests,       \* bound: requests received
    MaxWriteFailures   \* bound: writes the disk refuses

VARIABLES
    file,              \* config.toml: a text, or Missing
    hasPath,           \* the loop was given the path at its start
    requested,         \* _reload_requested
    loading,           \* the loop has taken the request and not read the file
    loaded,            \* the text the engine was built from, or Defaults
    handler,           \* what each thread is doing
    received,          \* requests so far
    failures,          \* refused writes so far
    leftover           \* history: a failed request has changed the file and
                       \* nothing was loaded since

loop == <<loading, loaded>>
bounds == <<received, failures>>
configVars == <<file, hasPath, requested, loop, handler, bounds, leftover>>

\* MUTABLE_RULE_FIELDS: the loader's names of tables and rules are not edited.
MutableFields == {"threshold", "window_s", "cooldown_s", "action", "min_fraction_over"}

ASSUME RequestsAssumption ==
    \A r \in Requests :
       /\ Len(r.edits) \in Nat
       /\ r.edits = [i \in 1..Len(r.edits) |-> r.edits[i]]
       /\ \A i \in 1..Len(r.edits) : r.edits[i].field \in MutableFields

Missing == <<>>
Defaults == <<[key |-> "built-in", marks |-> {}]>>

Idle == [at |-> "idle", edits |-> <<>>, kind |-> "none", text |-> <<>>,
         wrote |-> FALSE]
-----------------------------------------------------------------------------
\* _replace_or_inject_rule_field(). What it takes for a header, a name and the
\* number of a field.
IsHeader(line) == line.key = "header"
SeenHeader(line) == IsHeader(line) /\ "spaced" \notin line.marks
Names(line, rule) == line.key = "name" /\ line.value = rule
Matches(line, field) == line.key = field /\ "sign" \notin line.marks

\* A line between [[rules]] and the next header that it sees.
InRules(text, i) ==
    \E n \in 1..i :
       /\ SeenHeader(text[n]) /\ text[n].value = "rules"
       /\ \A k \in (n + 1)..i : ~SeenHeader(text[k])

NameLines(text, rule) == {n \in DOMAIN text : Names(text[n], rule) /\ InRules(text, n)}

Known(text, rule) == NameLines(text, rule) # {}

FaultyInTarget_NeverClosed(text, i, rule) ==
    \E n \in NameLines(text, rule) : n < i

\* A line belongs to the target once the name has been seen and until the next
\* header.
InTarget(text, i, rule) ==
    \E n \in NameLines(text, rule) : n < i /\ \A k \in n..i : ~SeenHeader(text[k])

Block(text, rule) == {i \in DOMAIN text : InTarget(text, i, rule)}

\* What comes after a last line without a newline becomes part of it: of its
\* comment, or of its value.
Glued(line) ==
    [line EXCEPT !.marks = (@ \ {"unended"})
                             \cup (IF "remark" \in @ THEN {} ELSE {"glued"})]

Injected(text, last, edit) ==
    IF "unended" \in text[last].marks THEN [text EXCEPT ![last] = Glued(@)]
    ELSE InsertAt(text, last + 1,
                  [key |-> edit.field, value |-> edit.value, marks |-> {}])

\* The first line of the field gets the new value in place of what the pattern
\* matches and keeps the rest; without one, a line is added to the block.
Replaced(text, edit) ==
    LET block == Block(text, edit.rule)
        hits == {i \in block : Matches(text[i], edit.field)} IN
    IF hits # {} THEN [text EXCEPT ![Min(hits)].value = edit.value]
    ELSE Injected(text, Max(block \cup NameLines(text, edit.rule)), edit)

\* patch_rule_fields(): what a field may be (fractions in percent); a preset
\* is not checked.
Valid(edit) ==
    CASE edit.field = "threshold" -> edit.value \in 60..110
      [] edit.field = "min_fraction_over" -> edit.value \in 0..100
      [] edit.field = "cooldown_s" -> edit.value >= 0
      [] edit.field = "action" -> edit.value \in {"kill", "throttle", "log"}
-----------------------------------------------------------------------------
\* load_config(): TOML first (no key twice in a table), then _parse_rules().
RuleOf(text, i) ==
    Max({0} \cup {k \in 1..i : IsHeader(text[k])})

SameRule(text, i, j) == RuleOf(text, i) = RuleOf(text, j)

ValueOf(line) == IF "exponent" \in line.marks THEN 10 * line.value ELSE line.value

KeyTwice(text) ==
    \E i, j \in DOMAIN text :
       /\ i # j /\ SameRule(text, i, j)
       /\ ~IsHeader(text[i]) /\ text[i].key = text[j].key

WellFormed(text) ==
    /\ ~KeyTwice(text)
    /\ \A i \in DOMAIN text : "glued" \notin text[i].marks

RejectedRule(text) ==
    \/ \E i, j \in DOMAIN text :
         /\ SameRule(text, i, j)
         /\ text[i].key = "notify" /\ text[i].value
         /\ text[j].key = "action" /\ text[j].value = "kill"
    \/ \E i \in DOMAIN text :
         text[i].key = "min_fraction_over" /\ ValueOf(text[i]) \notin 1..100

Loadable(text) == WellFormed(text) /\ ~RejectedRule(text)

\* _load_config_safe(): what cannot be loaded is replaced by the defaults, and
\* the service only observes. No file: the defaults.
Load(text) == IF text # Missing /\ Loadable(text) THEN text ELSE Defaults

ConfigInit ==
    /\ file \in OnDisk \cup {Missing}
    /\ hasPath = (file # Missing)
    /\ requested = FALSE
    /\ loading = FALSE
    /\ loaded = IF hasPath THEN Load(file) ELSE Defaults
    /\ handler = [h \in Handlers |-> Idle]
    /\ received = 0 /\ failures = 0
    /\ leftover = FALSE
-----------------------------------------------------------------------------
Become(h, next) == handler' = [handler EXCEPT ![h] = next]

Receive(h) ==
    /\ handler[h].at = "idle"
    /\ received < MaxRequests
    /\ received' = received + 1
    /\ \E r \in Requests :
         Become(h, [Idle EXCEPT !.at = "field", !.edits = r.edits,
                                !.kind = r.kind])
    /\ UNCHANGED <<file, hasPath, requested, loop, failures, leftover>>

Edit(h) == Head(handler[h].edits)

\* 4xx or 5xx: later fields are not touched, earlier ones stay, and nothing
\* asks for a reload.
Refuse(h) ==
    /\ Become(h, Idle)
    /\ leftover' = (leftover \/ handler[h].wrote)
    /\ UNCHANGED <<file, hasPath, requested, loop>>

RejectValue(h) ==
    /\ handler[h].at = "field"
    /\ handler[h].edits # <<>>
    /\ handler[h].kind = "patch" /\ ~Valid(Edit(h))
    /\ Refuse(h)
    /\ UNCHANGED bounds

\* update_rule_field(): without a file the defaults are written first.
Look(h) ==
    /\ handler[h].at = "field"
    /\ handler[h].edits # <<>>
    /\ handler[h].kind = "patch" => Valid(Edit(h))
    /\ Become(h, [handler[h] EXCEPT
                    !.at = IF file = Missing THEN "materialize" ELSE "read"])
    /\ UNCHANGED <<file, hasPath, requested, loop, bounds, leftover>>

\* _atomic_write(): a complete file takes the place of the old one.
Materialize(h) ==
    /\ handler[h].at = "materialize"
    /\ file' = Default
    /\ Become(h, [handler[h] EXCEPT !.at = "read", !.wrote = TRUE])
    /\ UNCHANGED <<hasPath, requested, loop, bounds, leftover>>

Read(h) ==
    /\ handler[h].at = "read"
    /\ Known(file, Edit(h).rule)
    /\ Become(h, [handler[h] EXCEPT !.at = "write",
                                    !.text = Replaced(file, Edit(h))])
    /\ UNCHANGED <<file, hasPath, requested, loop, bounds, leftover>>

RuleNotFound(h) ==
    /\ handler[h].at = "read"
    /\ ~Known(file, Edit(h).rule)
    /\ Refuse(h)
    /\ UNCHANGED bounds

\* The threshold of a PATCH asks for a reload of its own.
Write(h) ==
    /\ handler[h].at = "write"
    /\ file' = handler[h].text
    /\ Become(h, [handler[h] EXCEPT
                    !.at = IF /\ handler[h].kind = "patch"
                              /\ Edit(h).field = "threshold"
                           THEN "request" ELSE "field",
                    !.edits = Tail(@), !.text = <<>>, !.wrote = TRUE])
    /\ UNCHANGED <<hasPath, requested, loop, bounds, leftover>>

WriteFails(h) ==
    /\ handler[h].at \in {"materialize", "write"}
    /\ failures < MaxWriteFailures
    /\ failures' = failures + 1
    /\ Refuse(h)
    /\ UNCHANGED received

RequestReload(h) ==
    /\ handler[h].at = "request"
    /\ requested' = TRUE
    /\ Become(h, [handler[h] EXCEPT !.at = "field"])
    /\ UNCHANGED <<file, hasPath, loop, bounds, leftover>>

FaultyAnswer_NoReload(h) ==
    /\ handler[h].at = "field"
    /\ handler[h].edits = <<>>
    /\ requested' = (requested \/ handler[h].kind = "reload")
    /\ Become(h, Idle)
    /\ UNCHANGED <<file, hasPath, loop, bounds, leftover>>

\* Every field is written: a reload is requested, and 200.
Answer(h) ==
    /\ handler[h].at = "field"
    /\ handler[h].edits = <<>>
    /\ requested' = TRUE
    /\ Become(h, Idle)
    /\ UNCHANGED <<file, hasPath, loop, bounds, leftover>>
-----------------------------------------------------------------------------
\* consume_reload_request(), then the file is read.
Consume ==
    /\ ~loading
    /\ requested
    /\ requested' = FALSE
    /\ loading' = TRUE
    /\ UNCHANGED <<file, hasPath, loaded, handler, bounds, leftover>>

Reload ==
    /\ loading
    /\ loading' = FALSE
    /\ loaded' = IF hasPath THEN Load(file) ELSE Defaults
    /\ leftover' = FALSE
    /\ UNCHANGED <<file, hasPath, requested, handler, bounds>>

Serve(h) ==
    \/ RejectValue(h) \/ Look(h) \/ Materialize(h) \/ Read(h)
    \/ RuleNotFound(h) \/ Write(h) \/ RequestReload(h) \/ Answer(h)

Loop == Consume \/ Reload

ConfigNext ==
    \/ Loop
    \/ \E h \in Handlers : Receive(h) \/ Serve(h) \/ WriteFails(h)

ConfigFileSpec == ConfigInit /\ [][ConfigNext]_configVars
-----------------------------------------------------------------------------
Quiet ==
    /\ ~requested /\ ~loading
    /\ \A h \in Handlers : handler[h].at = "idle"

(* However two requests and a reload interleave, once nothing is under way   *)
(* the engine runs what is in the file: a change is always followed by a     *)
(* reload that reads it. Only a request that failed half way leaves the file *)
(* ahead of the engine. (A service that was started without a file never     *)
(* reads the one a PATCH writes.)                                            *)
LoadedFollowsFile ==
    Quiet /\ hasPath /\ ~leftover => loaded = Load(file)

\* What the text says of a field of a rule, wherever in its table.
Said(text, rule, field) ==
    {ValueOf(text[i]) : i \in {i \in DOMAIN text :
        /\ text[i].key = field
        /\ \E n \in DOMAIN text : Names(text[n], rule) /\ SameRule(text, i, n)}}

\* The writer reads what it needs of the text as the loader does.
ReadsAlike(text, edit) ==
    LET field == {i \in Block(text, edit.rule) : text[i].key = edit.field} IN
    /\ \A i \in DOMAIN text : IsHeader(text[i]) => SeenHeader(text[i])
    /\ \A i \in field : text[i].marks \cap {"exponent", "sign"} = {}
    /\ field # {} \/ \A i \in DOMAIN text : "unended" \notin text[i].marks

(* An edit that has been prepared says the new value of its field, and no    *)
(* other field of any rule changes: replacing the right line, and where      *)
(* there is none adding one inside the right table, also between tables of   *)
(* other kinds. This is so of a file whose headers have no blanks inside,    *)
(* for a field that is a plain number where it is set, and where it has to   *)
(* be added in a file that ends with a newline.                              *)
EditsAreLocal ==
    [][\A h \in Handlers : handler'[h].at = "write" /\ handler[h].at = "read"
                           /\ ReadsAlike(file, Edit(h)) =>
         LET edit == Edit(h)
             rules == {line.value : line \in {l \in ToSet(file) : l.key = "name"}}
             fields == {line.key : line \in ToSet(file)} \cup {edit.field} IN
         /\ edit.value \in Said(handler'[h].text, edit.rule, edit.field)
         /\ \A r \in rules, f \in fields : <<r, f>> # <<edit.rule, edit.field>> =>
              Said(handler'[h].text, r, f) = Said(file, r, f)]_configVars

(* No request turns a file that can be loaded into one that cannot, which    *)
(* would leave the watchdog observing only.                                  *)
PatchesKeepTheGuard ==
    file # Missing => Loadable(file)
=============================================================================
