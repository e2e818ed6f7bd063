------------------------------- MODULE Settings -------------------------------
(***************************************************************************)
(* What Owl makes of its two configuration files: which files the parsers  *)
(* of config.go take and which the published schema admits, what a phase   *)
(* of a Job runs at once the levels are laid over one another, and where a *)
(* value no tool would take is refused.  A file is a function from its     *)
(* keys to the FORM of what is written there:                              *)
(*                                                                         *)
(*   absent  the key is not there         good    an ordinary value        *)
(*   empty   ""                           blank   "  "                     *)
(*   word    a word where none is read    dashed  -x        comma  a,b     *)
(*   zero    0, 0s    minus  -5, -5m      plus    "+2", +4h tiny  10ms     *)
(*   over    150      quoted "150%"       nan     "NaN"     sign  "%"      *)
(*   bare    a model with no vendor       foreign another vendor's model   *)
(*   hidden  anthropic/-x                 ours    anthropic/claude-opus    *)
(*   twice   a name already taken         local   a relative path          *)
(*   none    no file at all, under "version" of the daemon's               *)
(*                                                                         *)
(* One phase stands for both: the two are resolved alike, each from its    *)
(* own entry.                                                              *)
(***************************************************************************)
EXTENDS Naturals, FiniteSets

CONSTANTS
    MaxEdits,   \* how many keys the user writes, in all
    TTL         \* attempts of a Job, queue.DefaultTTL

PhaseKeys == {"model", "effort", "timeout", "stall"}
DaemonKeys == PhaseKeys \cup {"version", "unknown", "graceWindow", "after",
                              "interval", "collect", "fiveHourMax",
                              "maxParallelRuns", "claudePath"}
ProjectKeys == PhaseKeys \cup {"version", "unknown", "branchPrefix", "budgetUSD",
                               "checkName", "checkRun", "expect", "checkTimeout",
                               "setup", "review", "tool", "git", "ref",
                               "maxParallelRuns"}
JobKeys == {"model", "effort"}

Durations == {"absent", "empty", "blank", "word", "zero", "minus", "plus", "tiny", "good"}

\* What may be written under a key: the forms its parsers tell apart.
Forms(key) ==
    CASE key = "model" -> {"absent", "empty", "blank", "dashed", "bare", "foreign", "hidden", "ours"}
      [] key = "effort" -> {"absent", "empty", "blank", "dashed", "good"}
      [] key = "version" -> {"absent", "word", "good"}
      [] key = "unknown" -> {"absent", "word"}
      [] key = "fiveHourMax" -> {"absent", "empty", "word", "zero", "minus", "over", "quoted",
                                 "nan", "sign", "good"}
      [] key = "maxParallelRuns" -> {"absent", "empty", "blank", "word", "zero", "minus", "plus", "good"}
      [] key = "claudePath" -> {"absent", "empty", "blank", "local", "good"}
      [] key = "branchPrefix" -> {"absent", "empty", "dashed", "good"}
      [] key = "budgetUSD" -> {"absent", "zero", "minus", "good"}
      [] key = "checkName" -> {"absent", "empty", "blank", "word", "twice", "good"}
      [] key \in {"checkRun", "setup"} -> {"absent", "empty", "blank", "good"}
      [] key = "expect" -> {"absent", "empty", "word", "good"}
      [] key = "tool" -> {"absent", "empty", "blank", "comma", "dashed", "good"}
      [] key = "git" -> {"absent", "empty", "blank", "twice", "good"}
      [] key = "ref" -> {"absent", "empty", "dashed", "good"}
      [] OTHER -> Durations

VARIABLES
    daemon,     \* the daemon's own file
    project,    \* the Project's file, as its base branch carries it
    job,        \* what `owl add` set for this Job alone
    edits,      \* how many keys were written so far
    stage,      \* where the Job is: waiting, opened (a Run exists), running, blocked
    run,        \* what the Run was resolved to, by key: value and level
    tool,       \* the Project's rule the Run carries
    spent       \* attempts spent

vars == <<daemon, project, job, edits, stage, run, tool, spent>>

Unset == {"absent", "empty"}
Positive == {"plus", "tiny", "good"}    \* what time.ParseDuration reads above zero

(***************************************************************************)
(* The parsers.                                                            *)
(***************************************************************************)

\* A key the shape does not have is refused by name.
DecodeStrict(f) == f["unknown"] = "absent"

CheckAPIVersion(f) == f["version"] = "good"

\* Models and efforts are taken as written; a limit that is not one is refused.
ParsePhases(f) == \A k \in {"timeout", "stall"} : f[k] \in Unset \cup Positive

ParseVerification(f) == f["review"] \in Unset \cup Positive

\* A check needs a name of its own and a command.  "word" as a name is the one
\* the agent Verifier goes by.
ParseChecks(f) ==
    \/ f["checkName"] = "absent" /\ f["checkRun"] = "absent"
    \/ /\ f["checkName"] = "good" /\ f["checkRun"] = "good"
       /\ f["expect"] \in Unset \cup {"good"}
       /\ f["checkTimeout"] \in Unset \cup Positive

ParseSkills(f) ==
    \/ f["git"] = "absent"
    \/ f["git"] = "good" /\ f["ref"] \in Unset \cup {"good"}

ParseParallel(f) == f["maxParallelRuns"] \in {"absent", "empty", "blank", "plus", "good"}

\* Whitespace counts as nothing written, which a phase's limit does not grant.
ParseGraceWindow(f) == f["graceWindow"] \in Unset \cup {"blank"} \cup Positive

ParseGarbageCollection(f) == f["collect"] \in Unset \cup {"blank"} \cup Positive

ParseIdle(f) ==
    /\ f["after"] \in Unset \cup {"blank"} \cup Positive
    /\ f["interval"] \in Unset \cup {"blank"} \cup (Positive \ {"tiny"})

\* Not above zero or above a hundred is refused; NaN is neither, and a sign
\* alone is nothing set.
ParsePercent == {"nan", "sign", "good"}

\* A ceiling with nothing after it is refused rather than left out.
ParseAccounts(f) == f["fiveHourMax"] \in {"absent"} \cup ParsePercent

ParseProject(f) ==
    /\ DecodeStrict(f) /\ CheckAPIVersion(f)
    /\ f["branchPrefix"] # "dashed"
    /\ f["budgetUSD"] # "minus"
    /\ ParsePhases(f) /\ ParseChecks(f) /\ ParseVerification(f)
    /\ f["setup"] \in {"absent", "good"}
    /\ f["tool"] \in {"absent", "dashed", "good"}
    /\ ParseSkills(f) /\ ParseParallel(f)

ParseGlobal(f) ==
    /\ DecodeStrict(f) /\ CheckAPIVersion(f)
    /\ ParsePhases(f) /\ ParseGarbageCollection(f) /\ ParseGraceWindow(f)
    /\ ParseIdle(f) /\ ParseAccounts(f) /\ ParseParallel(f)
    /\ f["claudePath"] # "local"

\* No file at all is not a failure: the defaults apply.
LoadGlobal(f) == f["version"] = "none" \/ ParseGlobal(f)

(***************************************************************************)
(* The schemas: what an editor tells the user of the same files.           *)
(***************************************************************************)

DurationPattern == {"absent", "empty", "zero", "tiny", "good"}

Parallel == {"absent", "good"}

Percent == {"absent", "quoted", "good"}

\* What the shapes of both files say, and the rules of `instead` and `alsoSay`
\* for the keys they share.
SchemaOf(f) ==
    /\ f["unknown"] = "absent"
    /\ f["version"] = "good"
    /\ \A k \in {"timeout", "stall"} : f[k] \in DurationPattern
    /\ f["maxParallelRuns"] \in Parallel

DaemonSchema(f) ==
    /\ SchemaOf(f)
    /\ \A k \in {"graceWindow", "after", "interval", "collect"} : f[k] \in DurationPattern
    /\ f["fiveHourMax"] \in Percent
    /\ f["claudePath"] \in {"absent", "empty", "good"}

ProjectSchema(f) ==
    /\ SchemaOf(f)
    /\ \A k \in {"checkTimeout", "review"} : f[k] \in DurationPattern
    /\ f["branchPrefix"] # "dashed"
    /\ f["budgetUSD"] # "minus"
    /\ f["checkName"] # "empty" /\ f["checkRun"] # "empty"
    /\ (f["checkName"] = "absent") <=> (f["checkRun"] = "absent")
    /\ f["expect"] \in {"absent", "good"}
    /\ f["setup"] # "empty"
    /\ f["tool"] \notin {"empty", "comma"}
    /\ f["git"] # "empty"
    /\ f["ref"] # "dashed"

(***************************************************************************)
(* What a phase runs at.                                                   *)
(***************************************************************************)

Defaults == [k \in PhaseKeys |-> [value |-> IF k = "model" THEN "ours" ELSE "good",
                                  from |-> "default"]]

\* A level sets what it writes and leaves the rest as it found it.
Apply(s, f, from) ==
    [k \in PhaseKeys |-> IF k \in DOMAIN f /\ f[k] \notin Unset
                         THEN [value |-> f[k], from |-> from]
                         ELSE s[k]]

\* Mutant: the levels are laid on in the order they are read.
ResolveInReadingOrder(d, p, j) ==
    Apply(Apply(Apply(Defaults, p, "project"), d, "global"), j, "job")

Resolve(d, p, j) == Apply(Apply(Apply(Defaults, d, "global"), p, "project"), j, "job")

\* Mutant: only the written model is looked at for a dash.
ParseModelAsWritten == {"hidden", "foreign", "ours"}

\* vendor/model, neither half empty nor starting with a dash.
ParseModel == {"foreign", "ours"}

\* resolve's own checks, made before a worktree is.
Usable(s) ==
    /\ \A k \in {"model", "effort"} : s[k].value \notin {"blank", "dashed"}
    /\ s["model"].value \in ParseModel

\* What the Driver builds a command line of: a model of its own vendor, a value
\* that is no option, and rules the tool can read.
Command(s, rule) ==
    /\ s["model"].value = "ours"
    /\ s["effort"].value # "dashed"
    /\ rule \notin {"dashed", "comma"}

\* `owl add --model --effort`.
UsableSetting(w) == w # "dashed"

(***************************************************************************)
(* The user writing, and a Job being started.                              *)
(***************************************************************************)

Written(keys, model) ==
    [k \in keys |-> IF k = "version" THEN "good" ELSE IF k = "model" THEN model ELSE "absent"]

Init ==
    /\ daemon = [Written(DaemonKeys, "absent") EXCEPT !["version"] = "none"]
    /\ project = [Written(ProjectKeys, "absent") EXCEPT !["checkName"] = "good", !["checkRun"] = "good"]
    /\ job \in {j \in [JobKeys -> {"empty", "ours", "bare", "good"}] :
                  j["model"] # "good" /\ j["effort"] \in {"empty", "good"}}
    /\ \A k \in JobKeys : UsableSetting(job[k])
    /\ edits = 0 /\ stage = "waiting" /\ run = Defaults /\ tool = "absent" /\ spent = 0

\* The first key written makes the file, with the apiVersion it must carry.
EditDaemon ==
    /\ edits < MaxEdits /\ edits' = edits + 1
    /\ \E k \in DaemonKeys : \E w \in Forms(k) \ {daemon[k]} :
         daemon' = [daemon EXCEPT !["version"] = IF @ = "none" THEN "good" ELSE @, ![k] = w]
    /\ UNCHANGED <<project, job, stage, run, tool, spent>>

EditProject ==
    /\ edits < MaxEdits /\ edits' = edits + 1
    /\ \E k \in ProjectKeys : \E w \in Forms(k) \ {project[k]} : project' = [project EXCEPT ![k] = w]
    /\ UNCHANGED <<daemon, job, stage, run, tool, spent>>

\* start: the Project's file, the daemon's, what the phase runs at.  Refused,
\* the Job stays as it was; taken, it gets a worktree and a Run.
Start ==
    /\ stage = "waiting"
    /\ ParseProject(project) /\ LoadGlobal(daemon)
    /\ Usable(Resolve(daemon, project, job))
    /\ run' = Resolve(daemon, project, job)
    /\ tool' = project["tool"]
    /\ stage' = "opened"
    /\ UNCHANGED <<daemon, project, job, edits, spent>>

\* execute builds the Agent's command line of what the start carried.
Execute ==
    /\ stage = "opened"
    /\ Command(run, tool)
    /\ stage' = "running"
    /\ UNCHANGED <<daemon, project, job, edits, run, tool, spent>>

\* And a command line that cannot be built is a failed Run: an attempt is
\* spent, and a Job with none left is blocked.
Fail ==
    /\ stage = "opened"
    /\ ~Command(run, tool)
    /\ spent' = spent + 1
    /\ stage' = IF spent + 1 < TTL THEN "waiting" ELSE "blocked"
    /\ UNCHANGED <<daemon, project, job, edits, run, tool>>

\* The Agent ends and the Job goes back for its next Run.
End ==
    /\ stage = "running"
    /\ stage' = "waiting"
    /\ UNCHANGED <<daemon, project, job, edits, run, tool, spent>>

Next == EditDaemon \/ EditProject \/ Start \/ Execute \/ Fail \/ End

Spec == Init /\ [][Next]_vars

(***************************************************************************)
(* Properties.                                                             *)
(***************************************************************************)

\* The levels, narrowest last.
Level == <<daemon, project, job>>
Named == <<"global", "project", "job">>

\* The narrowest level that says anything of key, 0 for none.
Narrowest(key) ==
    LET says == {i \in 1..3 : key \in DOMAIN Level[i] /\ Level[i][key] \notin Unset}
    IN  IF says = {} THEN 0 ELSE CHOOSE i \in says : \A o \in says : o <= i

\* A start resolves every setting from the narrowest level that writes it, as
\* the files stand at that moment, and says which level it was (resolve,
\* ADR-0028): an earlier Run's settings and a wider level's never linger.
RunsAtTheNarrowest ==
    [][stage = "waiting" /\ stage' = "opened" =>
         \A k \in PhaseKeys :
            run'[k] = IF Narrowest(k) = 0 THEN Defaults[k]
                      ELSE [value |-> Level[Narrowest(k)][k], from |-> Named[Narrowest(k)]]]_vars

\* What is written in a file costs a Job an attempt only in the two ways the
\* code leaves open: another vendor's model, and a rule that reads as an option.
\* Every other value of the forms above that a tool would not take is refused before
\* a Run exists.  (They leave out a budget of .inf, which config.go:399 lets through.)
RefusedWhereWritten ==
    [][spent' > spent => run["model"].value = "foreign" \/ tool = "dashed"]_vars

\* ADR-0028: another vendor's model is refused in resolve, before the Job gets
\* a worktree.  The code reads the vendor and checks it only in the Driver's
\* Command, once the Run exists: violated.
RefusedBeforeItsWorktree == spent = 0

\* schema.go: a schema that tells the user their file is fine when Owl will
\* refuse it is worse than none.  A zero duration is admitted and refused:
\* violated.
SchemaTellsTheTruth ==
    /\ DaemonSchema(daemon) => ParseGlobal(daemon)
    /\ ProjectSchema(project) => ParseProject(project)

\* parseAccounts: a ceiling nobody is keeping is what the setting exists to
\* prevent.  NaN and a sign alone are taken and hold nothing back: violated.
CeilingTakenIsKept ==
    ParseGlobal(daemon) => daemon["fiveHourMax"] \in {"absent", "good"}
===============================================================================
