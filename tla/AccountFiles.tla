---------------------------- MODULE AccountFiles ----------------------------
(***************************************************************************)
(* The two files Owl writes into an Account's tool configuration           *)
(* directory: the settings a Run's Agent is granted its tools by, seeded   *)
(* into an Account that has none by whichever start gets there first, and  *)
(* the standing instructions every Run reads, saved through the daemon and *)
(* edited in the user's editor.  The directory is not Owl's: the user, and *)
(* the tool, write either file whenever they like, and the daemon may die  *)
(* between any two system calls.                                           *)
(***************************************************************************)
EXTENDS Naturals

CONSTANTS MaxText,         \* maxInstructions, in the model's bytes
          Starts,          \* Runs being started on the Account
          Editors,         \* calls of `owl account instructions edit`
          MaxUsersWrites,  \* how often the user writes a file by hand
          MaxCrashes       \* how often the daemon dies

Text == [size : 1 .. MaxText + 1, ended : BOOLEAN, null : BOOLEAN]
Absent == [size |-> 0, ended |-> FALSE, null |-> FALSE]    \* no file, or a blank text
Half == [size |-> 0, ended |-> TRUE, null |-> FALSE]       \* a file being written
Link == [size |-> 0, ended |-> FALSE, null |-> TRUE]       \* a name Owl must not write through

VARIABLES settings,     \* "absent", "default", "users", "unreadable" or "half"
          start,        \* of each start: "none", "looked", "made", "granted", "refused"
          grant,        \* what it was granted: "none", "default", "users"
          seeds,        \* the starts whose temporary file is still there
          file,         \* the instructions' file
          byOwl,        \* is it as Owl wrote it?
          edit,         \* of each edit: "none", "open", "closed", "saving", "written", "over"
          before,       \* what the daemon said the file held
          draft,        \* the editor's file, in a directory of Owl's own
          typed,        \* what the user left in it
          answer,       \* what the save was answered: "none", "saved", "refused", "lost"
          hand, crashes

grants == <<settings, start, grant, seeds>>
edits == <<edit, before, draft, typed, answer>>
bounds == <<hand, crashes>>
vars == <<grants, file, byOwl, edits, bounds>>

Files == Text \cup {Absent, Half, Link}

TypeOK ==
    /\ settings \in {"absent", "default", "users", "unreadable", "half"}
    /\ start \in [Starts -> {"none", "looked", "made", "granted", "refused"}]
    /\ grant \in [Starts -> {"none", "default", "users"}]
    /\ seeds \subseteq Starts
    /\ file \in Files /\ byOwl \in BOOLEAN
    /\ edit \in [Editors -> {"none", "open", "closed", "saving", "written", "over"}]
    /\ {before[e] : e \in Editors} \cup {draft[e] : e \in Editors}
          \cup {typed[e] : e \in Editors} \subseteq Files
    /\ answer \in [Editors -> {"none", "saved", "refused", "lost"}]
    /\ hand \in 0 .. MaxUsersWrites /\ crashes \in 0 .. MaxCrashes

Init ==
    /\ settings = "absent" /\ start = [s \in Starts |-> "none"]
    /\ grant = [s \in Starts |-> "none"] /\ seeds = {}
    /\ file = Absent /\ byOwl = FALSE
    /\ edit = [e \in Editors |-> "none"] /\ before = [e \in Editors |-> Absent]
    /\ draft = [e \in Editors |-> Absent] /\ typed = [e \in Editors |-> Absent]
    /\ answer = [e \in Editors |-> "none"] /\ hand = 0 /\ crashes = 0

-----------------------------------------------------------------------------
(* A start being granted what the Account's settings allow.                *)

Settle(s, g) ==
    /\ start' = [start EXCEPT ![s] = IF g = "none" THEN "refused" ELSE "granted"]
    /\ grant' = [grant EXCEPT ![s] = g]

\* readSettings: what a file allows, or a refusal of one the tool would not read.
Allows == IF settings \in {"default", "users"} THEN settings ELSE "none"

\* ensureSettings: a name that is taken is read; one that is not is seeded.
LooksForSettings(s) ==
    /\ start[s] = "none"
    /\ IF settings = "absent"
       THEN start' = [start EXCEPT ![s] = "looked"] /\ UNCHANGED grant
       ELSE Settle(s, Allows)
    /\ UNCHANGED <<settings, seeds, file, byOwl, edits, bounds>>

\* seedSettings: written in full to a file of its own.
MakesSeed(s) ==
    /\ start[s] = "looked"
    /\ seeds' = seeds \cup {s}
    /\ start' = [start EXCEPT ![s] = "made"]
    /\ UNCHANGED <<settings, grant, file, byOwl, edits, bounds>>

\* A seed moved into place, whatever is there.
LinksOver(s) == settings' = "default" /\ Settle(s, "default")

\* Link into place, or find the name taken and read what took it.
LinksSeed(s) ==
    IF settings = "absent"
    THEN settings' = "default" /\ Settle(s, "default")
    ELSE UNCHANGED settings /\ Settle(s, Allows)

Seeds(s) ==
    /\ start[s] = "made"
    /\ LinksSeed(s)
    /\ seeds' = seeds \ {s}
    /\ UNCHANGED <<file, byOwl, edits, bounds>>

-----------------------------------------------------------------------------
(* `owl account instructions edit`, and the save it ends in.               *)

Ended(t) == IF t.ended THEN t ELSE [t EXCEPT !.size = @ + 1, !.ended = TRUE]

\* What is measured before the newline the file is given.
FitsAsTyped(t) == t.size <= MaxText /\ ~t.null

\* Measured as it will be written; a null would end the file early.
Fits(t) == Ended(t).size <= MaxText /\ ~t.null

\* readInstructions: nothing for no file, a refusal of a link or of a file over
\* the bound, which is never cut down to it.
Reads(f) == f = Absent \/ (f \in Text /\ f.size <= MaxText)

\* The edit reads the file, and the editor opens on a draft of it.
Opens(e) ==
    /\ edit[e] = "none" /\ Reads(file)
    /\ edit' = [edit EXCEPT ![e] = "open"]
    /\ before' = [before EXCEPT ![e] = file] /\ draft' = [draft EXCEPT ![e] = file]
    /\ UNCHANGED <<grants, file, byOwl, typed, answer, bounds>>

\* The user leaves the editor: a draft left as it was is discarded.
Closes(e) ==
    /\ edit[e] = "open"
    /\ \E t \in Text \cup {Absent} :
          /\ typed' = [typed EXCEPT ![e] = t]
          /\ IF t = before[e]
             THEN /\ draft' = [draft EXCEPT ![e] = Absent]
                  /\ edit' = [edit EXCEPT ![e] = "over"]
             ELSE /\ draft' = [draft EXCEPT ![e] = t]
                  /\ edit' = [edit EXCEPT ![e] = "closed"]
    /\ UNCHANGED <<grants, file, byOwl, before, answer, bounds>>

\* A draft taken away before anybody knows what became of the save.
AnsweredAtOnce(e, a) ==
    /\ answer' = [answer EXCEPT ![e] = a]
    /\ edit' = [edit EXCEPT ![e] = "over"]
    /\ draft' = [draft EXCEPT ![e] = Absent]

\* What becomes of the draft: kept unless the save went through.
Answered(e, a) ==
    /\ answer' = [answer EXCEPT ![e] = a]
    /\ edit' = [edit EXCEPT ![e] = "over"]
    /\ draft' = IF a = "saved" THEN [draft EXCEPT ![e] = Absent] ELSE draft

\* SetInstructions refuses what would not read back, and a link where the file
\* belongs; a blank text takes the file away.
Saves(e) ==
    /\ edit[e] = "closed"
    /\ \/ /\ typed[e] = Absent /\ file # Link
          /\ file' = Absent /\ byOwl' = TRUE /\ Answered(e, "saved")
       \/ /\ file = Link \/ (typed[e] # Absent /\ ~Fits(typed[e]))
          /\ Answered(e, "refused") /\ UNCHANGED <<file, byOwl>>
       \/ /\ typed[e] # Absent /\ Fits(typed[e]) /\ file # Link
          /\ edit' = [edit EXCEPT ![e] = "saving"]
          /\ UNCHANGED <<file, byOwl, draft, answer>>
    /\ UNCHANGED <<grants, before, typed, bounds>>

\* A file opened under its own name and written where it stands.
TempInPlace(e) == file' = Half /\ byOwl' = TRUE

\* A temporary file beside it, written in full and closed: nothing of it shows.
Temp(e) == UNCHANGED <<file, byOwl>>

WritesTemp(e) ==
    /\ edit[e] = "saving" /\ Temp(e)
    /\ edit' = [edit EXCEPT ![e] = "written"]
    /\ UNCHANGED <<grants, before, draft, typed, answer, bounds>>

\* And moved over the real one in one step; the answer may not reach the command.
Renames(e) ==
    /\ edit[e] = "written"
    /\ file' = Ended(typed[e]) /\ byOwl' = TRUE
    /\ \E a \in {"saved", "lost"} : Answered(e, a)
    /\ UNCHANGED <<grants, before, typed, bounds>>

-----------------------------------------------------------------------------
(* The user's own hand, and a daemon that dies.                            *)

UserWrites ==
    /\ hand < MaxUsersWrites /\ hand' = hand + 1
    /\ \/ /\ settings' \in {"users", "unreadable", "absent"} /\ UNCHANGED <<file, byOwl>>
       \/ /\ \E f \in {t \in Text : ~t.null} \cup {Absent, Link} : file' = f
          /\ byOwl' = FALSE /\ UNCHANGED settings
    /\ UNCHANGED <<start, grant, seeds, edits, crashes>>

\* Every call in the daemon is lost with it, one that had not reached it may be,
\* and temporary files stay behind. The editor runs in the command.
Crash ==
    /\ crashes < MaxCrashes /\ crashes' = crashes + 1
    /\ start' = [s \in Starts |-> IF start[s] \in {"looked", "made"} THEN "none" ELSE start[s]]
    /\ \E lost \in SUBSET {e \in Editors : edit[e] \in {"closed", "saving", "written"}} :
          /\ {e \in Editors : edit[e] \in {"saving", "written"}} \subseteq lost
          /\ edit' = [e \in Editors |-> IF e \in lost THEN "over" ELSE edit[e]]
          /\ answer' = [e \in Editors |-> IF e \in lost THEN "lost" ELSE answer[e]]
    /\ UNCHANGED <<settings, grant, seeds, file, byOwl, before, draft, typed, hand>>

Owl ==
    \/ \E s \in Starts : LooksForSettings(s) \/ MakesSeed(s) \/ Seeds(s)
    \/ \E e \in Editors : Opens(e) \/ Closes(e) \/ Saves(e) \/ WritesTemp(e) \/ Renames(e)

Next == Owl \/ UserWrites \/ Crash

Spec == Init /\ [][Next]_vars

-----------------------------------------------------------------------------
(* Properties                                                              *)

\* A start is granted what the file said at that moment, whoever seeded it and
\* however many were seeding it at once, and Owl writes settings only into an
\* Account that has none (ADR-0035; seedSettings linking rather than moving).
GrantIsTheFiles ==
    [][/\ Owl /\ settings' # settings => settings = "absent"
       /\ \A s \in Starts : grant'[s] # grant[s] => grant'[s] = settings']_vars

\* Instructions Owl saved are whole and can be read back: a Run that starts
\* mid-save, or after a daemon that died in one, never reads half of them, and what
\* was accepted is never over the bound the daemon reads (SetInstructions).
SavedReadsBack == byOwl => Reads(file)

\* What the user typed is in the Account or still in the draft: a save that was
\* refused, or that the daemon never answered, leaves the draft where it is, and one
\* that went through was written before the draft was taken away
\* (newInstructionsEditCmd's keep).
NothingTypedIsLost ==
    [][\A e \in Editors :
          /\ answer'[e] \in {"refused", "lost"} => draft'[e] = typed'[e]
          /\ draft[e] # Absent /\ draft'[e] = Absent /\ edit[e] # "open"
                => file' = IF typed[e] = Absent THEN Absent ELSE Ended(typed[e])]_vars

=============================================================================
