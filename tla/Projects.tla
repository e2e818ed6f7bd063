------------------------------- MODULE Projects -------------------------------
(***************************************************************************)
(* Projects and the configuration Owl keeps for them: internal/project     *)
(* (Add, Show, Setup, Rename, Remove) over internal/store/projects.go.     *)
(*                                                                         *)
(* A Project's row and its directory under the configuration home are tied *)
(* by the name alone, and nothing holds the two together while a rename    *)
(* moves first the one and then the other: another command, a Run that     *)
(* reads the configuration, or the daemon's end may come in between.       *)
(* Configuration in a Project's own repository is not Owl's, and not here. *)
(***************************************************************************)
EXTENDS Naturals

CONSTANTS
  Name,
  Op,         \* bound: commands under way at a time
  MaxAdds,    \* bound: Projects ever registered
  MaxFaults   \* bound: writes refused by the database, and daemons that die

Project == 1..MaxAdds
Idle == [at |-> "idle", from |-> CHOOSE n \in Name : TRUE, to |-> CHOOSE n \in Name : TRUE,
         of |-> 0, moved |-> FALSE]

VARIABLES
  row,      \* the Project registered by each name; 0 when there is none
  dir,      \* the Project whose configuration a name's directory holds; 0 when there is none
  op,       \* the commands under way
  adds, faults,
  raced     \* history: two that write shared a name, or the daemon died in one

vars == <<row, dir, op, adds, faults, raced>>

TypeOK ==
  /\ row \in [Name -> 0..MaxAdds] /\ dir \in [Name -> 0..MaxAdds]
  /\ op \in [Op -> [at: {"idle", "rename", "row", "undo", "setup", "shown"},
                    from: Name, to: Name, of: 0..MaxAdds, moved: BOOLEAN]]
  /\ adds \in 0..MaxAdds /\ faults \in 0..MaxFaults /\ raced \in BOOLEAN

Init ==
  /\ row = [n \in Name |-> 0] /\ dir = [n \in Name |-> 0]
  /\ op = [o \in Op |-> Idle]
  /\ adds = 0 /\ faults = 0 /\ raced = FALSE

Ends(o)    == op' = [op EXCEPT ![o] = Idle]
Goes(o, s) == op' = [op EXCEPT ![o].at = s]
Fault      == faults < MaxFaults /\ faults' = faults + 1
Shared(o, names) ==
  raced' = (raced \/ \E q \in Op \ {o} : /\ op[q].at \notin {"idle", "shown"}
                                        /\ {op[q].from, op[q].to} \cap names # {})

-----------------------------------------------------------------------------
(* The commands that are one statement.                                     *)

Add(n) ==
  /\ row[n] = 0 /\ adds < MaxAdds
  /\ adds' = adds + 1 /\ row' = [row EXCEPT ![n] = adds + 1]
  /\ UNCHANGED <<dir, op, faults, raced>>

\* The directory is left: it is hand-written.
Remove(n) ==
  /\ row[n] # 0 /\ row' = [row EXCEPT ![n] = 0]
  /\ UNCHANGED <<dir, op, adds, faults, raced>>

-----------------------------------------------------------------------------
(* Rename.                                                                  *)

\* The two names, as the database has them.
RenameBegins(o, from, to) ==
  /\ op[o] = Idle /\ row[from] # 0 /\ row[to] = 0
  /\ op' = [op EXCEPT ![o] = [Idle EXCEPT !.at = "rename", !.from = from, !.to = to,
                                          !.of = row[from]]]
  /\ Shared(o, {from, to})
  /\ UNCHANGED <<row, dir, adds, faults>>

\* moveConfigDir: nothing to move, something in the way, or moved.
MovesDir(o) ==
  LET from == op[o].from
      to   == op[o].to
  IN
  /\ op[o].at = "rename"
  /\ \/ dir[from] = 0 /\ Goes(o, "row") /\ UNCHANGED dir
     \/ dir[from] # 0 /\ dir[to] # 0 /\ Ends(o) /\ UNCHANGED dir
     \/ /\ dir[from] # 0 /\ dir[to] = 0
        /\ dir' = [dir EXCEPT ![from] = 0, ![to] = dir[from]]
        /\ op' = [op EXCEPT ![o].at = "row", ![o].moved = TRUE]
  /\ UNCHANGED <<row, adds, faults, raced>>

\* RenameProject: the row may be gone, the name taken, or the write refused.
RenamesRow(o) ==
  LET from == op[o].from
      to   == op[o].to
  IN
  /\ op[o].at = "row"
  /\ \/ /\ row[from] # 0 /\ row[to] = 0
        /\ row' = [row EXCEPT ![from] = 0, ![to] = row[from]]
        /\ Ends(o) /\ UNCHANGED faults
     \/ /\ \/ (row[from] = 0 \/ row[to] # 0) /\ UNCHANGED faults
           \/ Fault
        /\ IF op[o].moved THEN Goes(o, "undo") ELSE Ends(o)
        /\ UNCHANGED row
  /\ UNCHANGED <<dir, adds, raced>>

\* Mutant of PutBack: a refused rename keeps what it moved.
PutBackNothing(from, to) == dir

\* os.Rename(dst, src), of whatever is there; it fails over a directory that is not
\* empty, and when there is nothing.
PutBack(from, to) ==
  IF dir[to] # 0 /\ dir[from] = 0 THEN [dir EXCEPT ![from] = dir[to], ![to] = 0] ELSE dir

Undo(o) ==
  /\ op[o].at = "undo" /\ dir' = PutBack(op[o].from, op[o].to) /\ Ends(o)
  /\ UNCHANGED <<row, adds, faults, raced>>

-----------------------------------------------------------------------------
(* Setup, and whoever reads a Project with its configuration.               *)

\* Discovery is what decides, so a Project that has a configuration is refused.
SetupBegins(o, n) ==
  /\ op[o] = Idle /\ row[n] # 0 /\ dir[n] = 0
  /\ op' = [op EXCEPT ![o] = [Idle EXCEPT !.at = "setup", !.from = n, !.to = n,
                                          !.of = row[n]]]
  /\ Shared(o, {n})
  /\ UNCHANGED <<row, dir, adds, faults>>

\* Mutant of Written: the file is created over what is there by now.
WrittenOver(n, x) == [dir EXCEPT ![n] = x]

\* O_EXCL: asking and writing are one call.
Written(n, x) == IF dir[n] = 0 THEN [dir EXCEPT ![n] = x] ELSE dir

WritesFirst(o) ==
  /\ op[o].at = "setup"
  /\ dir' = Written(op[o].from, op[o].of) /\ Ends(o)
  /\ UNCHANGED <<row, adds, faults, raced>>

\* Show reads the row, and then the configuration by the name it has.
ShowBegins(o, n) ==
  /\ op[o] = Idle /\ row[n] # 0
  /\ op' = [op EXCEPT ![o] = [Idle EXCEPT !.at = "shown", !.from = n, !.of = row[n]]]
  /\ UNCHANGED <<row, dir, adds, faults, raced>>

ShowReads(o) ==
  /\ op[o].at = "shown" /\ Ends(o)
  /\ UNCHANGED <<row, dir, adds, faults, raced>>

\* The daemon dies, and with it every command under way.
Crash ==
  /\ Fault /\ \E o \in Op : op[o] # Idle
  /\ op' = [o \in Op |-> Idle]
  /\ raced' = (raced \/ \E o \in Op : op[o].moved)
  /\ UNCHANGED <<row, dir, adds>>

Next ==
  \/ \E n \in Name : Add(n) \/ Remove(n)
  \/ \E o \in Op :
       \/ \E n \in Name : \/ SetupBegins(o, n) \/ ShowBegins(o, n)
                          \/ \E m \in Name \ {n} : RenameBegins(o, n, m)
       \/ MovesDir(o) \/ RenamesRow(o) \/ Undo(o) \/ WritesFirst(o) \/ ShowReads(o)
  \/ Crash

Spec == Init /\ [][Next]_vars

-----------------------------------------------------------------------------
(* Properties.                                                              *)

\* A registered Project's configuration is under its own name once no command is
\* under way, whichever of them were refused and whatever was registered or removed
\* in the middle of one: either both of a rename happen or neither does.  As
\* long as no two renames, nor a rename and a setup, share a name at once.
\* (Rename, and the undo it keeps for the database's refusal.)
ConfigFollowsTheName ==
  ~raced /\ (\A o \in Op : op[o] = Idle) =>
    \A n, m \in Name : row[n] # 0 /\ dir[m] = row[n] => m = n

\* A configuration, once written, is always somewhere: no rename, no undo and no
\* setup writes over one, however they overlap and wherever the daemon dies.
\* (moveConfigDir; O_EXCL in writeFirstConfig.)
NothingWrittenIsLost ==
  [][\A n \in Name : dir[n] # 0 => \E m \in Name : dir'[m] = dir[n]]_vars

\* "Either both happen or neither does": not while a rename is under way.  A Run
\* that starts then, or an owl project show, finds a configured Project bare and
\* takes the defaults for it.
ReadsItsConfig ==
  [][\A o \in Op :
       LET x == op[o].of
           n == op[o].from
       IN op[o].at = "shown" /\ op'[o] = Idle /\ row[n] = x /\ x \in {dir[m] : m \in Name}
            => dir[n] # 0]_vars
=============================================================================
