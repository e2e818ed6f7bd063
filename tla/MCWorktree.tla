------------------------------ MODULE MCWorktree ------------------------------
(***************************************************************************)
(* What a start does to a worktree, in its two halves: the branch and what *)
(* is uncommitted of it (JobWorktree), and the Skills the Agent is given   *)
(* there (Skills).  They share no state but the directory, so they are     *)
(* checked side by side: part says which of the two moves, and the other   *)
(* rests where it began.                                                   *)
(***************************************************************************)
EXTENDS JobWorktree, FiniteSets

CONSTANTS Skill, Ref, Default, Caller, MaxCommands, MaxPlacements, MaxUpsets

VARIABLES part, inRepo, tip, been, disk, declared, cache, cmd, placing, entries, recorded, count

S == INSTANCE Skills WITH MaxRuns <- MaxPlacements, base <- declared, run <- placing,
                          tree <- entries

\* A source has finitely many refs, its HEAD points at one of them, and no name at all
\* is none of them.
ASSUME RefsAssumption ==
  IsFiniteSet(Ref) /\ Default \in Ref /\ S!NoRef \notin Ref /\ MaxUpsets \in Nat

Parts == {"branch", "skills"}
skillsVars == <<inRepo, tip, been, disk, declared, cache, cmd, placing, entries, recorded, count>>

PartsInit ==
  /\ part \in Parts /\ Init /\ S!Init
  /\ part = "branch" => ~inRepo /\ S!Names(disk.manifest) = {}
  /\ part = "skills" => TRUE \notin {cfg.plan, cfg.checks, cfg.agent, cfg.remote}

PartsNext ==
  \/ part = "branch" /\ Next /\ UNCHANGED <<part, skillsVars>>
  \/ part = "skills" /\ S!Next /\ UNCHANGED <<part, vars>>

PartsSpec == PartsInit /\ [][PartsNext]_<<part, vars, skillsVars>>

-----------------------------------------------------------------------------
\* A start neither begins on what it did not ask for nor costs what nobody had
\* committed: BeginsSound and NothingUncommittedIsLost of JobWorktree.
WorktreeIsKept == BeginsSound /\ NothingUncommittedIsLost

\* A Run starts with the Skills its Project declares, as they are at their source, and
\* with the worktree's own entries untouched; what it records of them is true, and one
\* that cannot start is told what helps (Skills).
SkillsAsDeclared ==
  /\ [](part = "skills" => S!RecordIsTrue)
  /\ S!StartsAsDeclared /\ S!OwnStays /\ S!FetchedIsGenuine /\ S!AdviceIsEnough
=============================================================================
