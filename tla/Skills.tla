---- MODULE Skills ----
(* A Project's Skills: the manifest that declares them, the lockfile that     *)
(* pins them, the commands that write the two, the cache they are fetched     *)
(* into, and their placement in a Job's worktree at the start of each Run.    *)
(*   internal/skill/{service,cache,place,lock}.go, internal/project/skills.go *)
(*   project.Service.Show, run.Service.placeSkills                            *)
(* A commit stands for its content and so for its digest: git gives a commit  *)
(* one content, and the digest is computed from it.  One worktree is followed *)
(* through its Runs; the other Jobs of the daemon are there as Agents that    *)
(* may change the cache at any time.                                          *)
EXTENDS Naturals, FiniteSets, FiniteSetsExt

CONSTANTS Skill,        \* the Skills a Project may declare, by name
          Ref,          \* the refs of a source
          Default,      \* the ref a source's HEAD points at
          Caller,       \* `owl skills` commands that can be under way at once
          MaxCommands, MaxRuns,
          MaxUpsets     \* pushes to a source, edits by hand, changes to the
                        \* cache and crashes of the daemon, taken together

VARIABLES
  inRepo,    \* the Project is configured in its own repository
  tip,       \* what every ref of every Skill's source points at
  been,      \* what it has ever pointed at (history)
  disk,      \* the manifest and the lockfile `owl skills` edits
  base,      \* the ones the base branch carries
  cache,     \* what the cache holds under each digest
  cmd,       \* the commands under way
  run,       \* the Run being started or running on the worktree
  tree,      \* the worktree's skills directory and what hides it
  recorded,  \* what the last Run recorded it used
  count      \* how often each bounded thing happened
vars == <<inRepo, tip, been, disk, base, cache, cmd, run, tree, recorded, count>>

NoRef == "the default branch"
None == [is |-> "nothing"]
Asked == Ref \cup {NoRef}
Commit == 1 .. Cardinality(Ref) + MaxUpsets
Declared == [ref : Asked, auto : BOOLEAN]
Locked == [ref : Asked, commit : Commit]
Manifests == [Skill -> Declared \cup {None}]
Locks == [Skill -> Locked \cup {None}]
Names(files) == {s \in DOMAIN files : files[s] # None}

EmptyTree == [entry |-> [s \in Skill |-> 0], staged |-> 0, hidden |-> {}, kept |-> FALSE]
Own == Cardinality(Ref) + MaxUpsets + 1      \* an entry Owl did not make
Idle == [at |-> "idle"]

\* Each ref at a commit of its own; a Project that declares some Skills, and
\* whose lockfile pins them all, or none because the command adding them died.
Apart == CHOOSE first \in [Ref -> 1 .. Cardinality(Ref)] :
           \A r, q \in Ref : first[r] = first[q] => r = q
FilesOf(declared, locked) ==
  [manifest |-> [s \in Skill |-> IF s \in declared THEN [ref |-> Default, auto |-> FALSE] ELSE None],
   lock |-> [s \in Skill |-> IF s \in locked THEN [ref |-> Default, commit |-> Apart[Default]] ELSE None]]

Init ==
  /\ inRepo \in BOOLEAN
  /\ tip = [s \in Skill |-> Apart]
  /\ been = [s \in Skill |-> [r \in Ref |-> {tip[s][r]}]]
  /\ \E declared \in SUBSET Skill : disk \in {FilesOf(declared, declared), FilesOf(declared, {})}
  /\ base = disk
  /\ cache = [s \in Skill |-> [c \in Commit |-> "absent"]]
  /\ cmd = [u \in Caller |-> Idle]
  /\ run = Idle
  /\ tree = EmptyTree
  /\ recorded = [s \in Skill |-> None]
  /\ count = [commands |-> 0, runs |-> 0, upsets |-> 0]

Once(what, bound) == count[what] < bound /\ count' = [count EXCEPT ![what] = @ + 1]

-----------------------------------------------------------------------------
(* The sources, the user and the Agents.                                     *)

\* Somebody pushes to a source.
SourceMoves(s, r) ==
  /\ Once("upsets", MaxUpsets)
  /\ LET c == Cardinality(Ref) + count.upsets + 1 IN
     /\ tip' = [tip EXCEPT ![s][r] = c]
     /\ been' = [been EXCEPT ![s][r] = @ \cup {c}]
  /\ UNCHANGED <<inRepo, disk, base, cache, cmd, run, tree, recorded>>

\* The user edits the manifest by hand: another ref, or another auto_update.
EditsManifest(s, d) ==
  /\ Once("upsets", MaxUpsets)
  /\ disk.manifest[s] # None /\ d # disk.manifest[s]
  /\ disk' = [disk EXCEPT !.manifest[s] = d]
  /\ UNCHANGED <<inRepo, tip, been, base, cache, cmd, run, tree, recorded>>

\* The user commits one of the two files or both to the base branch.
Commits(files) ==
  /\ inRepo /\ files # {}
  /\ base' = [f \in DOMAIN base |-> IF f \in files THEN disk[f] ELSE base[f]]
  /\ base' # base
  /\ UNCHANGED <<inRepo, tip, been, disk, cache, cmd, run, tree, recorded, count>>

\* An Agent reaches the cache through the link in its worktree.
Tampers(s, c, to) ==
  /\ Once("upsets", MaxUpsets)
  /\ cache[s][c] = "genuine" /\ to \in {"changed", "absent"}
  /\ cache' = [cache EXCEPT ![s][c] = to]
  /\ UNCHANGED <<inRepo, tip, been, disk, base, cmd, run, tree, recorded>>

\* The Run's Agent takes an entry away, or puts one of its own in its place.
AgentWrites(s, e) ==
  /\ run.at = "running"
  /\ e \in {0, Own} /\ e # tree.entry[s]
  /\ tree' = [tree EXCEPT !.entry[s] = e]
  /\ UNCHANGED <<inRepo, tip, been, disk, base, cache, cmd, run, recorded, count>>

-----------------------------------------------------------------------------
(* The cache.                                                                *)

RefOf(ref) == IF ref = NoRef THEN Default ELSE ref

\* Cache.Resolve: today's answer, from the source or a mirror brought up to date.
ResolveDefault(s, ref) == tip[s][Default]
Resolve(s, ref) == tip[s][RefOf(ref)]

\* Cache.Fetch: what is held is digested before it is believed, and fetched
\* again and replaced when it is not what it is filed under.
FetchUnread(s, c) == cache' = IF cache[s][c] = "absent"
                              THEN [cache EXCEPT ![s][c] = "genuine"] ELSE cache
Fetch(s, c) == cache' = [cache EXCEPT ![s][c] = "genuine"]

\* A fetch fails before it touches the cache, or between taking a changed
\* directory away and moving the new one into its place.
FetchFails(s, c) ==
  \/ cache[s][c] # "genuine" /\ UNCHANGED cache
  \/ cache[s][c] = "changed" /\ cache' = [cache EXCEPT ![s][c] = "absent"]

-----------------------------------------------------------------------------
(* owl skills add, remove and update.  Each reads the files on disk, asks the *)
(* sources, and writes the manifest and then the lockfile; nothing serialises *)
(* one with another.                                                          *)

Start(u, c) == cmd' = [cmd EXCEPT ![u] = c]

\* SkillService.Add up to asking the source: a name already declared is refused.
AddReads(u, s, d) ==
  /\ cmd[u] = Idle /\ Once("commands", MaxCommands)
  /\ disk.manifest[s] = None
  /\ Start(u, [at |-> "asking", op |-> "add", names |-> {s}, due |-> {s}, lock |-> disk.lock,
               manifest |-> [disk.manifest EXCEPT ![s] = d]])
  /\ UNCHANGED <<inRepo, tip, been, disk, base, cache, run, tree, recorded>>

\* SkillService.Remove reads both files and asks nobody.
RemoveReads(u, s) ==
  /\ cmd[u] = Idle /\ Once("commands", MaxCommands)
  /\ disk.manifest[s] # None
  /\ Start(u, [at |-> "manifest", op |-> "remove", names |-> {}, due |-> {},
               manifest |-> [disk.manifest EXCEPT ![s] = None],
               lock |-> [disk.lock EXCEPT ![s] = None]])
  /\ UNCHANGED <<inRepo, tip, been, disk, base, cache, run, tree, recorded>>

\* What an update re-resolves: what it names, or else what moves on its own and
\* what the lockfile records nothing for.
DueMovers(names, manifest, lock) ==
  IF names # {} THEN names
  ELSE {s \in Names(manifest) : manifest[s].auto}
Due(names, manifest, lock) ==
  IF names # {} THEN names
  ELSE {s \in Names(manifest) : manifest[s].auto \/ lock[s] = None}

UpdateReads(u, names) ==
  /\ cmd[u] = Idle /\ Once("commands", MaxCommands)
  /\ names \subseteq Names(disk.manifest)
  /\ LET due == Due(names, disk.manifest, disk.lock) IN
     Start(u, [at |-> "asking", op |-> "update", manifest |-> disk.manifest,
               lock |-> disk.lock, names |-> due, due |-> due, all |-> names = {}])
  /\ UNCHANGED <<inRepo, tip, been, disk, base, cache, run, tree, recorded>>

\* Service.Add for the next Skill: resolved, fetched, and recorded under the
\* ref it was asked for, an empty one by the name of the branch it means.
AskSource(u, s) ==
  LET c    == cmd[u]
      ref  == RefOf(c.manifest[s].ref)
      got  == [ref |-> ref, commit |-> Resolve(s, ref)] IN
  /\ c.at = "asking" /\ s \in c.names
  /\ Fetch(s, got.commit)
  /\ Start(u, IF c.op = "add"
              THEN [c EXCEPT !.at = "manifest", !.manifest[s].ref = ref,
                             !.lock = [disk.lock EXCEPT ![s] = got]]
              ELSE [c EXCEPT !.names = @ \ {s}, !.lock[s] = got])
  /\ UNCHANGED <<inRepo, tip, been, disk, base, run, tree, recorded, count>>

\* Nothing is left to ask.
NothingLeftToAsk(u) ==
  /\ cmd[u].at = "asking" /\ cmd[u].names = {}
  /\ Start(u, [cmd[u] EXCEPT !.at = "manifest"])
  /\ UNCHANGED <<inRepo, tip, been, disk, base, cache, run, tree, recorded, count>>

\* A source that cannot be fetched ends the command with nothing written.
AskFails(u, s) ==
  /\ cmd[u].at = "asking" /\ s \in cmd[u].names
  /\ FetchFails(s, Resolve(s, cmd[u].manifest[s].ref))
  /\ Start(u, Idle)
  /\ UNCHANGED <<inRepo, tip, been, disk, base, run, tree, recorded, count>>

\* WriteManifest, and then WriteLock.
WritesManifest(u) ==
  /\ cmd[u].at = "manifest"
  /\ disk' = [disk EXCEPT !.manifest = cmd[u].manifest]
  /\ Start(u, [cmd[u] EXCEPT !.at = "lock"])
  /\ UNCHANGED <<inRepo, tip, been, base, cache, run, tree, recorded, count>>

WritesLock(u) ==
  /\ cmd[u].at = "lock"
  /\ disk' = [disk EXCEPT !.lock = cmd[u].lock]
  /\ Start(u, Idle)
  /\ UNCHANGED <<inRepo, tip, been, base, cache, run, tree, recorded, count>>

-----------------------------------------------------------------------------
(* A Run takes the Skills it starts with.                                    *)

Read == IF inRepo THEN base ELSE disk

\* project.Service.Show reads the manifest, and then the lockfile beside it.
ReadsManifest ==
  /\ run = Idle /\ Once("runs", MaxRuns)
  /\ run' = [at |-> "manifest", manifest |-> Read.manifest, before |-> tree]
  /\ UNCHANGED <<inRepo, tip, been, disk, base, cache, cmd, tree, recorded>>

ReadsLockAlone ==
  /\ run.at = "manifest"
  /\ run' = [at |-> IF Names(run.manifest) = {} THEN "starting" ELSE "preparing",
             manifest |-> run.manifest, lock |-> Read.lock, before |-> run.before,
             used |-> [s \in Skill |-> None], todo |-> {}]
  /\ UNCHANGED <<inRepo, tip, been, disk, base, cache, cmd, tree, recorded, count>>
ReadsLock ==
  /\ run.at = "manifest"
  /\ run' = [at |-> IF Names(run.manifest) = {} /\ ~tree.kept THEN "starting" ELSE "preparing",
             manifest |-> run.manifest, lock |-> Read.lock, before |-> run.before,
             used |-> [s \in Skill |-> None], todo |-> {}]
  /\ UNCHANGED <<inRepo, tip, been, disk, base, cache, cmd, tree, recorded, count>>

\* The lockfile answers the question the manifest asks.
SameRef(locked, declared) == declared = NoRef \/ locked = declared
PinnedByName(lock, d, s) == lock[s] # None /\ ~d.auto
Pinned(lock, d, s) == lock[s] # None /\ SameRef(lock[s].ref, d.ref) /\ ~d.auto

Refuse(why) == run' = [at |-> "refused", before |-> run.before, why |-> why]

\* Service.Prepare, one Skill: the commit the lockfile records when it pins it,
\* today's when it moves on its own, and a refusal otherwise.
Prepare(s) ==
  LET d == run.manifest[s]
      c == IF Pinned(run.lock, d, s) THEN run.lock[s].commit ELSE Resolve(s, d.ref) IN
  /\ run.at = "preparing" /\ s \in Names(run.manifest) \ Names(run.used)
  /\ IF ~Pinned(run.lock, d, s) /\ ~d.auto
     THEN Refuse("unlocked") /\ UNCHANGED cache
     ELSE \/ Fetch(s, c) /\ run' = [run EXCEPT !.used[s] = [ref |-> d.ref, commit |-> c]]
          \/ FetchFails(s, c) /\ Refuse("unfetched")
  /\ UNCHANGED <<inRepo, tip, been, disk, base, cmd, tree, recorded, count>>

\* Place looks at every entry before it writes any.
Foreign(s) == tree.entry[s] = Own
LooksLater ==
  /\ run.at = "preparing" /\ Names(run.manifest) = Names(run.used)
  /\ run' = [run EXCEPT !.at = "hiding"]
  /\ UNCHANGED <<inRepo, tip, been, disk, base, cache, cmd, tree, recorded, count>>
Looks ==
  /\ run.at = "preparing" /\ Names(run.manifest) = Names(run.used)
  /\ IF \E s \in Names(run.used) : Foreign(s)
     THEN Refuse("foreign") ELSE run' = [run EXCEPT !.at = "hiding"]
  /\ UNCHANGED <<inRepo, tip, been, disk, base, cache, cmd, tree, recorded, count>>

\* hide: the exclude file beside the worktree names what is about to be placed.
Hides ==
  /\ run.at = "hiding"
  /\ tree' = [tree EXCEPT !.hidden = Names(run.used), !.kept = TRUE]
  /\ run' = [run EXCEPT !.at = "linking", !.todo = Names(run.used)]
  /\ UNCHANGED <<inRepo, tip, been, disk, base, cache, cmd, recorded, count>>

\* relink: a link made beside its place, and moved onto it.
Stages ==
  /\ run.at = "linking" /\ run.todo # {}
  /\ tree' = [tree EXCEPT !.staged = @ + 1]
  /\ run' = [run EXCEPT !.at = "moving"]
  /\ UNCHANGED <<inRepo, tip, been, disk, base, cache, cmd, recorded, count>>

Links(s) ==
  /\ run.at = "moving" /\ s \in run.todo
  /\ tree' = [tree EXCEPT !.entry[s] = run.used[s].commit, !.staged = @ - 1]
  /\ run' = [run EXCEPT !.at = "linking", !.todo = @ \ {s}]
  /\ UNCHANGED <<inRepo, tip, been, disk, base, cache, cmd, recorded, count>>

\* What a placement made and the manifest no longer declares goes, and so does
\* what an earlier one staged: both are links into the cache.
StaleByName(used) == {s \in Skill : tree.entry[s] # 0} \ Names(used)
Stale(used) == {s \in Skill : tree.entry[s] \in Commit} \ Names(used)
Sweeps ==
  /\ run.at = "linking" /\ run.todo = {}
  /\ tree' = [tree EXCEPT !.staged = 0,
                !.entry = [s \in Skill |-> IF s \in Stale(run.used) THEN 0 ELSE @[s]]]
  /\ run' = [run EXCEPT !.at = "starting"]
  /\ UNCHANGED <<inRepo, tip, been, disk, base, cache, cmd, recorded, count>>

\* The Run is recorded with what it used, and its Agent starts.
Starts ==
  /\ run.at = "starting"
  /\ run' = [run EXCEPT !.at = "running"]
  /\ recorded' = run.used
  /\ UNCHANGED <<inRepo, tip, been, disk, base, cache, cmd, tree, count>>

Ends ==
  /\ run.at \in {"running", "refused"}
  /\ run' = Idle
  /\ UNCHANGED <<inRepo, tip, been, disk, base, cache, cmd, tree, recorded, count>>

\* The worktree is reclaimed, and what was kept beside it with it: that second
\* removal may fail, and is only logged.
Reclaims(kept) ==
  /\ run = Idle /\ tree # EmptyTree
  /\ kept \in {FALSE, tree.kept}
  /\ tree' = [EmptyTree EXCEPT !.kept = kept]
  /\ UNCHANGED <<inRepo, tip, been, disk, base, cache, cmd, run, recorded, count>>

\* The daemon dies with whatever it was doing half done.
Crashes ==
  /\ Once("upsets", MaxUpsets)
  /\ cmd' = [u \in Caller |-> Idle]
  /\ run' = Idle
  /\ UNCHANGED <<inRepo, tip, been, disk, base, cache, tree, recorded>>

-----------------------------------------------------------------------------
Command(u) ==
  \/ \E s \in Skill : \/ \E d \in Declared : AddReads(u, s, d)
                      \/ RemoveReads(u, s) \/ AskSource(u, s) \/ AskFails(u, s)
  \/ \E names \in SUBSET Skill : UpdateReads(u, names)
  \/ NothingLeftToAsk(u) \/ WritesManifest(u) \/ WritesLock(u)

Placement ==
  \/ ReadsManifest \/ ReadsLock \/ Looks \/ Hides \/ Stages \/ Sweeps \/ Starts \/ Ends
  \/ \E s \in Skill : Prepare(s) \/ Links(s)
  \/ \E kept \in BOOLEAN : Reclaims(kept)

Others ==
  \/ Crashes
  \/ \E files \in SUBSET DOMAIN base : Commits(files)
  \/ \E s \in Skill :
       \/ \E r \in Ref : SourceMoves(s, r)
       \/ \E d \in Declared : EditsManifest(s, d)
       \/ \E e \in {0, Own} : AgentWrites(s, e)
       \/ \E c \in Commit, to \in {"changed", "absent"} : Tampers(s, c, to)

Next == Placement \/ Others \/ \E u \in Caller : Command(u)
Spec == Init /\ [][Next]_vars

-----------------------------------------------------------------------------
Files == [manifest : Manifests, lock : Locks]
Trees == [entry : [Skill -> Commit \cup {0, Own}], staged : 0 .. MaxUpsets + 1,
          hidden : SUBSET Skill, kept : BOOLEAN]

\* Every part of the state is of its kind.
TypeOK ==
  /\ inRepo \in BOOLEAN /\ tip \in [Skill -> [Ref -> Commit]]
  /\ been \in [Skill -> [Ref -> SUBSET Commit]]
  /\ disk \in Files /\ base \in Files /\ tree \in Trees
  /\ cache \in [Skill -> [Commit -> {"absent", "genuine", "changed"}]]
  /\ recorded \in Locks

\* What a Run records of a Skill - this commit, for this ref - is something the
\* source really answered for that ref, however the files were edited, half
\* written or written over by another command since.
RecordIsTrue ==
  \A s \in Names(recorded) :
    recorded[s].ref # NoRef => recorded[s].commit \in been[s][recorded[s].ref]

\* The same of a Skill whose manifest names no ref, which means the source's
\* default branch (service.go, sameRef: "the two agree unless the manifest
\* names something else").
DefaultIsTrue ==
  \A s \in Names(recorded) :
    recorded[s].ref = NoRef => recorded[s].commit \in been[s][Default]

\* An Agent starts in a worktree that holds a link for each Skill its Run uses
\* and no other link of Owl's, whatever earlier Runs, crashes and Agents left
\* there, and with exactly those kept from git.
StartsAsDeclared ==
  [][Starts => LET u == run.used IN
       /\ Names(u) = Names(run.manifest)
       /\ \A s \in Skill : tree.entry[s] # Own =>
            tree.entry[s] = IF u[s] = None THEN 0 ELSE u[s].commit
       /\ \A s \in Names(u) : tree.entry[s] = u[s].commit
       /\ tree.staged = 0
       /\ tree.kept => tree.hidden = Names(u)]_vars

\* What Owl did not put in the skills directory it neither replaces nor takes
\* away, and a Run refused over it leaves the worktree as it found it.
OwnStays ==
  [][/\ \A s \in Skill : tree.entry[s] = Own /\ run.at # "running" /\ run # Idle =>
          tree'.entry[s] = Own
     /\ run'.at = "refused" => tree' = run.before]_vars

\* What a Run is handed was read and found to be what it is filed under.
FetchedIsGenuine ==
  [][\A s \in Skill : Prepare(s) /\ run'.at = "preparing" =>
       cache'[s][run'.used[s].commit] = "genuine"]_vars

\* What a refused Run tells its user to do is enough: after an update that
\* named a Skill, or found it unlocked, the lockfile pins what the manifest
\* declares, unless the manifest was changed under the update.
AdviceIsEnough ==
  [][\A u \in Caller :
       /\ WritesLock(u) /\ cmd[u].op = "update" /\ disk.manifest = cmd[u].manifest
       => \A s \in Names(disk.manifest) :
            /\ cmd[u].all => disk'.lock[s] # None
            /\ s \in cmd[u].due => disk'.lock[s] # None /\ SameRef(disk'.lock[s].ref, disk.manifest[s].ref)]_vars
====
