---------------------------- MODULE ServicesProofs ----------------------------
(***************************************************************************)
(* What MCServices checks of the daemon's services, proved for any number  *)
(* of callers, daemons, Projects, starts, edits and walkthroughs.  Each    *)
(* component has an inductive invariant of its own, named after it, and    *)
(* two lemmas: it holds to begin with, and every step of the component     *)
(* keeps it.  A step of the composition is one of theirs or leaves their   *)
(* variables alone.                                                        *)
(***************************************************************************)
EXTENDS MCServices, Sequences, WellFoundedInduction, TLAPS

-----------------------------------------------------------------------------
(* Daemon.  Unless the daemons raced, the socket is its holder's, a start   *)
(* that got past its probe is alone, and who minds an Agent still serves it. *)

Past == {"unlink", "open", "recover", "listen", "chmod"}
Busy == {"serving", "closing"}

\* The types, and whose the socket's file may be.
Homes ==
  /\ pc \in [D!Pid -> D!Step] /\ sock \in Nat /\ raced \in BOOLEAN
  /\ carrier \in [Job -> Nat] /\ active \subseteq Job
  /\ \A p \in D!Pid : sock = p => pc[p] \in {"chmod", "serving", "closing"} \/ p \in crashed

\* Who minds a Job's Agent, and whether that daemon may be on its way out.
Fathers ==
  /\ \A j \in Job : carrier[j] # 0 =>
       carrier[j] \in D!Pid /\ pc[carrier[j]] \in Busy \cup {"returns"}
  /\ \A p \in D!Pid : pc[p] = "returns" => raced

\* At most one daemon is starting, what has the socket answers, and a start past its
\* probe has met none that serves.
Alone ==
  ~raced =>
    /\ \A p, q \in D!Pid : pc[p] \in D!Begun /\ pc[q] \in D!Begun => p = q
    /\ \A p \in D!Pid : pc[p] \in Busy \cup {"chmod"} => sock = p /\ p \in open
    /\ \A p, q \in D!Pid : pc[p] \in Past => pc[q] \notin Busy

DaemonInv == Homes /\ Fathers /\ Alone

\* No daemon goes by 0, which is nobody's.
LEMMA Pids == \A p \in D!Pid : p \in Nat /\ p # 0
  BY BoundsAssumption DEF D!Pid

\* Nothing is started to begin with.
LEMMA DaemonBegins == D!Init => DaemonInv
<1>1. ASSUME D!Init PROVE Homes
  <2>1. pc \in [D!Pid -> D!Step] /\ raced \in BOOLEAN /\ active \subseteq Job
    BY <1>1 DEF D!Init, D!Step
  <2>2. carrier \in [Job -> Nat] /\ sock \in Nat
    BY <1>1 DEF D!Init
  <2>3. \A p \in D!Pid : sock # p
    BY <1>1, Pids DEF D!Init
  <2>. QED
    BY <2>1, <2>2, <2>3 DEF Homes
<1>2. D!Init => Fathers
  BY DEF D!Init, Fathers, D!Pid
<1>3. D!Init => Alone
  BY DEF D!Init, Alone, D!Pid, D!Begun, Past, Busy
<1>. QED
  BY <1>1, <1>2, <1>3 DEF DaemonInv

\* Every step of a daemon keeps Homes.
LEMMA HomesKept == ASSUME Homes, D!Next PROVE Homes'
<1>. USE Pids DEF D!Step, D!Moves, D!jobVars
<1>0. CASE \E j \in Job : D!OrphanEnds(j)
  BY <1>0 DEF D!OrphanEnds, Homes
<1>. SUFFICES ASSUME ~\E j \in Job : D!OrphanEnds(j) PROVE Homes'
  BY <1>0
<1>. PICK p \in D!Pid :
       \/ D!Begin(p) \/ D!Probe(p) \/ D!Unlink(p) \/ D!Open(p) \/ D!Recover(p) \/ D!Listen(p)
       \/ D!Chmod(p) \/ D!Stop(p) \/ D!ShutsDown(p) \/ D!RemovesSocket(p) \/ D!ServeFails(p)
       \/ D!Returns(p) \/ D!Crash(p)
       \/ \E j \in Job : D!StartsRun(p, j) \/ D!RunEnds(p, j)
  BY DEF D!Next
<1>1. CASE D!Begin(p)
  BY <1>1 DEF D!Begin, Homes, D!Begun
<1>2. CASE D!Probe(p)
  BY <1>2 DEF D!Probe, Homes
<1>3. CASE D!Unlink(p)
  BY <1>3 DEF D!Unlink, Homes
<1>4. CASE D!Open(p)
  BY <1>4 DEF D!Open, Homes
<1>5. CASE D!Recover(p)
  BY <1>5 DEF D!Recover, Homes
<1>6. CASE D!Listen(p)
  BY <1>6 DEF D!Listen, Homes
<1>7. CASE D!Chmod(p)
  BY <1>7 DEF D!Chmod, D!Gives, Homes
<1>8. CASE D!Stop(p)
  BY <1>8 DEF D!Stop, Homes
<1>9. CASE D!ShutsDown(p)
  BY <1>9 DEF D!ShutsDown, Homes
<1>10. CASE D!RemovesSocket(p)
  BY <1>10 DEF D!RemovesSocket, Homes
<1>11. CASE D!ServeFails(p)
  BY <1>11 DEF D!ServeFails, Homes
<1>12. CASE D!Returns(p)
  BY <1>12 DEF D!Returns, Homes
<1>13. CASE D!Crash(p)
  BY <1>13 DEF D!Crash, Homes
<1>14. CASE \E j \in Job : D!StartsRun(p, j) \/ D!RunEnds(p, j)
  BY <1>14 DEF D!StartsRun, D!RunEnds, Homes
<1>. QED
  BY <1>1, <1>2, <1>3, <1>4, <1>5, <1>6, <1>7, <1>8, <1>9, <1>10, <1>11, <1>12, <1>13, <1>14

\* Every step of a daemon keeps Fathers: its Runs are waited for before it is off.
LEMMA FathersKept == ASSUME Homes, Fathers, D!Next PROVE Fathers'
<1>. USE Pids DEF D!Moves, D!jobVars, Fathers, Homes, Busy
<1>0. CASE \E j \in Job : D!OrphanEnds(j)
  BY <1>0 DEF D!OrphanEnds, Fathers
<1>. SUFFICES ASSUME ~\E j \in Job : D!OrphanEnds(j) PROVE Fathers'
  BY <1>0
<1>. PICK p \in D!Pid :
       \/ D!Begin(p) \/ D!Probe(p) \/ D!Unlink(p) \/ D!Open(p) \/ D!Recover(p) \/ D!Listen(p)
       \/ D!Chmod(p) \/ D!Stop(p) \/ D!ShutsDown(p) \/ D!RemovesSocket(p) \/ D!ServeFails(p)
       \/ D!Returns(p) \/ D!Crash(p)
       \/ \E j \in Job : D!StartsRun(p, j) \/ D!RunEnds(p, j)
  BY DEF D!Next
<1>1. CASE D!Begin(p)
  BY <1>1 DEF D!Begin
<1>2. CASE D!Probe(p)
  BY <1>2 DEF D!Probe
<1>3. CASE D!Unlink(p)
  BY <1>3 DEF D!Unlink
<1>4. CASE D!Open(p)
  BY <1>4 DEF D!Open
<1>5. CASE D!Recover(p)
  BY <1>5 DEF D!Recover
<1>6. CASE D!Listen(p)
  BY <1>6 DEF D!Listen
<1>7. CASE D!Chmod(p)
  BY <1>7 DEF D!Chmod
<1>8. CASE D!Stop(p)
  BY <1>8 DEF D!Stop
<1>9. CASE D!ShutsDown(p)
  BY <1>9 DEF D!ShutsDown, D!Closed, D!Carries
<1>10. CASE D!RemovesSocket(p)
  BY <1>10 DEF D!RemovesSocket
<1>11. CASE D!ServeFails(p)
  BY <1>11 DEF D!ServeFails
<1>12. CASE D!Returns(p)
  BY <1>12 DEF D!Returns, D!Closed, D!Carries
<1>13. CASE D!Crash(p)
  BY <1>13 DEF D!Crash
<1>14. CASE \E j \in Job : D!StartsRun(p, j) \/ D!RunEnds(p, j)
  BY <1>14 DEF D!StartsRun, D!RunEnds
<1>. QED
  BY <1>1, <1>2, <1>3, <1>4, <1>5, <1>6, <1>7, <1>8, <1>9, <1>10, <1>11, <1>12, <1>13, <1>14

\* Every step of a daemon keeps Alone: who removes the socket of another has raced.
LEMMA AloneKept == ASSUME DaemonInv, D!Next PROVE Alone'
<1>. USE Pids DEF D!Moves, D!jobVars, DaemonInv, Alone, Homes, Busy, Past, D!Begun
<1>0. CASE \E j \in Job : D!OrphanEnds(j)
  BY <1>0 DEF D!OrphanEnds, Alone
<1>. SUFFICES ASSUME ~\E j \in Job : D!OrphanEnds(j) PROVE Alone'
  BY <1>0
<1>. PICK p \in D!Pid :
       \/ D!Begin(p) \/ D!Probe(p) \/ D!Unlink(p) \/ D!Open(p) \/ D!Recover(p) \/ D!Listen(p)
       \/ D!Chmod(p) \/ D!Stop(p) \/ D!ShutsDown(p) \/ D!RemovesSocket(p) \/ D!ServeFails(p)
       \/ D!Returns(p) \/ D!Crash(p)
       \/ \E j \in Job : D!StartsRun(p, j) \/ D!RunEnds(p, j)
  BY DEF D!Next
<1>1. CASE D!Begin(p)
  BY <1>1 DEF D!Begin
<1>2. CASE D!Probe(p)
  BY <1>2 DEF D!Probe
<1>3. CASE D!Unlink(p)
  BY <1>3 DEF D!Unlink
<1>4. CASE D!Open(p)
  BY <1>4 DEF D!Open
<1>5. CASE D!Recover(p)
  BY <1>5 DEF D!Recover
<1>6. CASE D!Listen(p)
  BY <1>6 DEF D!Listen
<1>7. CASE D!Chmod(p)
  BY <1>7 DEF D!Chmod, D!Gives
<1>8. CASE D!Stop(p)
  BY <1>8 DEF D!Stop
<1>9. CASE D!ShutsDown(p)
  BY <1>9 DEF D!ShutsDown
<1>10. CASE D!RemovesSocket(p)
  BY <1>10 DEF D!RemovesSocket
<1>11. CASE D!ServeFails(p)
  BY <1>11 DEF D!ServeFails
<1>12. CASE D!Returns(p)
  BY <1>12 DEF D!Returns
<1>13. CASE D!Crash(p)
  BY <1>13 DEF D!Crash
<1>14. CASE \E j \in Job : D!StartsRun(p, j) \/ D!RunEnds(p, j)
  BY <1>14 DEF D!StartsRun, D!RunEnds
<1>. QED
  BY <1>1, <1>2, <1>3, <1>4, <1>5, <1>6, <1>7, <1>8, <1>9, <1>10, <1>11, <1>12, <1>13, <1>14

\* A daemon's step, or none, keeps the invariant.
LEMMA DaemonStays == ASSUME DaemonInv, [D!Next]_(D!vars) PROVE DaemonInv'
<1>1. CASE D!Next
  BY <1>1, HomesKept, FathersKept, AloneKept DEF DaemonInv
<1>2. CASE UNCHANGED D!vars
  BY <1>2 DEF DaemonInv, Homes, Fathers, Alone, D!vars
<1>. QED
  BY <1>1, <1>2

\* A starting daemon that has not raced closes no Run that another minds.
LEMMA LeavesTheMinded ==
  ASSUME DaemonInv, D!Next, ~raced
  PROVE  \A j \in active : carrier[j] # 0 => j \in active' \/ carrier'[j] = 0
<1>. USE Pids DEF D!Moves, D!jobVars, DaemonInv, Alone, Homes, Fathers, Busy, Past
<1>. SUFFICES ASSUME NEW j \in active, carrier[j] # 0
              PROVE  j \in active' \/ carrier'[j] = 0
  OBVIOUS
<1>1. ASSUME NEW p \in D!Pid, D!Recover(p) PROVE FALSE
  BY <1>1 DEF D!Recover
<1>2. ASSUME NEW p \in D!Pid,
             D!Begin(p) \/ D!Probe(p) \/ D!Unlink(p) \/ D!Open(p) \/ D!Listen(p) \/ D!Chmod(p)
               \/ D!Stop(p) \/ D!ShutsDown(p) \/ D!RemovesSocket(p) \/ D!ServeFails(p)
               \/ D!Returns(p) \/ D!Crash(p)
      PROVE  j \in active'
  BY <1>2 DEF D!Begin, D!Probe, D!Unlink, D!Open, D!Listen, D!Chmod, D!Stop, D!ShutsDown,
              D!RemovesSocket, D!ServeFails, D!Returns, D!Crash
<1>3. ASSUME NEW p \in D!Pid, NEW i \in Job, D!StartsRun(p, i) \/ D!RunEnds(p, i)
      PROVE  j \in active' \/ carrier'[j] = 0
  BY <1>3 DEF D!StartsRun, D!RunEnds
<1>4. ASSUME NEW i \in Job, D!OrphanEnds(i) PROVE j \in active'
  BY <1>4 DEF D!OrphanEnds
<1>. QED
  BY <1>1, <1>2, <1>3, <1>4 DEF D!Next

-----------------------------------------------------------------------------
(* AccountFiles.  A grant is given once; what is being saved fits, and the   *)
(* draft is the text its user left until the save is known to have gone      *)
(* through.                                                                  *)

Texts == F!Text \cup {F!Absent}

\* Nothing is granted before it is granted for good.
Grants ==
  /\ start \in [Starts -> {"none", "looked", "made", "granted", "refused"}]
  /\ grant \in [Starts -> {"none", "default", "users"}]
  /\ \A s \in Starts : start[s] # "granted" => grant[s] = "none"

\* Where an edit is, and what it holds there.
Edits ==
  /\ edit \in [Editors -> {"none", "open", "closed", "saving", "written", "over"}]
  /\ typed \in [Editors -> Texts]
  /\ draft \in [Editors -> F!Files]
  /\ answer \in [Editors -> {"none", "saved", "refused", "lost"}]
  /\ \A e \in Editors :
       /\ edit[e] = "none" => draft[e] = F!Absent
       /\ edit[e] \in {"saving", "written"} => typed[e] \in F!Text /\ F!Fits(typed[e])
       /\ edit[e] \in {"closed", "saving", "written"} => draft[e] = typed[e]
       /\ edit[e] # "over" => answer[e] = "none"
       /\ answer[e] \in {"refused", "lost"} => draft[e] = typed[e]

FilesInv == Grants /\ Edits /\ file \in F!Files /\ hand \in Nat /\ F!SavedReadsBack

\* Nothing is asked for to begin with, and there are no files.
LEMMA FilesBegin == F!Init => FilesInv
<1>1. ASSUME F!Init PROVE Grants
  BY <1>1 DEF F!Init, Grants
<1>2. ASSUME F!Init PROVE Edits
  BY <1>2 DEF F!Init, Edits, F!Files, Texts
<1>3. ASSUME F!Init PROVE file \in F!Files /\ hand \in Nat /\ F!SavedReadsBack
  BY <1>3 DEF F!Init, F!Files, F!SavedReadsBack, F!Reads
<1>. QED
  BY <1>1, <1>2, <1>3 DEF FilesInv

\* A text that fits reads back once its newline is there, and is no empty file.
LEMMA FitsReadsBack ==
  ASSUME NEW t \in F!Text, F!Fits(t)
  PROVE  F!Ended(t) \in F!Text /\ F!Reads(F!Ended(t)) /\ t # F!Absent
<1>. USE BoundsAssumption DEF F!Text
<1>1. PICK n \in 1 .. MaxText + 1, b \in BOOLEAN, c \in BOOLEAN :
        t = [size |-> n, ended |-> b, null |-> c]
  OBVIOUS
<1>2. t # F!Absent
  BY <1>1 DEF F!Absent
<1>3. CASE b
  BY <1>1, <1>2, <1>3 DEF F!Ended, F!Reads, F!Fits
<1>4. CASE ~b
  <2>1. F!Ended(t) = [size |-> n + 1, ended |-> TRUE, null |-> c]
    BY <1>1, <1>4 DEF F!Ended
  <2>2. n + 1 <= MaxText
    BY <2>1 DEF F!Fits
  <2>. QED
    BY <1>2, <2>1, <2>2 DEF F!Reads
<1>. QED
  BY <1>3, <1>4

\* Every step keeps Grants.
LEMMA GrantsKept == ASSUME Grants, F!Next PROVE Grants'
<1>. USE DEF Grants, F!Settle, F!edits, F!bounds, F!grants
<1>1. ASSUME NEW s \in Starts, F!LooksForSettings(s) PROVE Grants'
  BY <1>1 DEF F!LooksForSettings, F!Allows
<1>2. ASSUME NEW s \in Starts, F!MakesSeed(s) PROVE Grants'
  BY <1>2 DEF F!MakesSeed
<1>3. ASSUME NEW s \in Starts, F!Seeds(s) PROVE Grants'
  BY <1>3 DEF F!Seeds, F!LinksSeed, F!Allows
<1>4. ASSUME NEW e \in Editors,
             F!Opens(e) \/ F!Closes(e) \/ F!Saves(e) \/ F!WritesTemp(e) \/ F!Renames(e)
      PROVE  Grants'
  BY <1>4 DEF F!Opens, F!Closes, F!Saves, F!WritesTemp, F!Renames
<1>5. CASE F!UserWrites
  BY <1>5 DEF F!UserWrites
<1>6. CASE F!Crash
  BY <1>6 DEF F!Crash
<1>. QED
  BY <1>1, <1>2, <1>3, <1>4, <1>5, <1>6 DEF F!Next, F!Owl

\* Every step keeps Edits, the file one of those it may be, and the count of
\* its user's writes.
LEMMA EditsKept == ASSUME FilesInv, F!Next PROVE Edits' /\ (file \in F!Files /\ hand \in Nat)'
<1>. USE DEF FilesInv, Edits, Texts, F!grants, F!edits, F!bounds, F!Files, F!Answered
<1>1. ASSUME NEW s \in Starts, F!LooksForSettings(s) \/ F!MakesSeed(s) \/ F!Seeds(s)
      PROVE  Edits' /\ (file \in F!Files /\ hand \in Nat)'
  BY <1>1 DEF F!LooksForSettings, F!MakesSeed, F!Seeds
<1>2. ASSUME NEW e \in Editors, F!Opens(e) PROVE Edits' /\ (file \in F!Files /\ hand \in Nat)'
  BY <1>2 DEF F!Opens
<1>3. ASSUME NEW e \in Editors, F!Closes(e) PROVE Edits' /\ (file \in F!Files /\ hand \in Nat)'
  BY <1>3 DEF F!Closes
<1>4. ASSUME NEW e \in Editors, F!Saves(e) PROVE Edits' /\ (file \in F!Files /\ hand \in Nat)'
  BY <1>4 DEF F!Saves
<1>5. ASSUME NEW e \in Editors, F!WritesTemp(e) PROVE Edits' /\ (file \in F!Files /\ hand \in Nat)'
  BY <1>5 DEF F!WritesTemp, F!Temp
<1>6. ASSUME NEW e \in Editors, F!Renames(e) PROVE Edits' /\ (file \in F!Files /\ hand \in Nat)'
  BY <1>6, FitsReadsBack DEF F!Renames
<1>7. CASE F!UserWrites
  BY <1>7 DEF F!UserWrites
<1>8. CASE F!Crash
  BY <1>8 DEF F!Crash
<1>. QED
  BY <1>1, <1>2, <1>3, <1>4, <1>5, <1>6, <1>7, <1>8 DEF F!Next, F!Owl

\* What Owl put in the instructions' file reads back.
LEMMA SavedKept == ASSUME FilesInv, F!Next PROVE F!SavedReadsBack'
<1>. USE DEF FilesInv, F!SavedReadsBack, F!grants, F!edits, F!bounds
<1>1. ASSUME NEW e \in Editors, F!Saves(e) PROVE F!SavedReadsBack'
  BY <1>1 DEF F!Saves, F!Reads
<1>2. ASSUME NEW e \in Editors, F!Renames(e) PROVE F!SavedReadsBack'
  BY <1>2, FitsReadsBack DEF F!Renames, Edits
<1>3. CASE F!UserWrites
  BY <1>3 DEF F!UserWrites
<1>4. ASSUME UNCHANGED <<file, byOwl>> PROVE F!SavedReadsBack'
  BY <1>4 DEF F!Reads
<1>. QED
  BY <1>1, <1>2, <1>3, <1>4
     DEF F!Next, F!Owl, F!LooksForSettings, F!MakesSeed, F!Seeds, F!Opens, F!Closes,
         F!WritesTemp, F!Temp, F!Crash

\* A step, or none, keeps the invariant.
LEMMA FilesStay == ASSUME FilesInv, [F!Next]_(F!vars) PROVE FilesInv'
<1>1. CASE F!Next
  BY <1>1, GrantsKept, EditsKept, SavedKept DEF FilesInv
<1>2. CASE UNCHANGED F!vars
  BY <1>2 DEF FilesInv, Grants, Edits, F!SavedReadsBack, F!vars, F!grants, F!edits,
              F!bounds
<1>. QED
  BY <1>1, <1>2

\* A start is granted what the file says at that moment, and Owl writes settings only
\* where there are none.
LEMMA GrantedAsWritten ==
  ASSUME FilesInv, F!Next
  PROVE  /\ F!Owl /\ settings' # settings => settings = "absent"
         /\ \A s \in Starts : grant'[s] # grant[s] => grant'[s] = settings'
<1>. USE DEF FilesInv, Grants, F!Settle, F!edits, F!bounds, F!grants
<1>1. ASSUME NEW s \in Starts, F!LooksForSettings(s)
      PROVE  settings' = settings /\ \A t \in Starts : grant'[t] # grant[t] => grant'[t] = settings'
  BY <1>1 DEF F!LooksForSettings, F!Allows
<1>2. ASSUME NEW s \in Starts, F!Seeds(s)
      PROVE  /\ settings' # settings => settings = "absent"
             /\ \A t \in Starts : grant'[t] # grant[t] => grant'[t] = settings'
  BY <1>2 DEF F!Seeds, F!LinksSeed, F!Allows
<1>3. ASSUME F!Owl, ~\E s \in Starts : F!LooksForSettings(s) \/ F!Seeds(s)
      PROVE  settings' = settings /\ grant' = grant
  BY <1>3 DEF F!Owl, F!MakesSeed, F!Opens, F!Closes, F!Saves, F!WritesTemp, F!Renames
<1>4. CASE F!Owl
  BY <1>1, <1>2, <1>3, <1>4
<1>5. CASE F!UserWrites \/ F!Crash
  <2>1. grant' = grant
    BY <1>5 DEF F!UserWrites, F!Crash
  <2>2. settings' # settings => hand' # hand
    BY <1>5 DEF F!UserWrites, F!Crash
  <2>3. F!Owl => hand' = hand
    BY DEF F!Owl, F!LooksForSettings, F!MakesSeed, F!Seeds, F!Opens, F!Closes, F!Saves,
           F!WritesTemp, F!Renames
  <2>. QED
    BY <2>1, <2>2, <2>3
<1>. QED
  BY <1>4, <1>5 DEF F!Next

\* What was typed is in the draft until it is in the file.
LEMMA TypedStays ==
  ASSUME FilesInv, F!Next
  PROVE  \A e \in Editors :
           /\ answer'[e] \in {"refused", "lost"} => draft'[e] = typed'[e]
           /\ draft[e] # F!Absent /\ draft'[e] = F!Absent /\ edit[e] # "open"
                => file' = IF typed[e] = F!Absent THEN F!Absent ELSE F!Ended(typed[e])
<1>. SUFFICES ASSUME NEW e \in Editors, draft[e] # F!Absent, draft'[e] = F!Absent,
                     edit[e] # "open"
              PROVE  file' = IF typed[e] = F!Absent THEN F!Absent ELSE F!Ended(typed[e])
  BY EditsKept DEF Edits
<1>. USE DEF FilesInv, Edits, F!grants, F!edits, F!bounds, F!Answered
<1>1. ASSUME NEW d \in Editors, F!Saves(d)
      PROVE  file' = IF typed[e] = F!Absent THEN F!Absent ELSE F!Ended(typed[e])
  BY <1>1 DEF F!Saves
<1>2. ASSUME NEW d \in Editors, F!Renames(d)
      PROVE  file' = IF typed[e] = F!Absent THEN F!Absent ELSE F!Ended(typed[e])
  BY <1>2, FitsReadsBack DEF F!Renames
<1>3. ASSUME NEW d \in Editors, F!Opens(d) \/ F!Closes(d) \/ F!WritesTemp(d) PROVE FALSE
  BY <1>3 DEF F!Opens, F!Closes, F!WritesTemp
<1>4. ASSUME NEW s \in Starts, F!LooksForSettings(s) \/ F!MakesSeed(s) \/ F!Seeds(s) PROVE FALSE
  BY <1>4 DEF F!LooksForSettings, F!MakesSeed, F!Seeds
<1>5. CASE F!UserWrites \/ F!Crash
  BY <1>5 DEF F!UserWrites, F!Crash
<1>. QED
  BY <1>1, <1>2, <1>3, <1>4, <1>5 DEF F!Next, F!Owl

-----------------------------------------------------------------------------
(* Setup.  A path that was typed leads to a program, and a walkthrough that  *)
(* noted a program as findable is right until the user moves things, which   *)
(* is between walkthroughs.                                                  *)

Stages == {"idle", "daemon", "install", "claude", "asking", "reading", "truncating", "writing",
           "accounts", "free", "authorising", "adding"}

WalkRec == [at : Stages, running : BOOLEAN, findable : BOOLEAN,
            path : U!Place \cup {U!None}, name : {U!None, "work"}]

\* The types, as far as anything rests on them.
Walkthroughs ==
  /\ walk \in [Walker -> WalkRec]
  /\ config \in [named : U!Place \cup {U!None}, whole : BOOLEAN]
  /\ ready \in BOOLEAN

\* A machine whose file can be read leads to a program.
Leads == config.whole => U!Find(config.named, TRUE) # U!None

\* What each walkthrough holds, and what was said of the machine.
Held ==
  /\ \A w \in Walker :
       /\ walk[w].at = "idle" => ~walk[w].findable
       /\ walk[w].at \in {"reading", "truncating", "writing"} =>
            walk[w].path \in programs /\ walk[w].path # U!None
       /\ walk[w].findable => Leads
  /\ ready => accounts # {} /\ Leads

SetupInv == Walkthroughs /\ Held

\* Nobody walks to begin with, and nobody was told anything.
LEMMA SetupBegins == ASSUME U!Init PROVE SetupInv
<1>1. Walkthroughs
  BY DEF U!Init, Walkthroughs, WalkRec, Stages, U!Idle
<1>2. Held
  BY DEF U!Init, Held, U!Idle
<1>. QED
  BY <1>1, <1>2 DEF SetupInv

\* The user moves things between walkthroughs only, and takes back what was said.
LEMMA MovesKeep == ASSUME SetupInv, U!Moves PROVE SetupInv'
<1>1. walk' = walk /\ ready' = FALSE /\ \A w \in Walker : walk[w].at = "idle"
  BY DEF U!Moves, U!At
<1>2. config' \in [named : U!Place \cup {U!None}, whole : BOOLEAN]
  <2>1. CASE config' = config
    BY <2>1 DEF SetupInv, Walkthroughs
  <2>2. CASE \E named \in U!Place \cup {U!None} : config' = [named |-> named, whole |-> TRUE]
    BY <2>2
  <2>. QED
    BY <2>1, <2>2 DEF U!Moves
<1>3. Walkthroughs'
  BY <1>1, <1>2 DEF SetupInv, Walkthroughs
<1>4. Held'
  BY <1>1 DEF SetupInv, Held
<1>. QED
  BY <1>3, <1>4 DEF SetupInv

\* A path that leads to a program is one of somebody's.
LEMMA LeadsSomewhere ==
  ASSUME NEW p \in U!Place \cup {U!None}, p # U!None
  PROVE  U!Find(p, TRUE) # U!None <=> p \in programs
  BY DEF U!Find, U!Executable

\* A walkthrough's step that leaves the machine as it is, and its own record as it
\* should be, keeps the invariant.
LEMMA WalkerKeeps ==
  ASSUME SetupInv, NEW w \in Walker, walk' \in [Walker -> WalkRec],
         \A v \in Walker \ {w} : walk'[v] = walk[v],
         programs' = programs, config' = config,
         ready' \in BOOLEAN, ready' => accounts' # {} /\ Leads,
         walk'[w].at = "idle" => ~walk'[w].findable,
         walk'[w].at \in {"reading", "truncating", "writing"} =>
           walk'[w].path \in programs /\ walk'[w].path # U!None,
         walk'[w].findable => Leads
  PROVE  SetupInv'
<1>1. Walkthroughs'
  BY DEF SetupInv, Walkthroughs
<1>2. Leads' <=> Leads
  BY DEF Leads, U!Find, U!Executable
<1>3. Held'
  BY <1>2 DEF SetupInv, Walkthroughs, Held
<1>. QED
  BY <1>1, <1>3 DEF SetupInv

\* A walkthrough's record stays one when a field of it is given another value.
LEMMA SetsField ==
  ASSUME NEW f \in [Walker -> WalkRec], NEW w \in Walker
  PROVE  /\ \A ph \in Stages : [f EXCEPT ![w].at = ph] \in [Walker -> WalkRec]
         /\ \A b \in BOOLEAN : [f EXCEPT ![w].running = b] \in [Walker -> WalkRec]
         /\ \A b \in BOOLEAN : [f EXCEPT ![w].findable = b] \in [Walker -> WalkRec]
         /\ \A p \in U!Place \cup {U!None} : [f EXCEPT ![w].path = p] \in [Walker -> WalkRec]
         /\ [f EXCEPT ![w].name = "work"] \in [Walker -> WalkRec]
<1>1. \A ph \in Stages : [f EXCEPT ![w].at = ph] \in [Walker -> WalkRec]
  BY DEF WalkRec
<1>2. \A b \in BOOLEAN : [f EXCEPT ![w].running = b] \in [Walker -> WalkRec]
  BY DEF WalkRec
<1>3. \A b \in BOOLEAN : [f EXCEPT ![w].findable = b] \in [Walker -> WalkRec]
  BY DEF WalkRec
<1>4. \A p \in U!Place \cup {U!None} : [f EXCEPT ![w].path = p] \in [Walker -> WalkRec]
  BY DEF WalkRec
<1>5. [f EXCEPT ![w].name = "work"] \in [Walker -> WalkRec]
  BY DEF WalkRec
<1>. QED
  BY <1>1, <1>2, <1>3, <1>4, <1>5

\* A walkthrough that goes on to where it may go without a path, or with the one it has.
LEMMA GoesOn ==
  ASSUME SetupInv, NEW w \in Walker, NEW ph \in Stages, U!To(w, ph),
         ph # "idle" \/ ~walk[w].findable,
         ph \in {"reading", "truncating", "writing"} =>
           walk[w].path \in programs /\ walk[w].path # U!None,
         UNCHANGED <<programs, config, accounts, ready>>
  PROVE  SetupInv'
<1>1. walk' \in [Walker -> WalkRec] /\ \A v \in Walker \ {w} : walk'[v] = walk[v]
  BY DEF SetupInv, Walkthroughs, U!To, WalkRec
<1>2. /\ walk'[w].at = ph /\ walk'[w].findable = walk[w].findable
      /\ walk'[w].path = walk[w].path
  BY DEF SetupInv, Walkthroughs, U!To, WalkRec
<1>. QED
  BY <1>1, <1>2, WalkerKeeps DEF SetupInv, Held, Walkthroughs

\* One that ends, having said at most what is so.
LEMMA EndsThere ==
  ASSUME SetupInv, NEW w \in Walker, walk' = [walk EXCEPT ![w] = U!Idle],
         programs' = programs, config' = config,
         ready' \in BOOLEAN, ready' => accounts' # {} /\ Leads
  PROVE  SetupInv'
<1>1. walk' \in [Walker -> WalkRec] /\ \A v \in Walker \ {w} : walk'[v] = walk[v]
  BY DEF SetupInv, Walkthroughs, WalkRec, U!Idle, Stages
<1>2. walk'[w].at = "idle" /\ walk'[w].findable = FALSE
  BY DEF SetupInv, Walkthroughs, U!Idle
<1>. QED
  BY <1>1, <1>2, WalkerKeeps

\* One that ends with an error says nothing.
LEMMA EndsQuietly ==
  ASSUME SetupInv, NEW w \in Walker, U!Ends(w), UNCHANGED <<programs, config, accounts>>
  PROVE  SetupInv'
<1>1. walk' = [walk EXCEPT ![w] = U!Idle] /\ ready' = ready
  BY DEF U!Ends
<1>. QED
  BY <1>1, EndsThere DEF SetupInv, Held, Walkthroughs

\* What a walkthrough that only asks and looks makes of its record.
LEMMA Looking ==
  ASSUME SetupInv, NEW w \in Walker,
         \/ U!Begins(w) \/ U!SetupDaemon(w) \/ U!Install(w) \/ U!SetupClaude(w)
         \/ U!AskExecutable(w) \/ U!Edit(w) \/ U!AccountAdd(w) \/ U!AccountToken(w)
         \/ U!Interrupted(w)
  PROVE  SetupInv'
<1>0. UNCHANGED <<programs, config, accounts>>
  BY DEF U!Begins, U!SetupDaemon, U!Install, U!SetupClaude, U!AskExecutable, U!Edit,
         U!AccountAdd, U!AccountToken, U!Interrupted, U!Machine
<1>1. CASE U!Ends(w)
  BY <1>0, <1>1, EndsQuietly
<1>2. ASSUME NEW ph \in Stages \ {"idle", "reading", "truncating", "writing"},
             U!To(w, ph), ready' = ready
      PROVE  SetupInv'
  BY <1>0, <1>2, GoesOn
<1>3. ASSUME U!SetupDaemon(w), walk' = [walk EXCEPT ![w].at = "claude", ![w].running = TRUE]
      PROVE  SetupInv'
  <2>1. walk' \in [Walker -> WalkRec] /\ \A v \in Walker \ {w} : walk'[v] = walk[v]
    <3>. DEFINE m == [walk EXCEPT ![w].at = "claude"]
    <3>1. walk \in [Walker -> WalkRec]
      BY DEF SetupInv, Walkthroughs
    <3>2. \A ph \in Stages : [walk EXCEPT ![w].at = ph] \in [Walker -> WalkRec]
      BY <3>1, SetsField
    <3>3. m \in [Walker -> WalkRec]
      BY <3>2 DEF Stages
    <3>4. \A v \in Walker \ {w} : m[v] = walk[v]
      BY <3>1
    <3>5. walk' = [m EXCEPT ![w].running = TRUE]
      BY <1>3
    <3>. HIDE DEF m
    <3>. QED
      BY <3>3, <3>4, <3>5, SetsField
  <2>2. walk'[w].at = "claude" /\ walk'[w].findable = walk[w].findable
    BY <1>3 DEF SetupInv, Walkthroughs, WalkRec
  <2>3. ready' = ready
    BY <1>3 DEF U!SetupDaemon
  <2>. QED
    BY <1>0, <2>1, <2>2, <2>3, WalkerKeeps DEF SetupInv, Held, Walkthroughs
<1>4. ASSUME U!SetupClaude(w),
             walk' = [walk EXCEPT ![w].at = "accounts", ![w].findable = TRUE],
             U!Find(config.named, TRUE) # U!None
      PROVE  SetupInv'
  <2>1. walk' \in [Walker -> WalkRec] /\ \A v \in Walker \ {w} : walk'[v] = walk[v]
    <3>. DEFINE m == [walk EXCEPT ![w].at = "accounts"]
    <3>1. walk \in [Walker -> WalkRec]
      BY DEF SetupInv, Walkthroughs
    <3>2. \A ph \in Stages : [walk EXCEPT ![w].at = ph] \in [Walker -> WalkRec]
      BY <3>1, SetsField
    <3>3. m \in [Walker -> WalkRec]
      BY <3>2 DEF Stages
    <3>4. \A v \in Walker \ {w} : m[v] = walk[v]
      BY <3>1
    <3>5. walk' = [m EXCEPT ![w].findable = TRUE]
      BY <1>4
    <3>. HIDE DEF m
    <3>. QED
      BY <3>3, <3>4, <3>5, SetsField
  <2>2. walk'[w].at = "accounts" /\ Leads
    BY <1>4 DEF SetupInv, Walkthroughs, WalkRec, Leads
  <2>3. ready' = ready
    BY <1>4 DEF U!SetupClaude, U!Ends, U!To
  <2>. QED
    BY <1>0, <2>1, <2>2, <2>3, WalkerKeeps DEF SetupInv, Held, Walkthroughs
<1>5. ASSUME NEW p \in U!Place, U!UsableProgram(p), ready' = ready,
             walk' = [walk EXCEPT ![w].at = "reading", ![w].path = p]
      PROVE  SetupInv'
  <2>1. walk' \in [Walker -> WalkRec] /\ \A v \in Walker \ {w} : walk'[v] = walk[v]
    <3>. DEFINE m == [walk EXCEPT ![w].at = "reading"]
    <3>1. walk \in [Walker -> WalkRec]
      BY DEF SetupInv, Walkthroughs
    <3>2. \A ph \in Stages : [walk EXCEPT ![w].at = ph] \in [Walker -> WalkRec]
      BY <3>1, SetsField
    <3>3. m \in [Walker -> WalkRec]
      BY <3>2 DEF Stages
    <3>4. \A v \in Walker \ {w} : m[v] = walk[v]
      BY <3>1
    <3>5. walk' = [m EXCEPT ![w].path = p]
      BY <1>5
    <3>. HIDE DEF m
    <3>. QED
      BY <3>3, <3>4, <3>5, SetsField
  <2>2. walk'[w].at = "reading" /\ walk'[w].path = p /\ walk'[w].findable = walk[w].findable
    BY <1>5 DEF SetupInv, Walkthroughs, WalkRec
  <2>3. p \in programs /\ p # U!None
    BY <1>5, LeadsSomewhere DEF U!UsableProgram, U!Place, U!None
  <2>. QED
    BY <1>0, <1>5, <2>1, <2>2, <2>3, WalkerKeeps DEF SetupInv, Held, Walkthroughs
<1>6. ASSUME U!Edit(w), ~U!Ends(w) PROVE SetupInv'
  <2>. DEFINE same == U!SetKey(config, walk[w].path) = config
  <2>1. /\ walk[w].at = "reading" /\ ready' = ready
        /\ walk' = [walk EXCEPT ![w].at = IF same THEN "accounts" ELSE "truncating",
                                ![w].findable = same]
    BY <1>6 DEF U!Edit, U!At
  <2>2. walk[w].path \in programs /\ walk[w].path # U!None
    BY <2>1 DEF SetupInv, Held
  <2>3. PICK b \in BOOLEAN : b = same
    OBVIOUS
  <2>4. b => Leads
    BY <2>2, <2>3, LeadsSomewhere DEF U!SetKey, Leads, SetupInv, Walkthroughs, WalkRec
  <2>. HIDE DEF same
  <2>5. walk' = [walk EXCEPT ![w].at = IF b THEN "accounts" ELSE "truncating",
                             ![w].findable = b]
    BY <2>1, <2>3
  <2>6. walk' \in [Walker -> WalkRec] /\ \A v \in Walker \ {w} : walk'[v] = walk[v]
    <3>. DEFINE m == [walk EXCEPT ![w].at = IF b THEN "accounts" ELSE "truncating"]
    <3>1. walk \in [Walker -> WalkRec]
      BY DEF SetupInv, Walkthroughs
    <3>2. \A ph \in Stages : [walk EXCEPT ![w].at = ph] \in [Walker -> WalkRec]
      BY <3>1, SetsField
    <3>3. m \in [Walker -> WalkRec]
      BY <3>2 DEF Stages
    <3>4. \A v \in Walker \ {w} : m[v] = walk[v]
      BY <3>1
    <3>5. walk' = [m EXCEPT ![w].findable = b]
      BY <2>5
    <3>. HIDE DEF m
    <3>. QED
      BY <3>3, <3>4, <3>5, SetsField
  <2>7. /\ walk'[w].at \in {"accounts", "truncating"} /\ walk'[w].findable = b
        /\ walk'[w].path = walk[w].path
    BY <2>5 DEF SetupInv, Walkthroughs, WalkRec
  <2>. QED
    BY <1>0, <2>1, <2>2, <2>4, <2>6, <2>7, WalkerKeeps DEF SetupInv, Held, Walkthroughs
<1>7. CASE U!Begins(w)
  BY <1>2, <1>7 DEF U!Begins, Stages
<1>8. CASE U!SetupDaemon(w)
  BY <1>1, <1>2, <1>3, <1>8 DEF U!SetupDaemon, U!Confirm, Stages
<1>9. CASE U!Install(w)
  BY <1>1, <1>2, <1>9 DEF U!Install, Stages
<1>10. CASE U!SetupClaude(w)
  BY <1>1, <1>2, <1>4, <1>10 DEF U!SetupClaude, Stages
<1>11. CASE U!AskExecutable(w)
  BY <1>1, <1>2, <1>5, <1>11 DEF U!AskExecutable, Stages
<1>12. CASE U!AccountAdd(w)
  BY <1>1, <1>2, <1>12 DEF U!AccountAdd, Stages
<1>13. CASE U!AccountToken(w)
  BY <1>1, <1>2, <1>13 DEF U!AccountToken, Stages
<1>14. CASE U!Interrupted(w)
  BY <1>1, <1>14 DEF U!Interrupted
<1>. QED
  BY <1>1, <1>6, <1>7, <1>8, <1>9, <1>10, <1>11, <1>12, <1>13, <1>14

\* What a walkthrough writes leads to the program its user named.
LEMMA Writing ==
  ASSUME SetupInv, NEW w \in Walker, U!Truncates(w) \/ U!Writes(w)
  PROVE  SetupInv'
<1>0. UNCHANGED <<programs, accounts, ready>> /\ walk[w].path \in programs /\ walk[w].path # U!None
  BY DEF U!Truncates, U!Writes, U!Machine, U!At, SetupInv, Held
<1>1. ASSUME U!Truncates(w) PROVE SetupInv'
  <2>1. config' \in [named : U!Place \cup {U!None}, whole : BOOLEAN] /\ config'.whole = FALSE
    BY <1>1 DEF U!Truncates, SetupInv, Walkthroughs
  <2>2. walk' \in [Walker -> WalkRec] /\ \A v \in Walker \ {w} : walk'[v] = walk[v]
    BY <1>1 DEF U!Truncates, U!To, SetupInv, Walkthroughs, WalkRec, Stages
  <2>3. walk'[w].at = "writing" /\ walk'[w].path = walk[w].path
    BY <1>1 DEF U!Truncates, U!To, SetupInv, Walkthroughs, WalkRec
  <2>4. Leads'
    BY <2>1 DEF Leads
  <2>. QED
    BY <1>0, <2>1, <2>2, <2>3, <2>4 DEF SetupInv, Held, Walkthroughs
<1>2. ASSUME U!Writes(w) PROVE SetupInv'
  <2>1. /\ config' \in [named : U!Place \cup {U!None}, whole : BOOLEAN]
        /\ config'.named = walk[w].path
    BY <1>2 DEF U!Writes, U!SetKey, SetupInv, Walkthroughs, WalkRec
  <2>2. walk' \in [Walker -> WalkRec] /\ \A v \in Walker \ {w} : walk'[v] = walk[v]
    <3>. DEFINE m == [walk EXCEPT ![w].at = "accounts"]
    <3>1. walk \in [Walker -> WalkRec]
      BY DEF SetupInv, Walkthroughs
    <3>2. \A ph \in Stages : [walk EXCEPT ![w].at = ph] \in [Walker -> WalkRec]
      BY <3>1, SetsField
    <3>3. m \in [Walker -> WalkRec]
      BY <3>2 DEF Stages
    <3>4. \A v \in Walker \ {w} : m[v] = walk[v]
      BY <3>1
    <3>5. walk' = [m EXCEPT ![w].findable = TRUE]
      BY <1>2 DEF U!Writes
    <3>. HIDE DEF m
    <3>. QED
      BY <3>3, <3>4, <3>5, SetsField
  <2>3. walk'[w].at = "accounts"
    BY <1>2 DEF U!Writes, SetupInv, Walkthroughs, WalkRec
  <2>4. Leads'
    BY <1>0, <2>1 DEF Leads, U!Find, U!Executable
  <2>. QED
    BY <1>0, <2>1, <2>2, <2>3, <2>4 DEF SetupInv, Held, Walkthroughs
<1>. QED
  BY <1>1, <1>2

\* What is told at the end is so, whether there was an Account or this one made it.
LEMMA Telling ==
  ASSUME SetupInv, NEW w \in Walker, U!SetupAccount(w) \/ U!AddAccount(w)
  PROVE  SetupInv'
<1>. DEFINE said == ready \/ (walk[w].running /\ walk[w].findable)
<1>0. programs' = programs /\ config' = config
  BY DEF U!SetupAccount, U!AddAccount, U!Machine
<1>1. said => Leads
  BY DEF SetupInv, Held
<1>2. said \in BOOLEAN /\ walk[w].running \in BOOLEAN
  BY DEF SetupInv, Walkthroughs, WalkRec
<1>3. CASE U!Ends(w) /\ accounts' = accounts
  BY <1>0, <1>3, EndsQuietly
<1>4. ASSUME U!Tells(w), said => accounts' # {} PROVE SetupInv'
  <2>1. walk' = [walk EXCEPT ![w] = U!Idle] /\ ready' = said
    BY <1>4 DEF U!Tells
  <2>. QED
    BY <1>0, <1>1, <1>2, <1>4, <2>1, EndsThere
<1>5. ASSUME U!AskAccountName(w), ready' = ready, accounts' = accounts PROVE SetupInv'
  <2>1. walk' = [walk EXCEPT ![w].at = "free", ![w].name = "work"]
    BY <1>5 DEF U!AskAccountName
  <2>2. walk' \in [Walker -> WalkRec] /\ \A v \in Walker \ {w} : walk'[v] = walk[v]
    <3>. DEFINE m == [walk EXCEPT ![w].at = "free"]
    <3>1. walk \in [Walker -> WalkRec]
      BY DEF SetupInv, Walkthroughs
    <3>2. \A ph \in Stages : [walk EXCEPT ![w].at = ph] \in [Walker -> WalkRec]
      BY <3>1, SetsField
    <3>3. m \in [Walker -> WalkRec]
      BY <3>2 DEF Stages
    <3>4. \A v \in Walker \ {w} : m[v] = walk[v]
      BY <3>1
    <3>5. walk' = [m EXCEPT ![w].name = "work"]
      BY <2>1
    <3>. HIDE DEF m
    <3>. QED
      BY <3>3, <3>4, <3>5, SetsField
  <2>3. walk'[w].at = "free" /\ walk'[w].findable = walk[w].findable
    BY <2>1 DEF SetupInv, Walkthroughs, WalkRec
  <2>. QED
    BY <1>0, <1>5, <2>2, <2>3, WalkerKeeps DEF SetupInv, Held, Walkthroughs
<1>6. ready => accounts # {}
  BY DEF SetupInv, Held
<1>7. ASSUME U!SetupAccount(w) PROVE SetupInv'
  <2>1. accounts' = accounts
    BY <1>7 DEF U!SetupAccount, U!Machine
  <2>2. CASE U!Tells(w) /\ (~walk[w].running \/ accounts # {})
    BY <1>4, <1>6, <2>1, <2>2
  <2>3. CASE U!AskAccountName(w) /\ ready' = ready
    BY <1>5, <2>1, <2>3
  <2>4. CASE U!Ends(w)
    BY <1>3, <2>1, <2>4
  <2>. QED
    BY <1>7, <2>2, <2>3, <2>4 DEF U!SetupAccount
<1>8. ASSUME U!AddAccount(w) PROVE SetupInv'
  BY <1>3, <1>4, <1>8 DEF U!AddAccount
<1>. QED
  BY <1>7, <1>8

\* A step, or none, keeps the invariant.
LEMMA SetupStays == ASSUME SetupInv, [U!Next]_(U!vars) PROVE SetupInv'
<1>1. CASE UNCHANGED <<programs, config, accounts, walk, ready>>
  BY <1>1 DEF SetupInv, Walkthroughs, Held, Leads, U!Find, U!Executable
<1>2. CASE U!Start \/ U!Stop \/ UNCHANGED U!vars
  BY <1>1, <1>2 DEF U!Start, U!Stop, U!vars, U!Machine
<1>3. CASE \E w \in Walker : U!Walks(w)
  BY <1>3, Looking, Writing, Telling DEF U!Walks
<1>. QED
  BY <1>2, <1>3, MovesKeep DEF U!Next

-----------------------------------------------------------------------------
(* Projects.  As long as no two commands that write share a name, a Project's *)
(* configuration is under its name, or under the one a rename has moved it to *)
(* and will give the row as well or take it back from.                        *)

Names  == Name \cup {P!Idle.from}
OpRec  == [at : {"idle", "rename", "row", "undo", "setup", "shown"}, from : Names, to : Names,
           of : Nat, moved : BOOLEAN]
Writes(o)      == op[o].at \notin {"idle", "shown"}
MovedTo(o, m)  == op[o].moved /\ op[o].to = m

\* The types, and that no number is given twice.
Numbered ==
  /\ registered \in [Name -> Nat] /\ dir \in [Name -> Nat] /\ adds \in Nat
  /\ op \in [Op -> OpRec] /\ shared \in BOOLEAN
  /\ \A n \in Name : registered[n] <= adds /\ dir[n] <= adds
  /\ \A n, m \in Name : registered[n] = registered[m] /\ registered[n] # 0 => n = m
  /\ \A o \in Op : op[o].of <= adds

\* What each command holds.
Commands ==
  \A o \in Op :
    /\ Writes(o) => op[o].from \in Name /\ op[o].to \in Name
    /\ op[o].moved => op[o].at \in {"row", "undo"}
    /\ op[o].at = "undo" => op[o].moved

\* Of commands that write no two share a name; one past its move, or a setup, has its
\* name to itself.
Apart ==
  ~shared =>
    /\ \A o, q \in Op : Writes(o) /\ Writes(q) /\ o # q =>
         /\ op[o].from # op[q].from /\ op[o].from # op[q].to
         /\ op[o].to # op[q].from /\ op[o].to # op[q].to
    /\ \A o \in Op : op[o].at \in {"row", "undo"} => dir[op[o].from] = 0
    /\ \A o \in Op : op[o].at = "setup" =>
         op[o].of # 0 /\ \A k \in Name : registered[k] = op[o].of => k = op[o].from

\* A Project's configuration is under its own name, or where a rename has it.
Follows ==
  ~shared =>
    \A n, m \in Name : registered[n] # 0 /\ dir[m] = registered[n] =>
      \/ m = n /\ \A q \in Op : ~MovedTo(q, m)
      \/ \E q \in Op : MovedTo(q, m) /\ op[q].from = n

ProjectsInv == Numbered /\ Commands /\ Apart /\ Follows

\* There are no Projects to begin with.
LEMMA ProjectsBegin == ASSUME P!Init PROVE ProjectsInv
<1>1. \A o \in Op : op[o] = P!Idle
  BY DEF P!Init
<1>2. P!Idle.at = "idle" /\ P!Idle.moved = FALSE /\ P!Idle.of = 0 /\ P!Idle \in OpRec
  BY DEF P!Idle, OpRec, Names
<1>3. Numbered
  <2>1. op \in [Op -> OpRec]
    BY <1>2 DEF P!Init
  <2>2. registered \in [Name -> Nat] /\ dir \in [Name -> Nat] /\ adds = 0 /\ shared \in BOOLEAN
    BY DEF P!Init
  <2>3. \A n \in Name : registered[n] = 0 /\ dir[n] = 0
    BY DEF P!Init
  <2>. QED
    BY <1>1, <1>2, <2>1, <2>2, <2>3 DEF Numbered
<1>4. Commands /\ Apart
  BY <1>1, <1>2 DEF Commands, Apart, Writes
<1>5. Follows
  BY DEF P!Init, Follows
<1>. QED
  BY <1>3, <1>4, <1>5 DEF ProjectsInv

\* A command's record stays one when it ends, begins or goes on.
LEMMA OpsTyped ==
  ASSUME NEW o \in Op, op \in [Op -> OpRec]
  PROVE  /\ op' = [op EXCEPT ![o] = P!Idle] =>
              /\ op' \in [Op -> OpRec] /\ \A q \in Op \ {o} : op'[q] = op[q]
              /\ op'[o].at = "idle" /\ op'[o].moved = FALSE /\ op'[o].of = 0
         /\ \A ph \in {"idle", "rename", "row", "undo", "setup", "shown"} :
              op' = [op EXCEPT ![o].at = ph] =>
                /\ op' \in [Op -> OpRec] /\ \A q \in Op \ {o} : op'[q] = op[q]
                /\ op'[o].at = ph /\ op'[o].from = op[o].from /\ op'[o].to = op[o].to
                /\ op'[o].of = op[o].of /\ op'[o].moved = op[o].moved
<1>1. P!Idle.at = "idle" /\ P!Idle.moved = FALSE /\ P!Idle.of = 0 /\ P!Idle \in OpRec
  BY DEF P!Idle, OpRec, Names
<1>2. ASSUME op' = [op EXCEPT ![o] = P!Idle]
      PROVE  /\ op' \in [Op -> OpRec] /\ \A q \in Op \ {o} : op'[q] = op[q]
             /\ op'[o].at = "idle" /\ op'[o].moved = FALSE /\ op'[o].of = 0
  BY <1>1, <1>2
<1>3. ASSUME NEW ph \in {"idle", "rename", "row", "undo", "setup", "shown"},
             op' = [op EXCEPT ![o].at = ph]
      PROVE  /\ op' \in [Op -> OpRec] /\ \A q \in Op \ {o} : op'[q] = op[q]
             /\ op'[o].at = ph /\ op'[o].from = op[o].from /\ op'[o].to = op[o].to
             /\ op'[o].of = op[o].of /\ op'[o].moved = op[o].moved
  BY <1>3 DEF OpRec
<1>. QED
  BY <1>2, <1>3

\* What a command that begins is.
LEMMA BeginsTyped ==
  ASSUME NEW o \in Op, op \in [Op -> OpRec], registered \in [Name -> Nat],
         NEW n \in Name, NEW m \in Name,
         NEW ph \in {"rename", "setup", "shown"},
         \/ op' = [op EXCEPT ![o] = [P!Idle EXCEPT !.at = ph, !.from = n, !.to = m,
                                                   !.of = registered[n]]]
         \/ op' = [op EXCEPT ![o] = [P!Idle EXCEPT !.at = ph, !.from = n, !.of = registered[n]]]
            /\ ph = "shown"
  PROVE  /\ op' \in [Op -> OpRec] /\ \A q \in Op \ {o} : op'[q] = op[q]
         /\ op'[o].at = ph /\ op'[o].moved = FALSE /\ op'[o].of = registered[n]
         /\ op'[o].from = n /\ (ph # "shown" => op'[o].to = m)
<1>. DEFINE x == P!Idle.to
<1>1. x \in Names
  BY DEF P!Idle, Names
<1>2. P!Idle = [at |-> "idle", from |-> x, to |-> x, of |-> 0, moved |-> FALSE]
  BY DEF P!Idle
<1>. HIDE DEF x
<1>3. CASE op' = [op EXCEPT ![o] = [at |-> ph, from |-> n, to |-> m, of |-> registered[n],
                                    moved |-> FALSE]]
  BY <1>3 DEF OpRec, Names
<1>4. CASE op' = [op EXCEPT ![o] = [at |-> ph, from |-> n, to |-> x, of |-> registered[n],
                                    moved |-> FALSE]] /\ ph = "shown"
  BY <1>1, <1>4 DEF OpRec, Names
<1>. QED
  BY <1>2, <1>3, <1>4

\* A command that begins shares no name with another that writes, or is noted to.
LEMMA CommandBegins ==
  ASSUME ProjectsInv, NEW o \in Op, NEW n \in Name, NEW m \in Name,
         P!SetupBegins(o, n) \/ P!ShowBegins(o, n) \/ P!RenameBegins(o, n, m)
  PROVE  ProjectsInv'
<1>. USE DEF ProjectsInv, Numbered
<1>0. UNCHANGED <<registered, dir, adds>> /\ op[o] = P!Idle /\ registered[n] # 0
  BY DEF P!SetupBegins, P!ShowBegins, P!RenameBegins
<1>1. ~Writes(o) /\ ~op[o].moved
  BY <1>0 DEF Writes, P!Idle
<1>2. ASSUME op' \in [Op -> OpRec], \A q \in Op \ {o} : op'[q] = op[q],
             op'[o].moved = FALSE, op'[o].of = registered[n], op'[o].from = n,
             \/ op'[o].at = "shown" /\ shared' = shared
             \/ op'[o].at = "rename" /\ op'[o].to = m /\ P!Shared(o, {n, m})
             \/ op'[o].at = "setup" /\ op'[o].to = n /\ P!Shared(o, {n})
      PROVE  ProjectsInv'
  <2>1. shared' \in BOOLEAN /\ (~shared' => ~shared)
    BY <1>2 DEF P!Shared
  <2>2. Numbered'
    BY <1>0, <1>2, <2>1
  <2>3. Commands'
    BY <1>0, <1>2 DEF Commands, Writes
  <2>4. ASSUME ~shared', op'[o].at # "shown", NEW q \in Op, q # o, Writes(q)
        PROVE  /\ op[q].from # op'[o].from /\ op[q].from # op'[o].to
               /\ op[q].to # op'[o].from /\ op[q].to # op'[o].to
    BY <1>2, <2>4 DEF P!Shared, Writes
  <2>5. Apart'
    BY <1>0, <1>1, <1>2, <2>1, <2>4 DEF Apart, Writes
  <2>6. \A q \in Op, k \in Name : MovedTo(q, k)' <=> MovedTo(q, k)
    BY <1>1, <1>2 DEF MovedTo
  <2>7. \A q \in Op, k \in Name : MovedTo(q, k) => op'[q].from = op[q].from
    BY <1>1, <1>2 DEF MovedTo
  <2>8. Follows'
    BY <1>0, <2>1, <2>6, <2>7 DEF Follows
  <2>. QED
    BY <2>2, <2>3, <2>5, <2>8
<1>3. CASE P!SetupBegins(o, n)
  <2>1. op' = [op EXCEPT ![o] = [P!Idle EXCEPT !.at = "setup", !.from = n, !.to = n,
                                               !.of = registered[n]]]
    BY <1>3 DEF P!SetupBegins
  <2>2. /\ op' \in [Op -> OpRec] /\ \A q \in Op \ {o} : op'[q] = op[q]
        /\ op'[o].at = "setup" /\ op'[o].moved = FALSE /\ op'[o].of = registered[n]
        /\ op'[o].from = n /\ op'[o].to = n
    BY <2>1, BeginsTyped
  <2>. QED
    BY <1>2, <1>3, <2>2 DEF P!SetupBegins
<1>4. CASE P!RenameBegins(o, n, m)
  <2>1. op' = [op EXCEPT ![o] = [P!Idle EXCEPT !.at = "rename", !.from = n, !.to = m,
                                               !.of = registered[n]]]
    BY <1>4 DEF P!RenameBegins
  <2>2. /\ op' \in [Op -> OpRec] /\ \A q \in Op \ {o} : op'[q] = op[q]
        /\ op'[o].at = "rename" /\ op'[o].moved = FALSE /\ op'[o].of = registered[n]
        /\ op'[o].from = n /\ op'[o].to = m
    BY <2>1, BeginsTyped
  <2>. QED
    BY <1>2, <1>4, <2>2 DEF P!RenameBegins
<1>5. CASE P!ShowBegins(o, n)
  <2>1. op' = [op EXCEPT ![o] = [P!Idle EXCEPT !.at = "shown", !.from = n, !.of = registered[n]]]
    BY <1>5 DEF P!ShowBegins
  <2>2. /\ op' \in [Op -> OpRec] /\ \A q \in Op \ {o} : op'[q] = op[q]
        /\ op'[o].at = "shown" /\ op'[o].moved = FALSE /\ op'[o].of = registered[n]
        /\ op'[o].from = n
    BY <2>1, BeginsTyped
  <2>. QED
    BY <1>2, <1>5, <2>2 DEF P!ShowBegins
<1>. QED
  BY <1>3, <1>4, <1>5

\* The commands that are one statement: a number is nobody else's, and a removed
\* Project's is nobody's again.
LEMMA RowsChange ==
  ASSUME ProjectsInv, NEW n \in Name, P!Add(n) \/ P!Remove(n)
  PROVE  ProjectsInv'
<1>0. UNCHANGED <<dir, op, shared>>
  BY DEF P!Add, P!Remove
<1>1. /\ registered' \in [Name -> Nat] /\ adds' \in Nat /\ adds' >= adds
      /\ \A k \in Name \ {n} : registered'[k] = registered[k]
      /\ registered'[n] = 0 \/ (registered'[n] = adds + 1 /\ adds' = adds + 1)
  BY DEF P!Add, P!Remove, ProjectsInv, Numbered
<1>4. \A o \in Op : op[o].of \in Nat
  BY DEF ProjectsInv, Numbered, OpRec
<1>2. Numbered'
  <2>1. \A k \in Name : registered'[k] <= adds' /\ dir[k] <= adds'
    BY <1>1 DEF ProjectsInv, Numbered
  <2>2. \A k, m \in Name : registered'[k] = registered'[m] /\ registered'[k] # 0 => k = m
    BY <1>1 DEF ProjectsInv, Numbered
  <2>3. \A o \in Op : op[o].of <= adds'
    BY <1>1, <1>4 DEF ProjectsInv, Numbered
  <2>. QED
    BY <1>0, <1>1, <2>1, <2>2, <2>3 DEF ProjectsInv, Numbered
<1>3. Commands'
  BY <1>0 DEF ProjectsInv, Commands, Writes
<1>5. Apart'
  BY <1>0, <1>1, <1>4 DEF ProjectsInv, Numbered, Apart, Writes
<1>6. Follows'
  BY <1>0, <1>1 DEF ProjectsInv, Numbered, Follows, MovedTo
<1>. QED
  BY <1>2, <1>3, <1>5, <1>6 DEF ProjectsInv

\* A command that ends with nothing of its own to put back leaves what there is.
LEMMA CommandEnds ==
  ASSUME ProjectsInv, NEW o \in Op, P!Ends(o), ~op[o].moved,
         UNCHANGED <<registered, dir, adds, shared>>
  PROVE  ProjectsInv'
<1>1. /\ op' \in [Op -> OpRec] /\ \A q \in Op \ {o} : op'[q] = op[q]
      /\ op'[o].at = "idle" /\ op'[o].moved = FALSE /\ op'[o].of = 0
  BY OpsTyped DEF P!Ends, ProjectsInv, Numbered
<1>2. Numbered'
  BY <1>1 DEF ProjectsInv, Numbered
<1>3. Commands' /\ Apart'
  BY <1>1 DEF ProjectsInv, Commands, Apart, Writes
<1>4. Follows'
  BY <1>1 DEF ProjectsInv, Follows, MovedTo
<1>. QED
  BY <1>2, <1>3, <1>4 DEF ProjectsInv

\* A rename moves the directory, where there is one and its new place is free.
LEMMA DirMoves == ASSUME ProjectsInv, NEW o \in Op, P!MovesDir(o) PROVE ProjectsInv'
<1>. DEFINE from == op[o].from
            to == op[o].to
<1>0. /\ op[o].at = "rename" /\ ~op[o].moved /\ from \in Name /\ to \in Name
      /\ UNCHANGED <<registered, adds, shared>>
  BY DEF P!MovesDir, ProjectsInv, Commands, Writes
<1>1. CASE P!Ends(o) /\ UNCHANGED dir
  BY <1>0, <1>1, CommandEnds
<1>2. CASE dir[from] = 0 /\ P!Goes(o, "row") /\ UNCHANGED dir
  <2>1. /\ op' \in [Op -> OpRec] /\ \A q \in Op \ {o} : op'[q] = op[q]
        /\ op'[o].at = "row" /\ op'[o].from = from /\ op'[o].to = to
        /\ op'[o].of = op[o].of /\ op'[o].moved = op[o].moved
    BY <1>2, OpsTyped DEF P!Goes, ProjectsInv, Numbered
  <2>2. Numbered'
    BY <1>0, <1>2, <2>1 DEF ProjectsInv, Numbered
  <2>3. Commands' /\ Apart'
    BY <1>0, <1>2, <2>1 DEF ProjectsInv, Commands, Apart, Writes
  <2>4. Follows'
    BY <1>0, <1>2, <2>1 DEF ProjectsInv, Follows, MovedTo
  <2>. QED
    BY <2>2, <2>3, <2>4 DEF ProjectsInv
<1>3. ASSUME dir[from] # 0, dir[to] = 0, dir' = [dir EXCEPT ![from] = 0, ![to] = dir[from]],
             op' = [op EXCEPT ![o].at = "row", ![o].moved = TRUE]
      PROVE  ProjectsInv'
  <2>1. /\ op' \in [Op -> OpRec] /\ \A q \in Op \ {o} : op'[q] = op[q]
        /\ op'[o].at = "row" /\ op'[o].from = from /\ op'[o].to = to
        /\ op'[o].of = op[o].of /\ op'[o].moved = TRUE
    <3>. DEFINE m == [op EXCEPT ![o].at = "row"]
    <3>1. m \in [Op -> OpRec]
      BY DEF ProjectsInv, Numbered, OpRec
    <3>2. /\ \A q \in Op \ {o} : m[q] = op[q]
          /\ m[o].at = "row" /\ m[o].from = from /\ m[o].to = to /\ m[o].of = op[o].of
      BY DEF ProjectsInv, Numbered, OpRec
    <3>3. op' = [m EXCEPT ![o].moved = TRUE]
      BY <1>3
    <3>. HIDE DEF m, from, to
    <3>. QED
      BY <3>1, <3>2, <3>3 DEF OpRec
  <2>. HIDE DEF from, to
  <2>2. /\ dir' \in [Name -> Nat] /\ dir'[from] = 0 /\ dir'[to] = dir[from] /\ from # to
        /\ \A n \in Name \ {from, to} : dir'[n] = dir[n]
    BY <1>0, <1>3 DEF ProjectsInv, Numbered
  <2>3. Numbered'
    BY <1>0, <2>1, <2>2 DEF ProjectsInv, Numbered
  <2>4. Commands'
    BY <1>0, <2>1 DEF ProjectsInv, Commands, Writes
  <2>5. ASSUME ~shared, NEW q \in Op, q # o, Writes(q)
        PROVE  op[q].from \notin {from, to} /\ op[q].to \notin {from, to}
    BY <1>0, <2>5 DEF ProjectsInv, Apart, Writes, from, to
  <2>6. Apart'
    BY <1>0, <2>1, <2>2, <2>5 DEF ProjectsInv, Commands, Apart, Writes, from, to
  <2>7. ASSUME ~shared, NEW q \in Op, NEW k \in Name
        PROVE  MovedTo(q, k)' <=> MovedTo(q, k) \/ (q = o /\ k = to)
    BY <1>0, <2>1 DEF MovedTo, from, to
  <2>8. ASSUME ~shared, NEW q \in Op, NEW k \in Name, MovedTo(q, k)
        PROVE  k \notin {from, to} /\ op'[q].from = op[q].from
    BY <1>0, <2>1, <2>5, <2>8 DEF MovedTo, ProjectsInv, Commands, Writes
  <2>9. ASSUME ~shared, NEW n \in Name, NEW m \in Name, registered[n] # 0,
               dir'[m] = registered[n]
        PROVE  \/ m = n /\ \A q \in Op : ~MovedTo(q, m)'
               \/ \E q \in Op : MovedTo(q, m)' /\ op'[q].from = n
    <3>1. CASE m = to
      <4>1. n = from
        BY <1>0, <2>2, <2>8, <2>9, <3>1 DEF ProjectsInv, Follows
      <4>. QED
        BY <1>0, <2>1, <2>7, <2>9, <3>1, <4>1
    <3>2. CASE m \notin {from, to}
      BY <1>0, <2>2, <2>7, <2>8, <2>9, <3>2 DEF ProjectsInv, Follows
    <3>. QED
      BY <2>2, <2>9, <3>1, <3>2
  <2>10. Follows'
    BY <1>0, <2>9 DEF Follows
  <2>. QED
    BY <2>3, <2>4, <2>6, <2>10 DEF ProjectsInv
<1>. QED
  BY <1>1, <1>2, <1>3 DEF P!MovesDir

\* The row follows, or a rename that moved the directory goes on to put it back.
LEMMA RowMoves == ASSUME ProjectsInv, NEW o \in Op, P!RenamesRow(o) PROVE ProjectsInv'
<1>. DEFINE from == op[o].from
            to == op[o].to
<1>0. /\ op[o].at = "row" /\ from \in Name /\ to \in Name
      /\ UNCHANGED <<dir, adds, shared>>
  BY DEF P!RenamesRow, ProjectsInv, Commands, Writes
<1>1. ASSUME registered[from] # 0, registered[to] = 0, P!Ends(o),
             registered' = [registered EXCEPT ![from] = 0, ![to] = registered[from]]
      PROVE  ProjectsInv'
  <2>1. /\ op' \in [Op -> OpRec] /\ \A q \in Op \ {o} : op'[q] = op[q]
        /\ op'[o].at = "idle" /\ op'[o].moved = FALSE /\ op'[o].of = 0
    BY <1>1, OpsTyped DEF P!Ends, ProjectsInv, Numbered
  <2>. HIDE DEF from, to
  <2>2. /\ registered' \in [Name -> Nat] /\ registered'[from] = 0
        /\ registered'[to] = registered[from] /\ from # to
        /\ \A n \in Name \ {from, to} : registered'[n] = registered[n]
    BY <1>0, <1>1 DEF ProjectsInv, Numbered
  <2>3. Numbered'
    <3>1. \A k, m \in Name : registered'[k] = registered'[m] /\ registered'[k] # 0 => k = m
      BY <1>0, <2>2 DEF ProjectsInv, Numbered
    <3>. QED
      BY <1>0, <2>1, <2>2, <3>1 DEF ProjectsInv, Numbered
  <2>4. Commands'
    BY <2>1 DEF ProjectsInv, Commands, Writes
  <2>5. ASSUME ~shared, NEW q \in Op, q # o, Writes(q)
        PROVE  op[q].from \notin {from, to} /\ op[q].to \notin {from, to}
    BY <1>0, <2>5 DEF ProjectsInv, Apart, Writes, from, to
  <2>6. Apart'
    BY <1>0, <2>1, <2>2, <2>5 DEF ProjectsInv, Apart, Writes
  <2>7. ASSUME ~shared, NEW q \in Op, NEW k \in Name
        PROVE  MovedTo(q, k)' <=> MovedTo(q, k) /\ q # o
    BY <2>1 DEF MovedTo
  <2>8. ASSUME ~shared, NEW q \in Op, NEW k \in Name, MovedTo(q, k), q # o
        PROVE  k \notin {from, to} /\ op'[q].from = op[q].from /\ op[q].from \notin {from, to}
    BY <2>1, <2>5, <2>8 DEF MovedTo, ProjectsInv, Commands, Writes
  <2>9. ASSUME ~shared, NEW n \in Name, NEW m \in Name, registered'[n] # 0,
               dir[m] = registered'[n]
        PROVE  \/ m = n /\ \A q \in Op : ~MovedTo(q, m)'
               \/ \E q \in Op : MovedTo(q, m)' /\ op'[q].from = n
    <3>0. dir[from] = 0
      BY <1>0, <2>9 DEF ProjectsInv, Apart, from
    <3>1. CASE n = to
      <4>1. m = to
        BY <1>0, <1>1, <2>2, <2>8, <2>9, <3>0, <3>1 DEF ProjectsInv, Follows, MovedTo, to
      <4>. QED
        BY <2>7, <2>8, <2>9, <3>1, <4>1
    <3>2. CASE n \notin {from, to}
      <4>1. \/ m = n /\ \A q \in Op : ~MovedTo(q, m)
            \/ \E q \in Op : MovedTo(q, m) /\ op[q].from = n
        BY <2>2, <2>9, <3>2 DEF ProjectsInv, Follows
      <4>. QED
        BY <1>0, <2>7, <2>8, <2>9, <3>2, <4>1 DEF from
    <3>. QED
      BY <2>2, <2>9, <3>1, <3>2
  <2>10. Follows'
    BY <1>0, <2>9 DEF Follows
  <2>. QED
    BY <2>3, <2>4, <2>6, <2>10 DEF ProjectsInv
<1>2. CASE op[o].moved /\ P!Goes(o, "undo") /\ UNCHANGED registered
  <2>1. /\ op' \in [Op -> OpRec] /\ \A q \in Op \ {o} : op'[q] = op[q]
        /\ op'[o].at = "undo" /\ op'[o].from = from /\ op'[o].to = to
        /\ op'[o].of = op[o].of /\ op'[o].moved = op[o].moved
    BY <1>2, OpsTyped DEF P!Goes, ProjectsInv, Numbered
  <2>2. Numbered'
    BY <1>0, <1>2, <2>1 DEF ProjectsInv, Numbered
  <2>. HIDE DEF from, to
  <2>3. Commands'
    BY <1>0, <1>2, <2>1 DEF ProjectsInv, Commands, Writes, from, to
  <2>4. \A q \in Op : Writes(q)' <=> Writes(q)
    BY <1>0, <2>1 DEF Writes
  <2>5. \A q \in Op : op'[q].from = op[q].from /\ op'[q].to = op[q].to
    BY <2>1 DEF from, to
  <2>6. Apart'
    BY <1>0, <1>2, <2>1, <2>4, <2>5 DEF ProjectsInv, Apart
  <2>7. \A q \in Op, k \in Name : MovedTo(q, k)' <=> MovedTo(q, k)
    BY <2>1, <2>5 DEF MovedTo
  <2>8. Follows'
    BY <1>0, <1>2, <2>5, <2>7 DEF ProjectsInv, Follows
  <2>. QED
    BY <2>2, <2>3, <2>6, <2>8 DEF ProjectsInv
<1>3. CASE ~op[o].moved /\ P!Ends(o) /\ UNCHANGED registered
  BY <1>0, <1>3, CommandEnds
<1>. QED
  BY <1>1, <1>2, <1>3 DEF P!RenamesRow

\* A refused rename puts the directory back, if its old place is free.
LEMMA DirReturns == ASSUME ProjectsInv, NEW o \in Op, P!Undo(o) PROVE ProjectsInv'
<1>. DEFINE from == op[o].from
            to == op[o].to
<1>0. /\ op[o].at = "undo" /\ op[o].moved /\ from \in Name /\ to \in Name
      /\ UNCHANGED <<registered, adds, shared>>
  BY DEF P!Undo, ProjectsInv, Commands, Writes
<1>1. /\ op' \in [Op -> OpRec] /\ \A q \in Op \ {o} : op'[q] = op[q]
      /\ op'[o].at = "idle" /\ op'[o].moved = FALSE /\ op'[o].of = 0
  BY OpsTyped DEF P!Undo, P!Ends, ProjectsInv, Numbered
<1>2. CASE dir' = dir
  <2>1. Numbered'
    BY <1>0, <1>1, <1>2 DEF ProjectsInv, Numbered
  <2>2. Commands' /\ Apart'
    BY <1>0, <1>1, <1>2 DEF ProjectsInv, Commands, Apart, Writes
  <2>3. ASSUME ~shared PROVE dir[to] = 0
    BY <1>0, <1>2, <2>3 DEF P!Undo, P!PutBack, ProjectsInv, Numbered, Apart
  <2>. HIDE DEF from, to
  <2>4. \A q \in Op, k \in Name : MovedTo(q, k)' => MovedTo(q, k)
    BY <1>1 DEF MovedTo
  <2>5. \A q \in Op, k \in Name :
          MovedTo(q, k) /\ k # to => MovedTo(q, k)' /\ op'[q].from = op[q].from
    BY <1>1 DEF MovedTo, to
  <2>6. Follows'
    BY <1>0, <1>2, <2>3, <2>4, <2>5 DEF ProjectsInv, Follows
  <2>. QED
    BY <2>1, <2>2, <2>6 DEF ProjectsInv
<1>3. ASSUME dir[to] # 0, dir[from] = 0, dir' = [dir EXCEPT ![from] = dir[to], ![to] = 0]
      PROVE  ProjectsInv'
  <2>. HIDE DEF from, to
  <2>1. /\ dir' \in [Name -> Nat] /\ dir'[from] = dir[to] /\ dir'[to] = 0 /\ from # to
        /\ \A n \in Name \ {from, to} : dir'[n] = dir[n]
    BY <1>0, <1>3 DEF ProjectsInv, Numbered
  <2>2. Numbered'
    BY <1>0, <1>1, <2>1 DEF ProjectsInv, Numbered
  <2>3. Commands'
    BY <1>1 DEF ProjectsInv, Commands, Writes
  <2>4. ASSUME ~shared, NEW q \in Op, q # o, Writes(q)
        PROVE  op[q].from \notin {from, to} /\ op[q].to \notin {from, to}
    BY <1>0, <2>4 DEF ProjectsInv, Apart, Writes, from, to
  <2>5. Apart'
    BY <1>0, <1>1, <2>1, <2>4 DEF ProjectsInv, Commands, Apart, Writes
  <2>6. ASSUME ~shared, NEW q \in Op, NEW k \in Name
        PROVE  MovedTo(q, k) <=> MovedTo(q, k)' \/ (q = o /\ k = to)
    BY <1>0, <1>1 DEF MovedTo, to
  <2>7. ASSUME ~shared, NEW q \in Op, NEW k \in Name, MovedTo(q, k)'
        PROVE  k \notin {from, to} /\ op'[q].from = op[q].from /\ q # o
    BY <1>1, <2>4, <2>7 DEF MovedTo, ProjectsInv, Commands, Writes
  <2>8. ASSUME ~shared, NEW n \in Name, NEW m \in Name, registered[n] # 0,
               dir'[m] = registered[n]
        PROVE  \/ m = n /\ \A q \in Op : ~MovedTo(q, m)'
               \/ \E q \in Op : MovedTo(q, m)' /\ op'[q].from = n
    <3>1. CASE m = from
      <4>1. MovedTo(o, to)
        BY <1>0 DEF MovedTo, to
      <4>2. \E q \in Op : MovedTo(q, to) /\ op[q].from = n
        BY <1>0, <2>1, <2>8, <3>1, <4>1 DEF ProjectsInv, Follows
      <4>3. n = from
        BY <1>0, <2>6, <2>7, <2>8, <4>2 DEF from
      <4>. QED
        BY <1>0, <2>7, <2>8, <3>1, <4>3
    <3>2. CASE m \notin {from, to}
      BY <1>0, <2>1, <2>6, <2>7, <2>8, <3>2 DEF ProjectsInv, Follows
    <3>. QED
      BY <2>1, <2>8, <3>1, <3>2
  <2>9. Follows'
    BY <1>0, <2>8 DEF Follows
  <2>. QED
    BY <2>2, <2>3, <2>5, <2>9 DEF ProjectsInv
<1>. QED
  BY <1>2, <1>3 DEF P!Undo, P!PutBack

\* A first configuration is written where there is none by now.
LEMMA FirstConfig == ASSUME ProjectsInv, NEW o \in Op, P!WritesFirst(o) PROVE ProjectsInv'
<1>. DEFINE n == op[o].from
<1>0. /\ op[o].at = "setup" /\ ~op[o].moved /\ n \in Name /\ P!Ends(o)
      /\ UNCHANGED <<registered, adds, shared>>
  BY DEF P!WritesFirst, ProjectsInv, Commands, Writes
<1>1. CASE dir' = dir
  BY <1>0, <1>1, CommandEnds
<1>2. ASSUME dir[n] = 0, dir' = [dir EXCEPT ![n] = op[o].of] PROVE ProjectsInv'
  <2>1. /\ op' \in [Op -> OpRec] /\ \A q \in Op \ {o} : op'[q] = op[q]
        /\ op'[o].at = "idle" /\ op'[o].moved = FALSE /\ op'[o].of = 0
    BY <1>0, OpsTyped DEF P!Ends, ProjectsInv, Numbered
  <2>. HIDE DEF n
  <2>2. op[o].of \in Nat /\ op[o].of <= adds
    BY DEF ProjectsInv, Numbered, OpRec
  <2>3. /\ dir' \in [Name -> Nat] /\ dir'[n] = op[o].of
        /\ \A m \in Name \ {n} : dir'[m] = dir[m]
    BY <1>0, <1>2, <2>2 DEF ProjectsInv, Numbered
  <2>4. Numbered'
    BY <1>0, <2>1, <2>2, <2>3 DEF ProjectsInv, Numbered
  <2>5. Commands'
    BY <2>1 DEF ProjectsInv, Commands, Writes
  <2>6. ASSUME ~shared, NEW q \in Op, q # o, Writes(q)
        PROVE  op[q].from # n /\ op[q].to # n
    BY <1>0, <2>6 DEF ProjectsInv, Apart, Writes, n
  <2>7. Apart'
    BY <1>0, <2>1, <2>3, <2>6 DEF ProjectsInv, Commands, Apart, Writes
  <2>8. ASSUME ~shared, NEW q \in Op, NEW k \in Name
        PROVE  /\ MovedTo(q, k)' <=> MovedTo(q, k)
               /\ MovedTo(q, k) => k # n /\ op'[q].from = op[q].from
    BY <1>0, <2>1, <2>6, <2>8 DEF MovedTo, ProjectsInv, Commands, Writes
  <2>9. ASSUME ~shared, NEW k \in Name, registered[k] = op[o].of
        PROVE  k = n
    BY <1>0, <2>9 DEF ProjectsInv, Apart, n
  <2>10. Follows'
    BY <1>0, <2>3, <2>8, <2>9 DEF ProjectsInv, Follows
  <2>. QED
    BY <2>4, <2>5, <2>7, <2>10 DEF ProjectsInv
<1>. QED
  BY <1>1, <1>2 DEF P!WritesFirst, P!Written

\* A daemon that dies in a rename is noted; any other command leaves nothing to do.
LEMMA ProjectsCrash == ASSUME ProjectsInv, P!Crash PROVE ProjectsInv'
<1>1. P!Idle.at = "idle" /\ P!Idle.moved = FALSE /\ P!Idle.of = 0 /\ P!Idle \in OpRec
  BY DEF P!Idle, OpRec, Names
<1>2. \A o \in Op : op'[o] = P!Idle
  BY DEF P!Crash
<1>3. UNCHANGED <<registered, dir, adds>> /\ shared' \in BOOLEAN
  BY DEF P!Crash, ProjectsInv, Numbered
<1>4. ~shared' => ~shared /\ \A o \in Op : ~op[o].moved
  BY DEF P!Crash
<1>5. op' \in [Op -> OpRec]
  BY <1>1 DEF P!Crash
<1>6. Numbered'
  BY <1>1, <1>2, <1>3, <1>5 DEF ProjectsInv, Numbered
<1>7. Commands' /\ Apart'
  BY <1>1, <1>2 DEF Commands, Apart, Writes
<1>8. Follows'
  BY <1>1, <1>2, <1>3, <1>4 DEF ProjectsInv, Follows, MovedTo
<1>. QED
  BY <1>6, <1>7, <1>8 DEF ProjectsInv

\* A step, or none, keeps the invariant.
LEMMA ProjectsStay == ASSUME ProjectsInv, [P!Next]_(P!vars) PROVE ProjectsInv'
<1>1. CASE UNCHANGED P!vars
  BY <1>1 DEF ProjectsInv, Numbered, Commands, Apart, Follows, Writes, MovedTo, P!vars
<1>2. ASSUME NEW o \in Op, P!ShowReads(o) PROVE ProjectsInv'
  <2>1. ~op[o].moved
    BY <1>2 DEF P!ShowReads, ProjectsInv, Commands
  <2>. QED
    BY <1>2, <2>1, CommandEnds DEF P!ShowReads
<1>. QED
  BY <1>1, <1>2, CommandBegins, RowsChange, DirMoves, RowMoves, DirReturns, FirstConfig,
     ProjectsCrash DEF P!Next

\* With no command under way a Project's configuration is under its name.
LEMMA FollowsTheName == ASSUME ProjectsInv PROVE P!ConfigFollowsTheName
<1>1. P!Idle.moved = FALSE
  BY DEF P!Idle
<1>. QED
  BY <1>1 DEF ProjectsInv, Follows, MovedTo, P!ConfigFollowsTheName

\* No rename, undo or setup writes over a configuration.
LEMMA NothingIsOverwritten ==
  ASSUME ProjectsInv, P!Next
  PROVE  \A n \in Name : dir[n] # 0 => \E m \in Name : dir'[m] = dir[n]
<1>. SUFFICES ASSUME NEW n \in Name, dir[n] # 0 PROVE \E m \in Name : dir'[m] = dir[n]
  OBVIOUS
<1>1. CASE dir' = dir
  BY <1>1
<1>2. ASSUME NEW o \in Op, P!MovesDir(o) PROVE \E m \in Name : dir'[m] = dir[n]
  <2>1. op[o].from \in Name /\ op[o].to \in Name
    BY <1>2 DEF P!MovesDir, ProjectsInv, Commands, Writes
  <2>2. CASE dir[op[o].from] # 0 /\ dir[op[o].to] = 0
             /\ dir' = [dir EXCEPT ![op[o].from] = 0, ![op[o].to] = dir[op[o].from]]
    BY <2>1, <2>2 DEF ProjectsInv, Numbered
  <2>. QED
    BY <1>1, <1>2, <2>2 DEF P!MovesDir
<1>3. ASSUME NEW o \in Op, P!Undo(o) PROVE \E m \in Name : dir'[m] = dir[n]
  <2>1. op[o].from \in Name /\ op[o].to \in Name
    BY <1>3 DEF P!Undo, ProjectsInv, Commands, Writes
  <2>2. CASE dir[op[o].to] # 0 /\ dir[op[o].from] = 0
             /\ dir' = [dir EXCEPT ![op[o].from] = dir[op[o].to], ![op[o].to] = 0]
    BY <2>1, <2>2 DEF ProjectsInv, Numbered
  <2>. QED
    BY <1>1, <1>3, <2>2 DEF P!Undo, P!PutBack
<1>4. ASSUME NEW o \in Op, P!WritesFirst(o) PROVE \E m \in Name : dir'[m] = dir[n]
  <2>1. op[o].from \in Name
    BY <1>4 DEF P!WritesFirst, ProjectsInv, Commands, Writes
  <2>2. CASE dir[op[o].from] = 0 /\ dir' = [dir EXCEPT ![op[o].from] = op[o].of]
    BY <2>1, <2>2 DEF ProjectsInv, Numbered
  <2>. QED
    BY <1>1, <1>4, <2>2 DEF P!WritesFirst, P!Written
<1>5. ASSUME NEW k \in Name, P!Add(k) \/ P!Remove(k) PROVE dir' = dir
  BY <1>5 DEF P!Add, P!Remove
<1>6. ASSUME NEW o \in Op, NEW k \in Name, NEW m \in Name,
             P!SetupBegins(o, k) \/ P!ShowBegins(o, k) \/ P!RenameBegins(o, k, m)
      PROVE  dir' = dir
  BY <1>6 DEF P!SetupBegins, P!ShowBegins, P!RenameBegins
<1>7. ASSUME NEW o \in Op, P!RenamesRow(o) \/ P!ShowReads(o) PROVE dir' = dir
  BY <1>7 DEF P!RenamesRow, P!ShowReads
<1>8. CASE P!Crash
  BY <1>1, <1>8 DEF P!Crash
<1>. QED
  BY <1>1, <1>2, <1>3, <1>4, <1>5, <1>6, <1>7, <1>8 DEF P!Next

-----------------------------------------------------------------------------
(* Secrets.  Until an error has told of a half that is left, or two calls     *)
(* that change a name overlap as they are not made to, the row and the secret *)
(* of a name differ only while one call is known to be at them.               *)

Phases == {"add", "remove", "start", "set", "half", "undo", "delete", "forget", "secret",
           "record", "row", "putback"}
CallRec == [at : Phases, kind : Kind, op : {"add", "remove", "start"}, id : Nat \ {0},
            had : Nat, rotating : BOOLEAN]

Changing(u, k) == call[u] # Idle /\ call[u].kind = k /\ call[u].op \in {"add", "remove"}
In(u, k, phases) == call[u] # Idle /\ call[u].kind = k /\ call[u].at \in phases

\* The types, and which calls have which phases.
CallsTyped ==
  /\ row \in [Kind -> Nat] /\ secret \in [Kind -> Nat] /\ told \in [Kind -> Nat]
  /\ excused \in [Kind -> BOOLEAN] /\ calls \in Nat /\ keychain \in BOOLEAN /\ unsaid \in BOOLEAN
  /\ call \in [Caller -> {Idle} \cup CallRec]
  /\ \A u \in Caller : call[u] # Idle =>
       \/ call[u].op = "add" /\ call[u].kind = "account" /\ call[u].at \in {"add", "set", "half", "undo"}
       \/ call[u].op = "add" /\ call[u].kind = "provider"
          /\ call[u].at \in {"add", "set", "half", "row", "putback"}
       \/ call[u].op = "remove" /\ call[u].kind = "account"
          /\ call[u].at \in {"remove", "delete", "forget", "secret"}
       \/ call[u].op = "remove" /\ call[u].kind = "provider" /\ call[u].at \in {"remove", "secret"}
       \/ call[u].op = "start" /\ call[u].kind = "account" /\ call[u].at \in {"start", "record"}
  /\ \A u \in Caller : In(u, "provider", {"half"}) => keychain

\* Nothing is promised of a name that is excused; what is not has one call changing it,
\* or some that add the same Account.
Promised ==
  \A k \in Kind :
    /\ excused[k] => told[k] = Nothing
    /\ ~excused[k] => \A u, v \in Caller : Changing(u, k) /\ Changing(v, k) /\ u # v =>
         k = "account" /\ call[u].op = "add" /\ call[v].op = "add"

\* The Account's row is claimed before its secret is set, and goes before it.
AccountHolds ==
  ~excused["account"] =>
    /\ \A u \in Caller : In(u, "account", {"set", "half", "undo"}) =>
         row["account"] = call[u].id /\ secret["account"] = Nothing /\ told["account"] = Nothing
    /\ \A u, v \in Caller :
         In(u, "account", {"set", "half", "undo"}) /\ In(v, "account", {"set", "half", "undo"}) => u = v
    /\ \A u \in Caller : In(u, "account", {"forget", "secret"}) =>
         row["account"] = Nothing /\ told["account"] = Nothing
    /\ (\A u \in Caller : ~In(u, "account", {"set", "half", "undo", "forget", "secret"})) =>
         (row["account"] = Nothing <=> secret["account"] = Nothing)
    /\ told["account"] # Nothing => row["account"] # Nothing /\ secret["account"] = told["account"]

\* A provider's key is written before its row, and what it replaced is in the call;
\* a half that is left is of a call under way, or told of, or nobody was told of it.
ProviderHolds ==
  ~excused["provider"] =>
    /\ \A u \in Caller : In(u, "provider", {"set", "half", "row", "putback"}) =>
         /\ call[u].rotating <=> row["provider"] # Nothing
         /\ call[u].had # Nothing => row["provider"] # Nothing
    /\ \A u \in Caller : In(u, "provider", {"half"}) => secret["provider"] = Nothing
    /\ \A u \in Caller : In(u, "provider", {"row"}) => secret["provider"] = call[u].id
    /\ \A u \in Caller : In(u, "provider", {"secret"}) =>
         row["provider"] = Nothing /\ told["provider"] = Nothing
    /\ told["provider"] # Nothing => row["provider"] # Nothing
    /\ ~unsaid =>
         /\ \A u \in Caller : In(u, "provider", {"set", "half", "row", "putback"}) =>
              (call[u].had # Nothing /\ told["provider"] # Nothing => call[u].had = told["provider"])
         /\ (\A u \in Caller : ~In(u, "provider", {"half", "row", "putback", "secret"})) =>
              /\ row["provider"] = Nothing <=> secret["provider"] = Nothing
              /\ told["provider"] # Nothing => secret["provider"] = told["provider"]

SecretsInv == CallsTyped /\ Promised /\ AccountHolds /\ ProviderHolds

\* Nothing is kept to begin with.
LEMMA SecretsBegin == ASSUME Init PROVE SecretsInv
<1>1. \A u \in Caller : call[u] = Idle
  BY DEF Init
<1>2. CallsTyped
  BY <1>1 DEF Init, CallsTyped, Null, Nothing, In
<1>3. unsaid = FALSE /\ \A k \in Kind : told[k] = 0 /\ row[k] = 0 /\ secret[k] = 0 /\ excused[k] = FALSE
  BY DEF Init, Null, Nothing
<1>4. Promised
  BY <1>1, <1>3 DEF Promised, Changing, Nothing
<1>5. AccountHolds /\ ProviderHolds
  BY <1>1, <1>3 DEF AccountHolds, ProviderHolds, In, Kind, Nothing
<1>. QED
  BY <1>2, <1>4, <1>5 DEF SecretsInv

\* Idle is no call's record.
LEMMA IdleIsNone == Idle \notin CallRec
  BY DEF Idle, CallRec, Phases

\* What a call becomes that ends or goes on.
LEMMA CallMoves ==
  ASSUME CallsTyped, NEW u \in Caller, call[u] # Idle
  PROVE  /\ Done(u) => /\ call' \in [Caller -> {Idle} \cup CallRec]
                       /\ \A v \in Caller \ {u} : call'[v] = call[v]
                       /\ call'[u] = Idle
         /\ \A ph \in Phases : To(u, ph) =>
              /\ call' \in [Caller -> {Idle} \cup CallRec]
              /\ \A v \in Caller \ {u} : call'[v] = call[v]
              /\ call'[u] # Idle /\ call'[u].at = ph
              /\ call'[u].kind = call[u].kind /\ call'[u].op = call[u].op
              /\ call'[u].id = call[u].id /\ call'[u].had = call[u].had
              /\ call'[u].rotating = call[u].rotating
<1>1. call[u] \in CallRec
  BY DEF CallsTyped
<1>2. ASSUME Done(u)
      PROVE  /\ call' \in [Caller -> {Idle} \cup CallRec]
             /\ \A v \in Caller \ {u} : call'[v] = call[v]
             /\ call'[u] = Idle
  BY <1>2 DEF Done, CallsTyped
<1>3. ASSUME NEW ph \in Phases, To(u, ph)
      PROVE  /\ call' \in [Caller -> {Idle} \cup CallRec]
             /\ \A v \in Caller \ {u} : call'[v] = call[v]
             /\ call'[u] # Idle /\ call'[u].at = ph
             /\ call'[u].kind = call[u].kind /\ call'[u].op = call[u].op
             /\ call'[u].id = call[u].id /\ call'[u].had = call[u].had
             /\ call'[u].rotating = call[u].rotating
  <2>. DEFINE c == [call[u] EXCEPT !.at = ph]
  <2>1. c \in CallRec
    BY <1>1 DEF CallRec
  <2>2. /\ c.at = ph /\ c.kind = call[u].kind /\ c.op = call[u].op /\ c.id = call[u].id
        /\ c.had = call[u].had /\ c.rotating = call[u].rotating
    BY <1>1 DEF CallRec
  <2>3. call' = [call EXCEPT ![u] = c]
    BY <1>3 DEF To
  <2>. HIDE DEF c
  <2>4. call' \in [Caller -> {Idle} \cup CallRec] /\ call'[u] = c
        /\ \A v \in Caller \ {u} : call'[v] = call[v]
    BY <2>1, <2>3 DEF CallsTyped
  <2>. QED
    BY <2>1, <2>2, <2>4, IdleIsNone
<1>. QED
  BY <1>2, <1>3

\* A step of one call that ends or goes on, and excuses no name it leaves a promise of.
LEMMA PromiseStays ==
  ASSUME SecretsInv, NEW u \in Caller, call[u] # Idle,
         \A v \in Caller \ {u} : call'[v] = call[v],
         \/ call'[u] = Idle
         \/ call'[u].kind = call[u].kind /\ call'[u].op = call[u].op,
         \A k \in Kind : /\ excused[k] => excused'[k]
                         /\ excused'[k] => told'[k] = Nothing
  PROVE  Promised'
<1>1. \A v \in Caller, k \in Kind :
        Changing(v, k)' => Changing(v, k) /\ call'[v].op = call[v].op
  BY DEF Changing
<1>. QED
  BY <1>1 DEF SecretsInv, Promised

\* A step that is about the other kind of name.
LEMMA OtherRests ==
  ASSUME SecretsInv, NEW u \in Caller, call[u] # Idle, NEW k \in Kind, call[u].kind # k,
         \A v \in Caller \ {u} : call'[v] = call[v],
         call'[u] = Idle \/ call'[u].kind = call[u].kind,
         row'[k] = row[k], secret'[k] = secret[k], told'[k] = told[k],
         excused'[k] = excused[k], keychain' = keychain, k = "provider" => unsaid' = unsaid
  PROVE  /\ k = "account" => AccountHolds'
         /\ k = "provider" => ProviderHolds'
<1>2. ASSUME NEW v \in Caller, call[v] # call'[v] PROVE v = u
  BY <1>2
<1>3. CASE k = "account"
  <2>1. \A v \in Caller, ph \in SUBSET Phases : In(v, "account", ph)' <=> In(v, "account", ph)
    BY <1>2, <1>3 DEF In
  <2>2. \A v \in Caller : In(v, "account", {"set", "half", "undo"}) => call'[v] = call[v]
    BY <1>2, <1>3 DEF In
  <2>. QED
    BY <1>3, <2>1, <2>2 DEF SecretsInv, AccountHolds, Phases
<1>4. CASE k = "provider"
  <2>1. \A v \in Caller, ph \in SUBSET Phases : In(v, "provider", ph)' <=> In(v, "provider", ph)
    BY <1>2, <1>4 DEF In
  <2>2. \A v \in Caller : In(v, "provider", Phases) => call'[v] = call[v]
    BY <1>2, <1>4 DEF In
  <2>3. \A v \in Caller, ph \in SUBSET Phases : In(v, "provider", ph) => In(v, "provider", Phases)
    BY DEF In
  <2>. QED
    BY <1>4, <2>1, <2>2, <2>3 DEF SecretsInv, ProviderHolds, Phases
<1>. QED
  BY <1>3, <1>4 DEF Kind

\* A call about an Account that moves, and keeps what is held of Accounts.
LEMMA AccountMoves ==
  ASSUME SecretsInv, NEW u \in Caller, In(u, "account", Phases),
         call' \in [Caller -> {Idle} \cup CallRec], \A v \in Caller \ {u} : call'[v] = call[v],
         \/ call'[u] = Idle
         \/ /\ call'[u].kind = call[u].kind /\ call'[u].op = call[u].op
            /\ \/ call[u].op = "add" /\ call'[u].at \in {"set", "half", "undo"}
               \/ call[u].op = "remove" /\ call'[u].at \in {"delete", "forget", "secret"}
               \/ call[u].op = "start" /\ call'[u].at = "record",
         row' \in [Kind -> Nat], secret' \in [Kind -> Nat], told' \in [Kind -> Nat],
         excused' \in [Kind -> BOOLEAN], UNCHANGED <<keychain, calls, unsaid>>,
         row'["provider"] = row["provider"], secret'["provider"] = secret["provider"],
         told'["provider"] = told["provider"], excused'["provider"] = excused["provider"],
         excused["account"] => excused'["account"],
         excused'["account"] => told'["account"] = Nothing,
         AccountHolds'
  PROVE  SecretsInv'
<1>. USE DEF SecretsInv
<1>1. call[u] # Idle /\ call[u].kind = "account"
  BY DEF In
<1>2. CallsTyped'
  <2>1. \A v \in Caller : In(v, "provider", {"half"})' => In(v, "provider", {"half"})
    BY <1>1 DEF In
  <2>. QED
    BY <1>1, <2>1 DEF CallsTyped
<1>3. \A k \in Kind : (excused[k] => excused'[k]) /\ (excused'[k] => told'[k] = Nothing)
  BY DEF Kind, Promised
<1>4. Promised'
  BY <1>1, <1>3, PromiseStays
<1>5. ProviderHolds'
  BY <1>1, OtherRests DEF Kind
<1>. QED
  BY <1>2, <1>4, <1>5

\* The same of a call about a provider.
LEMMA ProviderMoves ==
  ASSUME SecretsInv, NEW u \in Caller, In(u, "provider", Phases),
         call' \in [Caller -> {Idle} \cup CallRec], \A v \in Caller \ {u} : call'[v] = call[v],
         \/ call'[u] = Idle
         \/ /\ call'[u].kind = call[u].kind /\ call'[u].op = call[u].op
            /\ \/ call[u].op = "add" /\ call'[u].at \in {"set", "row", "putback"}
               \/ call[u].op = "add" /\ call'[u].at = "half" /\ keychain
               \/ call[u].op = "remove" /\ call'[u].at = "secret",
         row' \in [Kind -> Nat], secret' \in [Kind -> Nat], told' \in [Kind -> Nat],
         excused' \in [Kind -> BOOLEAN], UNCHANGED <<keychain, calls>>, unsaid' \in BOOLEAN,
         row'["account"] = row["account"], secret'["account"] = secret["account"],
         told'["account"] = told["account"], excused'["account"] = excused["account"],
         excused["provider"] => excused'["provider"],
         excused'["provider"] => told'["provider"] = Nothing,
         ProviderHolds'
  PROVE  SecretsInv'
<1>. USE DEF SecretsInv
<1>1. call[u] # Idle /\ call[u].kind = "provider"
  BY DEF In
<1>2. CallsTyped'
  <2>1. \A v \in Caller : In(v, "provider", {"half"})' => In(v, "provider", {"half"}) \/ keychain
    BY <1>1 DEF In, CallsTyped
  <2>. QED
    BY <1>1, <2>1 DEF CallsTyped
<1>3. \A k \in Kind : (excused[k] => excused'[k]) /\ (excused'[k] => told'[k] = Nothing)
  BY DEF Kind, Promised
<1>4. Promised'
  BY <1>1, <1>3, PromiseStays
<1>5. AccountHolds'
  BY <1>1, OtherRests DEF Kind
<1>. QED
  BY <1>2, <1>4, <1>5

\* A call about an Account that ends or goes on with nothing held yet, and nothing
\* changed, leaves what is held.
LEMMA AccountLeaves ==
  ASSUME SecretsInv, NEW u \in Caller,
         In(u, "account", {"add", "remove", "delete", "start", "record"}),
         \/ Done(u)
         \/ call[u].op = "remove" /\ To(u, "delete")
         \/ call[u].op = "start" /\ To(u, "record"),
         UNCHANGED <<row, secret, told, excused, keychain, calls, unsaid>>
  PROVE  SecretsInv'
<1>0. call[u] # Idle /\ CallsTyped /\ In(u, "account", Phases)
  BY DEF In, SecretsInv, Phases
<1>1. /\ call' \in [Caller -> {Idle} \cup CallRec] /\ \A v \in Caller \ {u} : call'[v] = call[v]
      /\ \/ call'[u] = Idle
         \/ /\ call'[u].kind = call[u].kind /\ call'[u].op = call[u].op
            /\ \/ call[u].op = "remove" /\ call'[u].at = "delete"
               \/ call[u].op = "start" /\ call'[u].at = "record"
  BY <1>0, CallMoves DEF Phases
<1>2. \A v \in Caller, ph \in SUBSET {"set", "half", "undo", "forget", "secret"} :
        /\ In(v, "account", ph)' <=> In(v, "account", ph)
        /\ In(v, "account", ph) => call'[v] = call[v]
  BY <1>0, <1>1 DEF In
<1>3. AccountHolds'
  BY <1>2 DEF SecretsInv, AccountHolds
<1>4. CallsTyped /\ Promised
  BY DEF SecretsInv
<1>. QED
  BY <1>0, <1>1, <1>3, <1>4, AccountMoves DEF CallsTyped, Promised, Kind

\* A call that tells its user that a half is left takes its promise back.
LEMMA AccountExcuses ==
  ASSUME SecretsInv, NEW u \in Caller, In(u, "account", Phases), Excuses(u, "account"),
         UNCHANGED <<row, secret, keychain, calls, unsaid>>
  PROVE  SecretsInv'
<1>0. call[u] # Idle /\ CallsTyped
  BY DEF In, SecretsInv
<1>1. /\ call' \in [Caller -> {Idle} \cup CallRec] /\ \A v \in Caller \ {u} : call'[v] = call[v]
      /\ call'[u] = Idle
  BY <1>0, CallMoves DEF Excuses
<1>2. /\ told' \in [Kind -> Nat] /\ told'["account"] = Nothing /\ told'["provider"] = told["provider"]
      /\ excused' \in [Kind -> BOOLEAN] /\ excused'["account"] = TRUE
      /\ excused'["provider"] = excused["provider"]
  BY <1>0 DEF Excuses, CallsTyped, Kind, Nothing
<1>3. AccountHolds'
  BY <1>2 DEF AccountHolds
<1>. QED
  BY <1>0, <1>1, <1>2, <1>3, AccountMoves DEF CallsTyped

\* What a step of a call about an Account may do to what is held of it.
LEMMA AccountActs ==
  ASSUME SecretsInv, NEW u \in Caller, OnAccount(u)
  PROVE  SecretsInv'
<1>. USE DEF At
<1>0. CallsTyped /\ Promised /\ AccountHolds /\ In(u, "account", Phases) /\ call[u] # Idle
  BY DEF OnAccount, AddAccount, SetToken, SetTokenFails, Undo, RemoveLooks, DeleteAccount,
         ForgetUsage, DeleteToken, Credential, SetJobAccount, In, Phases, SecretsInv
<1>1. /\ call[u].at \in {"add", "set", "half", "undo"} => call[u].op = "add"
      /\ call[u].at \in {"remove", "delete", "forget", "secret"} => call[u].op = "remove"
      /\ call[u].at \in {"start", "record"} => call[u].op = "start"
  BY <1>0 DEF CallsTyped, In
<1>2. \A ph \in Phases : To(u, ph) =>
        /\ call' \in [Caller -> {Idle} \cup CallRec] /\ \A v \in Caller \ {u} : call'[v] = call[v]
        /\ call'[u] # Idle /\ call'[u].at = ph /\ call'[u].kind = "account"
        /\ call'[u].op = call[u].op /\ call'[u].id = call[u].id
  BY <1>0, CallMoves DEF In
<1>3. Done(u) =>
        /\ call' \in [Caller -> {Idle} \cup CallRec] /\ \A v \in Caller \ {u} : call'[v] = call[v]
        /\ call'[u] = Idle
  BY <1>0, CallMoves
<1>4. call[u].id \in Nat \ {0} /\ Nothing = 0
  BY <1>0 DEF CallsTyped, CallRec, Nothing
<1>5. ASSUME ~excused["account"], call[u].op = "remove", NEW v \in Caller,
             In(v, "account", {"add", "set", "half", "undo", "remove", "delete", "forget", "secret"})
      PROVE  v = u
  BY <1>0, <1>5 DEF Promised, Changing, In, CallsTyped, Kind
<1>6. ASSUME ~excused["account"], call[u].op = "add", NEW v \in Caller,
             In(v, "account", {"remove", "delete", "forget", "secret"})
      PROVE  FALSE
  BY <1>0, <1>6 DEF Promised, Changing, In, CallsTyped, Kind
<1>7. ASSUME AddAccount(u), row["account"] = Nothing, To(u, "set"),
             row' = [row EXCEPT !["account"] = call[u].id], UNCHANGED <<secret, told, excused>>
      PROVE  SecretsInv'
  <2>1. call[u].op = "add" /\ call[u].at = "add" /\ UNCHANGED <<keychain, calls, unsaid>>
    BY <1>1, <1>7 DEF AddAccount, Env, Kept
  <2>2. /\ row' \in [Kind -> Nat] /\ row'["account"] = call[u].id
        /\ row'["provider"] = row["provider"]
    BY <1>0, <1>4, <1>7 DEF CallsTyped, Kind
  <2>3. /\ call' \in [Caller -> {Idle} \cup CallRec] /\ \A v \in Caller \ {u} : call'[v] = call[v]
        /\ call'[u] # Idle /\ call'[u].at = "set" /\ call'[u].kind = "account"
        /\ call'[u].op = "add" /\ call'[u].id = call[u].id
    BY <1>2, <1>7, <2>1 DEF Phases
  <2>4. AccountHolds'
    <3>. SUFFICES ASSUME ~excused["account"] PROVE AccountHolds'
      BY <1>7 DEF AccountHolds
    <3>1. \A v \in Caller : ~In(v, "account", {"set", "half", "undo", "forget", "secret"})
      BY <1>0, <1>4, <1>6, <1>7, <2>1 DEF AccountHolds, In, CallsTyped, CallRec
    <3>2. secret["account"] = Nothing /\ told["account"] = Nothing
      BY <1>0, <1>7, <3>1 DEF AccountHolds
    <3>3. \A v \in Caller : In(v, "account", {"set", "half", "undo", "forget", "secret"})' => v = u
      BY <2>3, <3>1 DEF In
    <3>. QED
      BY <1>4, <1>7, <2>2, <2>3, <3>2, <3>3 DEF AccountHolds, In
  <2>. QED
    BY <1>0, <1>7, <2>1, <2>2, <2>3, <2>4, AccountMoves DEF CallsTyped, Promised, Kind, In
<1>8. ASSUME AddAccount(u) PROVE SecretsInv'
  <2>1. CASE Done(u) /\ UNCHANGED row
    <3>1. In(u, "account", {"add", "remove", "delete", "start", "record"})
      BY <1>0, <1>8 DEF AddAccount, In
    <3>2. UNCHANGED <<row, secret, told, excused, keychain, calls, unsaid>>
      BY <1>8, <2>1 DEF AddAccount, Env, Kept
    <3>. QED
      BY <2>1, <3>1, <3>2, AccountLeaves
  <2>. QED
    BY <1>7, <1>8, <2>1 DEF AddAccount
<1>9. ASSUME SetToken(u) PROVE SecretsInv'
  <2>1. /\ call[u].op = "add" /\ call[u].at \in {"set", "half"}
        /\ UNCHANGED <<keychain, calls, unsaid, row>>
    BY <1>1, <1>9 DEF SetToken, Env, Kept
  <2>2. ASSUME secret' = [secret EXCEPT !["account"] = call[u].id], Answers(u, "account")
        PROVE  SecretsInv'
    <3>1. /\ secret' \in [Kind -> Nat] /\ secret'["account"] = call[u].id
          /\ secret'["provider"] = secret["provider"]
      BY <1>0, <1>4, <2>2 DEF CallsTyped, Kind
    <3>2. /\ told' \in [Kind -> Nat] /\ told'["provider"] = told["provider"] /\ excused' = excused
          /\ told'["account"] = IF excused["account"] THEN told["account"] ELSE call[u].id
      BY <1>0, <1>4, <2>2 DEF Answers, CallsTyped, Kind
    <3>3. /\ call' \in [Caller -> {Idle} \cup CallRec]
          /\ \A v \in Caller \ {u} : call'[v] = call[v]
      BY <1>3, <2>2 DEF Answers
    <3>8. call'[u] = Idle
      BY <1>3, <2>2 DEF Answers
    <3>4. AccountHolds'
      <4>. SUFFICES ASSUME ~excused["account"] PROVE AccountHolds'
        BY <3>2 DEF AccountHolds
      <4>1. row["account"] = call[u].id /\ In(u, "account", {"set", "half", "undo"})
        BY <1>0, <2>1 DEF AccountHolds, In
      <4>2. \A v \in Caller : ~In(v, "account", {"set", "half", "undo"})'
        BY <1>0, <3>3, <3>8, <4>1 DEF AccountHolds, In
      <4>3. \A v \in Caller : ~In(v, "account", {"forget", "secret"})'
        BY <1>6, <2>1, <3>3, <3>8 DEF In
      <4>. QED
        BY <1>4, <2>1, <3>1, <3>2, <4>1, <4>2, <4>3 DEF AccountHolds
    <3>. QED
      BY <1>0, <2>1, <3>1, <3>2, <3>3, <3>8, <3>4, AccountMoves DEF CallsTyped, Promised, Kind
  <2>3. ASSUME call[u].at = "set", secret' = [secret EXCEPT !["account"] = Nothing],
               To(u, "half"), UNCHANGED <<told, excused>>
        PROVE  SecretsInv'
    <3>1. /\ secret' \in [Kind -> Nat] /\ secret'["account"] = 0
          /\ secret'["provider"] = secret["provider"]
      BY <1>0, <1>4, <2>3 DEF CallsTyped, Kind
    <3>2. /\ call' \in [Caller -> {Idle} \cup CallRec] /\ \A v \in Caller \ {u} : call'[v] = call[v]
          /\ call'[u] # Idle /\ call'[u].at = "half" /\ call'[u].kind = "account"
          /\ call'[u].op = "add" /\ call'[u].id = call[u].id
      BY <1>2, <2>1, <2>3 DEF Phases
    <3>3. \A v \in Caller : /\ In(v, "account", {"set", "half", "undo"})'
                               => In(v, "account", {"set", "half", "undo"})
                            /\ In(v, "account", {"forget", "secret"})'
                               => In(v, "account", {"forget", "secret"})
                            /\ call'[v].id = call[v].id
      BY <1>0, <2>1, <3>2 DEF In
    <3>4. In(u, "account", {"set", "half", "undo"})'
      BY <3>2 DEF In
    <3>5. In(u, "account", {"set", "half", "undo"})
      BY <1>0, <2>1 DEF In
    <3>6. AccountHolds'
      BY <1>0, <1>4, <2>1, <2>3, <3>1, <3>3, <3>4, <3>5 DEF AccountHolds, In
    <3>. QED
      BY <1>0, <2>1, <2>3, <3>1, <3>2, <3>6, AccountMoves DEF CallsTyped, Promised, Kind, In
  <2>. QED
    BY <1>9, <2>2, <2>3 DEF SetToken, Set
<1>10. ASSUME SetTokenFails(u) PROVE SecretsInv'
  <2>1. /\ call[u].op = "add" /\ call[u].at \in {"set", "half"} /\ To(u, "undo")
        /\ UNCHANGED <<keychain, calls, unsaid, row, secret, told, excused>>
    BY <1>1, <1>10 DEF SetTokenFails, Env, Kept, Store
  <2>2. /\ call' \in [Caller -> {Idle} \cup CallRec] /\ \A v \in Caller \ {u} : call'[v] = call[v]
        /\ call'[u] # Idle /\ call'[u].at = "undo" /\ call'[u].kind = "account"
        /\ call'[u].op = "add" /\ call'[u].id = call[u].id
    BY <1>2, <2>1 DEF Phases
  <2>3. \A v \in Caller : /\ In(v, "account", {"set", "half", "undo"})'
                             => In(v, "account", {"set", "half", "undo"})
                          /\ In(v, "account", {"forget", "secret"})'
                             => In(v, "account", {"forget", "secret"})
                          /\ call'[v].id = call[v].id
    BY <1>0, <2>1, <2>2 DEF In
  <2>4. In(u, "account", {"set", "half", "undo"})' /\ In(u, "account", {"set", "half", "undo"})
    BY <1>0, <2>1, <2>2 DEF In
  <2>5. AccountHolds'
    BY <1>0, <2>1, <2>3, <2>4 DEF AccountHolds, In
  <2>. QED
    BY <1>0, <2>1, <2>2, <2>5, AccountMoves DEF CallsTyped, Promised, Kind, In
<1>11. ASSUME Undo(u) PROVE SecretsInv'
  <2>1. /\ call[u].op = "add" /\ call[u].at = "undo" /\ UNCHANGED <<keychain, calls, unsaid, secret>>
    BY <1>1, <1>11 DEF Undo, Env, Kept
  <2>2. ASSUME row' = [row EXCEPT !["account"] = Nothing], Done(u), UNCHANGED <<told, excused>>
        PROVE  SecretsInv'
    <3>1. /\ row' \in [Kind -> Nat] /\ row'["account"] = Nothing
          /\ row'["provider"] = row["provider"]
      BY <1>0, <1>4, <2>2 DEF CallsTyped, Kind
    <3>2. /\ call' \in [Caller -> {Idle} \cup CallRec] /\ \A v \in Caller \ {u} : call'[v] = call[v]
          /\ call'[u] = Idle
      BY <1>3, <2>2
    <3>3. AccountHolds'
      <4>. SUFFICES ASSUME ~excused["account"] PROVE AccountHolds'
        BY <2>2 DEF AccountHolds
      <4>1. /\ In(u, "account", {"set", "half", "undo"})
            /\ secret["account"] = Nothing /\ told["account"] = Nothing
        BY <1>0, <2>1 DEF AccountHolds, In
      <4>2. \A v \in Caller : ~In(v, "account", {"set", "half", "undo"})'
        BY <1>0, <3>2, <4>1 DEF AccountHolds, In
      <4>. QED
        BY <2>1, <2>2, <3>1, <4>1, <4>2 DEF AccountHolds
    <3>. QED
      BY <1>0, <2>1, <2>2, <3>1, <3>2, <3>3, AccountMoves DEF CallsTyped, Promised, Kind
  <2>3. CASE Excuses(u, "account") /\ UNCHANGED row
    BY <1>0, <2>1, <2>3, AccountExcuses
  <2>. QED
    BY <1>11, <2>2, <2>3 DEF Undo
<1>12. ASSUME RemoveLooks(u) PROVE SecretsInv'
  <2>1. In(u, "account", {"add", "remove", "delete", "start", "record"})
    BY <1>0, <1>12 DEF RemoveLooks, In
  <2>2. UNCHANGED <<row, secret, told, excused, keychain, calls, unsaid>>
    BY <1>12 DEF RemoveLooks, Env, Kept, Store
  <2>3. \/ Done(u)
        \/ call[u].op = "remove" /\ To(u, "delete")
        \/ call[u].op = "start" /\ To(u, "record")
    BY <1>1, <1>12 DEF RemoveLooks
  <2>. QED
    BY <2>1, <2>2, <2>3, AccountLeaves
<1>13. ASSUME DeleteAccount(u) PROVE SecretsInv'
  <2>1. /\ call[u].op = "remove" /\ call[u].at = "delete"
        /\ UNCHANGED <<keychain, calls, unsaid, secret, excused>>
    BY <1>1, <1>13 DEF DeleteAccount, Env, Kept
  <2>2. ASSUME row' = [row EXCEPT !["account"] = Nothing], To(u, "forget"),
               told' = [told EXCEPT !["account"] = Nothing]
        PROVE  SecretsInv'
    <3>1. /\ row' \in [Kind -> Nat] /\ row'["account"] = Nothing
          /\ row'["provider"] = row["provider"]
          /\ told' \in [Kind -> Nat] /\ told'["account"] = Nothing
          /\ told'["provider"] = told["provider"]
      BY <1>0, <1>4, <2>2 DEF CallsTyped, Kind
    <3>2. /\ call' \in [Caller -> {Idle} \cup CallRec] /\ \A v \in Caller \ {u} : call'[v] = call[v]
          /\ call'[u] # Idle /\ call'[u].at = "forget" /\ call'[u].kind = "account"
          /\ call'[u].op = "remove" /\ call'[u].id = call[u].id
      BY <1>2, <2>1, <2>2 DEF Phases
    <3>3. AccountHolds'
      <4>. SUFFICES ASSUME ~excused["account"] PROVE AccountHolds'
        BY <2>1 DEF AccountHolds
      <4>1. \A v \in Caller : ~In(v, "account", {"set", "half", "undo"})'
        BY <1>5, <2>1, <3>2 DEF In
      <4>2. In(u, "account", {"set", "half", "undo", "forget", "secret"})'
        BY <3>2 DEF In
      <4>. QED
        BY <3>1, <4>1, <4>2 DEF AccountHolds
    <3>. QED
      BY <1>0, <2>1, <3>1, <3>2, <3>3, AccountMoves DEF CallsTyped, Promised, Kind, In
  <2>3. CASE Done(u) /\ UNCHANGED <<row, told>>
    <3>1. In(u, "account", {"add", "remove", "delete", "start", "record"})
      BY <1>0, <2>1 DEF In
    <3>2. UNCHANGED <<row, secret, told, excused, keychain, calls, unsaid>>
      BY <2>1, <2>3
    <3>. QED
      BY <2>3, <3>1, <3>2, AccountLeaves
  <2>. QED
    BY <1>13, <2>2, <2>3 DEF DeleteAccount
<1>14. ASSUME ForgetUsage(u) PROVE SecretsInv'
  <2>1. /\ call[u].op = "remove" /\ call[u].at = "forget"
        /\ UNCHANGED <<keychain, calls, unsaid, row, secret>>
    BY <1>1, <1>14 DEF ForgetUsage, Env, Kept, Store
  <2>2. ASSUME To(u, "secret"), UNCHANGED <<told, excused>> PROVE SecretsInv'
    <3>1. /\ call' \in [Caller -> {Idle} \cup CallRec] /\ \A v \in Caller \ {u} : call'[v] = call[v]
          /\ call'[u] # Idle /\ call'[u].at = "secret" /\ call'[u].kind = "account"
          /\ call'[u].op = "remove" /\ call'[u].id = call[u].id
      BY <1>2, <2>1, <2>2 DEF Phases
    <3>2. \A v \in Caller : /\ In(v, "account", {"set", "half", "undo"})'
                               => In(v, "account", {"set", "half", "undo"})
                            /\ In(v, "account", {"forget", "secret"})'
                               => In(v, "account", {"forget", "secret"})
                            /\ call'[v].id = call[v].id
      BY <1>0, <2>1, <3>1 DEF In
    <3>3. In(u, "account", {"forget", "secret"})' /\ In(u, "account", {"set", "half", "undo", "forget", "secret"})'
      BY <3>1 DEF In
    <3>4. AccountHolds'
      BY <1>0, <2>1, <2>2, <3>2, <3>3 DEF AccountHolds
    <3>. QED
      BY <1>0, <2>1, <2>2, <3>1, <3>4, AccountMoves DEF CallsTyped, Promised, Kind, In
  <2>3. CASE Excuses(u, "account")
    BY <1>0, <2>1, <2>3, AccountExcuses
  <2>. QED
    BY <1>14, <2>2, <2>3 DEF ForgetUsage
<1>15. ASSUME DeleteToken(u) PROVE SecretsInv'
  <2>1. /\ call[u].op = "remove" /\ call[u].at = "secret" /\ UNCHANGED <<keychain, calls, unsaid, row>>
    BY <1>1, <1>15 DEF DeleteToken, Env, Kept
  <2>2. ASSUME secret' = [secret EXCEPT !["account"] = Nothing], Done(u), UNCHANGED <<told, excused>>
        PROVE  SecretsInv'
    <3>1. /\ secret' \in [Kind -> Nat] /\ secret'["account"] = Nothing
          /\ secret'["provider"] = secret["provider"]
      BY <1>0, <1>4, <2>2 DEF CallsTyped, Kind
    <3>2. /\ call' \in [Caller -> {Idle} \cup CallRec] /\ \A v \in Caller \ {u} : call'[v] = call[v]
          /\ call'[u] = Idle
      BY <1>3, <2>2
    <3>3. AccountHolds'
      <4>. SUFFICES ASSUME ~excused["account"] PROVE AccountHolds'
        BY <2>2 DEF AccountHolds
      <4>1. row["account"] = Nothing /\ told["account"] = Nothing
        BY <1>0, <2>1 DEF AccountHolds, In
      <4>2. \A v \in Caller : ~In(v, "account", {"set", "half", "undo", "forget", "secret"})'
        BY <1>5, <2>1, <3>2 DEF In
      <4>3. \A v \in Caller : ~In(v, "account", {"set", "half", "undo"})'
                              /\ ~In(v, "account", {"forget", "secret"})'
        BY <4>2 DEF In
      <4>. QED
        BY <2>1, <2>2, <3>1, <4>1, <4>3 DEF AccountHolds
    <3>. QED
      BY <1>0, <2>1, <2>2, <3>1, <3>2, <3>3, AccountMoves DEF CallsTyped, Promised, Kind
  <2>3. CASE Excuses(u, "account") /\ UNCHANGED secret
    BY <1>0, <2>1, <2>3, AccountExcuses
  <2>. QED
    BY <1>15, <2>2, <2>3 DEF DeleteToken
<1>16. ASSUME Credential(u) PROVE SecretsInv'
  <2>1. In(u, "account", {"add", "remove", "delete", "start", "record"})
    BY <1>0, <1>16 DEF Credential, In
  <2>2. UNCHANGED <<row, secret, told, excused, keychain, calls, unsaid>>
    BY <1>16 DEF Credential, Env, Kept, Store
  <2>3. \/ Done(u)
        \/ call[u].op = "remove" /\ To(u, "delete")
        \/ call[u].op = "start" /\ To(u, "record")
    BY <1>1, <1>16 DEF Credential
  <2>. QED
    BY <2>1, <2>2, <2>3, AccountLeaves
<1>17. ASSUME SetJobAccount(u) PROVE SecretsInv'
  <2>1. In(u, "account", {"add", "remove", "delete", "start", "record"})
    BY <1>0, <1>17 DEF SetJobAccount, In
  <2>2. UNCHANGED <<row, secret, told, excused, keychain, calls, unsaid>>
    BY <1>17 DEF SetJobAccount, Store
  <2>3. \/ Done(u)
        \/ call[u].op = "remove" /\ To(u, "delete")
        \/ call[u].op = "start" /\ To(u, "record")
    BY <1>1, <1>17 DEF SetJobAccount
  <2>. QED
    BY <2>1, <2>2, <2>3, AccountLeaves
<1>. QED
  BY <1>8, <1>9, <1>10, <1>11, <1>12, <1>13, <1>14, <1>15, <1>16, <1>17 DEF OnAccount

\* What is held of a provider whose only call is this one.
LEMMA SoleProvider ==
  ASSUME SecretsInv, NEW u \in Caller, In(u, "provider", Phases),
         \A v \in Caller \ {u} : call'[v] = call[v], keychain' = keychain,
         excused["provider"] => excused'["provider"],
         ~excused'["provider"] =>
           /\ In(u, "provider", {"set", "half", "row", "putback"})' =>
                /\ call'[u].rotating <=> row'["provider"] # Nothing
                /\ call'[u].had # Nothing => row'["provider"] # Nothing
           /\ In(u, "provider", {"half"})' => secret'["provider"] = Nothing
           /\ In(u, "provider", {"row"})' => secret'["provider"] = call'[u].id
           /\ In(u, "provider", {"secret"})' =>
                row'["provider"] = Nothing /\ told'["provider"] = Nothing
           /\ told'["provider"] # Nothing => row'["provider"] # Nothing,
         ~excused'["provider"] /\ ~unsaid' =>
           /\ In(u, "provider", {"set", "half", "row", "putback"})' =>
                (call'[u].had # Nothing /\ told'["provider"] # Nothing =>
                   call'[u].had = told'["provider"])
           /\ ~In(u, "provider", {"half", "row", "putback", "secret"})' =>
                /\ row'["provider"] = Nothing <=> secret'["provider"] = Nothing
                /\ told'["provider"] # Nothing => secret'["provider"] = told'["provider"]
  PROVE  ProviderHolds'
<1>. SUFFICES ASSUME ~excused'["provider"] PROVE ProviderHolds'
  BY DEF ProviderHolds
<1>1. Changing(u, "provider")
  BY DEF SecretsInv, CallsTyped, In, Changing
<1>2. \A v \in Caller : In(v, "provider", Phases) => Changing(v, "provider")
  BY DEF SecretsInv, CallsTyped, In, Changing
<1>3. \A v \in Caller : In(v, "provider", Phases) => v = u
  BY <1>1, <1>2 DEF SecretsInv, Promised, Kind
<1>4. \A v \in Caller, ph \in SUBSET Phases : In(v, "provider", ph)' => v = u
  BY <1>3 DEF In
<1>. QED
  BY <1>4 DEF ProviderHolds, Phases

\* A provider's user is told that a half is left, and its promise taken back.
LEMMA ProviderExcuses ==
  ASSUME SecretsInv, NEW u \in Caller, In(u, "provider", Phases), Excuses(u, "provider"),
         UNCHANGED <<row, keychain, calls, unsaid>>, secret' \in [Kind -> Nat],
         secret'["account"] = secret["account"]
  PROVE  SecretsInv'
<1>0. call[u] # Idle /\ CallsTyped
  BY DEF In, SecretsInv
<1>1. /\ call' \in [Caller -> {Idle} \cup CallRec] /\ \A v \in Caller \ {u} : call'[v] = call[v]
      /\ call'[u] = Idle
  BY <1>0, CallMoves DEF Excuses
<1>2. /\ told' \in [Kind -> Nat] /\ told'["provider"] = Nothing /\ told'["account"] = told["account"]
      /\ excused' \in [Kind -> BOOLEAN] /\ excused'["provider"] = TRUE
      /\ excused'["account"] = excused["account"]
  BY <1>0 DEF Excuses, CallsTyped, Kind, Nothing
<1>3. ProviderHolds'
  BY <1>2 DEF ProviderHolds
<1>. QED
  BY <1>0, <1>1, <1>2, <1>3, ProviderMoves DEF CallsTyped

\* Every step of a call about a provider keeps the invariant.
LEMMA ProviderActs ==
  ASSUME SecretsInv, NEW u \in Caller, OnProvider(u)
  PROVE  SecretsInv'
<1>. USE DEF At
<1>0. CallsTyped /\ Promised /\ ProviderHolds /\ In(u, "provider", Phases) /\ call[u] # Idle
  BY DEF OnProvider, ProviderLooks, SetKey, SetKeyFails, AddChatProvider, PutBack,
         RemoveChatProvider, DeleteKey, In, Phases, SecretsInv
<1>1. /\ call[u].kind = "provider"
      /\ call[u].at \in {"add", "set", "half", "row", "putback"} => call[u].op = "add"
      /\ call[u].at \in {"remove", "secret"} => call[u].op = "remove"
  BY <1>0 DEF CallsTyped, In
<1>2. \A ph \in Phases : To(u, ph) =>
        /\ call' \in [Caller -> {Idle} \cup CallRec] /\ \A v \in Caller \ {u} : call'[v] = call[v]
        /\ call'[u] # Idle /\ call'[u].at = ph /\ call'[u].kind = "provider"
        /\ call'[u].op = call[u].op /\ call'[u].id = call[u].id
        /\ call'[u].had = call[u].had /\ call'[u].rotating = call[u].rotating
  BY <1>0, CallMoves DEF In
<1>3. Done(u) =>
        /\ call' \in [Caller -> {Idle} \cup CallRec] /\ \A v \in Caller \ {u} : call'[v] = call[v]
        /\ call'[u] = Idle
  BY <1>0, CallMoves
<1>4. /\ call[u].id \in Nat \ {0} /\ call[u].had \in Nat /\ call[u].rotating \in BOOLEAN
      /\ Nothing = 0
  BY <1>0 DEF CallsTyped, CallRec, Nothing
<1>5. ASSUME ~excused["provider"], ~unsaid, call[u].at \in {"add", "set", "remove"}
      PROVE  /\ row["provider"] = Nothing <=> secret["provider"] = Nothing
             /\ told["provider"] # Nothing => secret["provider"] = told["provider"]
  <2>1. \A v \in Caller : In(v, "provider", Phases) => Changing(v, "provider")
    BY <1>0 DEF CallsTyped, In, Changing
  <2>2. \A v \in Caller : In(v, "provider", Phases) => v = u
    BY <1>0, <1>5, <2>1 DEF Promised, Kind
  <2>3. \A v \in Caller : ~In(v, "provider", {"half", "row", "putback", "secret"})
    BY <1>5, <2>2 DEF In, Phases
  <2>. QED
    BY <1>0, <1>5, <2>3 DEF ProviderHolds
<1>6. ASSUME ~excused["provider"]
      PROVE  told["provider"] # Nothing => row["provider"] # Nothing
  BY <1>0, <1>6 DEF ProviderHolds
<1>7. ASSUME ~excused["provider"], call[u].at \in {"set", "half", "row", "putback"}
      PROVE  /\ call[u].rotating <=> row["provider"] # Nothing
             /\ call[u].had # Nothing => row["provider"] # Nothing
             /\ call[u].at = "half" => secret["provider"] = Nothing
             /\ call[u].at = "row" => secret["provider"] = call[u].id
             /\ ~unsaid /\ call[u].had # Nothing /\ told["provider"] # Nothing =>
                  call[u].had = told["provider"]
  BY <1>0, <1>7 DEF ProviderHolds, In
<1>8. ASSUME call[u].at \in {"add", "set", "remove"}, Done(u),
             UNCHANGED <<row, secret, told, excused, keychain, calls, unsaid>>
      PROVE  SecretsInv'
  <2>2. ProviderHolds'
    BY <1>0, <1>3, <1>5, <1>6, <1>8, SoleProvider DEF In
  <2>. QED
    BY <1>0, <1>3, <1>8, <2>2, ProviderMoves DEF CallsTyped, Promised, Kind
<1>9. ASSUME ProviderLooks(u) PROVE SecretsInv'
  <2>1. PICK had \in {secret["provider"], Nothing} :
          call' = [call EXCEPT ![u].at = "set", ![u].rotating = row["provider"] # Nothing,
                     ![u].had = IF row["provider"] = Nothing THEN Nothing ELSE had]
    BY <1>9 DEF ProviderLooks
  <2>2. call[u].at = "add" /\ UNCHANGED <<row, secret, told, excused, keychain, calls, unsaid>>
    BY <1>9 DEF ProviderLooks, Env, Kept, Store
  <2>3. PICK b \in BOOLEAN : b = (row["provider"] # Nothing)
    OBVIOUS
  <2>. DEFINE h == IF row["provider"] = Nothing THEN Nothing ELSE had
              c1 == [call[u] EXCEPT !.at = "set"]
              c2 == [c1 EXCEPT !.rotating = b]
              c == [c2 EXCEPT !.had = h]
  <2>4. h \in Nat
    BY <1>0, <1>4 DEF CallsTyped, Kind
  <2>5. call[u] \in CallRec
    BY <1>0 DEF CallsTyped
  <2>7. call' = [call EXCEPT ![u] = c]
    BY <2>1, <2>3, <1>0, Zenon DEF CallsTyped
  <2>. HIDE DEF h
  <2>6. /\ c1 \in CallRec /\ c1.at = "set" /\ c1.kind = call[u].kind /\ c1.op = call[u].op
        /\ c1.rotating = call[u].rotating /\ c1.had = call[u].had
    BY <2>5 DEF CallRec, Phases
  <2>. HIDE DEF c1
  <2>11. /\ c2 \in CallRec /\ c2.at = "set" /\ c2.kind = call[u].kind /\ c2.op = call[u].op
         /\ c2.rotating = b /\ c2.had = call[u].had
    BY <2>6 DEF CallRec
  <2>. HIDE DEF c2
  <2>8. /\ c \in CallRec /\ c.at = "set" /\ c.kind = "provider" /\ c.op = call[u].op
        /\ c.had = h /\ c.rotating = b
    BY <2>4, <2>11, <1>1 DEF CallRec
  <2>. HIDE DEF c
  <2>9. /\ call' \in [Caller -> {Idle} \cup CallRec] /\ \A v \in Caller \ {u} : call'[v] = call[v]
        /\ call'[u] # Idle /\ call'[u].at = "set" /\ call'[u].kind = "provider"
        /\ call'[u].op = call[u].op /\ call'[u].had = h /\ call'[u].rotating = b
    BY <1>0, <2>7, <2>8, IdleIsNone DEF CallsTyped
  <2>10. ProviderHolds'
    BY <1>0, <1>4, <1>5, <1>6, <2>2, <2>3, <2>9, SoleProvider DEF In, h
  <2>. QED
    BY <1>0, <1>1, <2>2, <2>9, <2>10, ProviderMoves DEF CallsTyped, Promised, Kind
<1>10. ASSUME SetKey(u) PROVE SecretsInv'
  <2>1. /\ call[u].op = "add" /\ call[u].at \in {"set", "half"}
        /\ UNCHANGED <<keychain, calls, row, unsaid>>
    BY <1>1, <1>10 DEF SetKey, Env, Kept
  <2>2. ASSUME ~keychain \/ call[u].at = "half",
               secret' = [secret EXCEPT !["provider"] = call[u].id], To(u, "row"),
               UNCHANGED <<told, excused>>
        PROVE  SecretsInv'
    <3>1. /\ secret' \in [Kind -> Nat] /\ secret'["provider"] = call[u].id
          /\ secret'["account"] = secret["account"]
      BY <1>0, <1>4, <2>2 DEF CallsTyped, Kind
    <3>2. /\ call' \in [Caller -> {Idle} \cup CallRec] /\ \A v \in Caller \ {u} : call'[v] = call[v]
          /\ call'[u] # Idle /\ call'[u].at = "row" /\ call'[u].kind = "provider"
          /\ call'[u].op = "add" /\ call'[u].id = call[u].id
          /\ call'[u].had = call[u].had /\ call'[u].rotating = call[u].rotating
      BY <1>2, <2>1, <2>2 DEF Phases
    <3>4. ProviderHolds'
      BY <1>0, <1>6, <1>7, <2>1, <2>2, <3>1, <3>2, SoleProvider DEF In
    <3>. QED
      BY <1>0, <1>1, <2>1, <2>2, <3>1, <3>2, <3>4, ProviderMoves DEF CallsTyped, Promised, Kind
  <2>3. ASSUME keychain, secret' = [secret EXCEPT !["provider"] = Nothing], To(u, "half"),
               UNCHANGED <<told, excused>>
        PROVE  SecretsInv'
    <3>1. /\ secret' \in [Kind -> Nat] /\ secret'["account"] = secret["account"]
      BY <1>0, <1>4, <2>3 DEF CallsTyped, Kind
    <3>2. /\ call' \in [Caller -> {Idle} \cup CallRec] /\ \A v \in Caller \ {u} : call'[v] = call[v]
          /\ call'[u] # Idle /\ call'[u].at = "half" /\ call'[u].kind = "provider"
          /\ call'[u].op = "add"
          /\ call'[u].had = call[u].had /\ call'[u].rotating = call[u].rotating
      BY <1>2, <2>1, <2>3 DEF Phases
    <3>4. secret'["provider"] = Nothing
      BY <1>0, <2>3 DEF CallsTyped, Kind
    <3>3. ProviderHolds'
      BY <1>0, <1>6, <1>7, <2>1, <2>3, <3>2, <3>4, SoleProvider DEF In
    <3>. QED
      BY <1>0, <1>1, <2>1, <2>3, <3>1, <3>2, <3>3, ProviderMoves DEF CallsTyped, Promised, Kind
  <2>. QED
    BY <1>10, <2>2, <2>3 DEF SetKey, Set
<1>11. ASSUME SetKeyFails(u) PROVE SecretsInv'
  <2>1. /\ call[u].op = "add" /\ call[u].at \in {"set", "half"} /\ Done(u)
        /\ unsaid' = (unsaid \/ (call[u].at = "half" /\ call[u].rotating))
        /\ UNCHANGED <<row, secret, told, excused, keychain, calls>>
    BY <1>0, <1>1, <1>11 DEF SetKeyFails, Kept, Store
  <2>2. /\ unsaid' \in BOOLEAN /\ (~unsaid' => ~unsaid)
        /\ (~unsaid' /\ call[u].at = "half" => ~call[u].rotating)
    BY <1>0, <2>1 DEF CallsTyped
  <2>3. ProviderHolds'
    <3>1. CASE call[u].at = "set"
      BY <1>0, <1>3, <1>5, <1>6, <2>1, <2>2, <3>1, SoleProvider DEF In
    <3>2. CASE call[u].at = "half"
      BY <1>0, <1>3, <1>6, <1>7, <2>1, <2>2, <3>2, SoleProvider DEF In
    <3>. QED
      BY <2>1, <3>1, <3>2
  <2>. QED
    BY <1>0, <1>3, <2>1, <2>2, <2>3, ProviderMoves DEF CallsTyped, Promised, Kind
<1>12. ASSUME AddChatProvider(u) PROVE SecretsInv'
  <2>1. /\ call[u].op = "add" /\ call[u].at = "row" /\ UNCHANGED <<keychain, calls, secret>>
    BY <1>1, <1>12 DEF AddChatProvider, Kept
  <2>2. ASSUME row' = [row EXCEPT !["provider"] = call[u].id], Answers(u, "provider"),
               unsaid' = FALSE
        PROVE  SecretsInv'
    <3>1. /\ row' \in [Kind -> Nat] /\ row'["provider"] = call[u].id
          /\ row'["account"] = row["account"]
      BY <1>0, <1>4, <2>2 DEF CallsTyped, Kind
    <3>2. /\ told' \in [Kind -> Nat] /\ told'["account"] = told["account"] /\ excused' = excused
          /\ told'["provider"] = IF excused["provider"] THEN told["provider"] ELSE call[u].id
      BY <1>0, <1>4, <2>2 DEF Answers, CallsTyped, Kind
    <3>3. /\ call' \in [Caller -> {Idle} \cup CallRec] /\ \A v \in Caller \ {u} : call'[v] = call[v]
          /\ call'[u] = Idle
      BY <1>3, <2>2 DEF Answers
    <3>4. ProviderHolds'
      BY <1>0, <1>4, <1>7, <2>1, <3>1, <3>2, <3>3, SoleProvider DEF In
    <3>. QED
      BY <1>0, <2>1, <2>2, <3>1, <3>2, <3>3, <3>4, ProviderMoves
         DEF CallsTyped, Promised, Kind
  <2>3. ASSUME To(u, "putback"), UNCHANGED <<row, told, excused, unsaid>> PROVE SecretsInv'
    <3>1. /\ call' \in [Caller -> {Idle} \cup CallRec] /\ \A v \in Caller \ {u} : call'[v] = call[v]
          /\ call'[u] # Idle /\ call'[u].at = "putback" /\ call'[u].kind = "provider"
          /\ call'[u].op = "add" /\ call'[u].id = call[u].id
          /\ call'[u].had = call[u].had /\ call'[u].rotating = call[u].rotating
      BY <1>2, <2>1, <2>3 DEF Phases
    <3>2. ProviderHolds'
      BY <1>0, <1>6, <1>7, <2>1, <2>3, <3>1, SoleProvider DEF In
    <3>. QED
      BY <1>0, <1>1, <2>1, <2>3, <3>1, <3>2, ProviderMoves DEF CallsTyped, Promised, Kind
  <2>. QED
    BY <1>12, <2>2, <2>3 DEF AddChatProvider
<1>13. ASSUME PutBack(u) PROVE SecretsInv'
  <2>1. /\ call[u].op = "add" /\ call[u].at = "putback" /\ UNCHANGED <<keychain, calls, row>>
    BY <1>1, <1>13 DEF PutBack, Kept
  <2>2. ASSUME ~call[u].rotating \/ call[u].had # Nothing,
               secret' = [secret EXCEPT !["provider"] = call[u].had], Done(u),
               UNCHANGED <<told, excused, unsaid>>
        PROVE  SecretsInv'
    <3>1. /\ secret' \in [Kind -> Nat] /\ secret'["provider"] = call[u].had
          /\ secret'["account"] = secret["account"]
      BY <1>0, <1>4, <2>2 DEF CallsTyped, Kind
    <3>2. /\ call' \in [Caller -> {Idle} \cup CallRec] /\ \A v \in Caller \ {u} : call'[v] = call[v]
          /\ call'[u] = Idle
      BY <1>3, <2>2
    <3>3. ProviderHolds'
      BY <1>0, <1>4, <1>6, <1>7, <2>1, <2>2, <3>1, <3>2, SoleProvider DEF In
    <3>. QED
      BY <1>0, <2>1, <2>2, <3>1, <3>2, <3>3, ProviderMoves DEF CallsTyped, Promised, Kind
  <2>4. ASSUME Done(u), unsaid' = TRUE, UNCHANGED <<secret, told, excused>> PROVE SecretsInv'
    <3>1. ProviderHolds'
      BY <1>0, <1>3, <1>6, <2>1, <2>4, SoleProvider DEF In
    <3>. QED
      BY <1>0, <1>3, <2>1, <2>4, <3>1, ProviderMoves DEF CallsTyped, Promised, Kind
  <2>3. ASSUME Excuses(u, "provider"), UNCHANGED unsaid,
               secret' = secret \/ secret' = [secret EXCEPT !["provider"] = Nothing]
        PROVE  SecretsInv'
    <3>1. secret' \in [Kind -> Nat] /\ secret'["account"] = secret["account"]
      BY <1>0, <1>4, <2>3 DEF CallsTyped, Kind
    <3>. QED
      BY <1>0, <2>1, <2>3, <3>1, ProviderExcuses
  <2>. QED
    BY <1>13, <2>2, <2>3, <2>4 DEF PutBack
<1>14. ASSUME RemoveChatProvider(u) PROVE SecretsInv'
  <2>1. /\ call[u].op = "remove" /\ call[u].at = "remove"
        /\ UNCHANGED <<keychain, calls, secret, excused, unsaid>>
    BY <1>1, <1>14 DEF RemoveChatProvider, Env, Kept
  <2>2. ASSUME row' = [row EXCEPT !["provider"] = Nothing], To(u, "secret"),
               told' = [told EXCEPT !["provider"] = Nothing]
        PROVE  SecretsInv'
    <3>1. /\ row' \in [Kind -> Nat] /\ row'["provider"] = Nothing
          /\ row'["account"] = row["account"]
          /\ told' \in [Kind -> Nat] /\ told'["provider"] = Nothing
          /\ told'["account"] = told["account"]
      BY <1>0, <1>4, <2>2 DEF CallsTyped, Kind
    <3>2. /\ call' \in [Caller -> {Idle} \cup CallRec] /\ \A v \in Caller \ {u} : call'[v] = call[v]
          /\ call'[u] # Idle /\ call'[u].at = "secret" /\ call'[u].kind = "provider"
          /\ call'[u].op = "remove"
      BY <1>2, <2>1, <2>2 DEF Phases
    <3>3. ProviderHolds'
      BY <1>0, <2>1, <3>1, <3>2, SoleProvider DEF In
    <3>. QED
      BY <1>0, <1>1, <2>1, <3>1, <3>2, <3>3, ProviderMoves DEF CallsTyped, Promised, Kind
  <2>3. CASE Done(u) /\ UNCHANGED <<row, told>>
    BY <1>8, <2>1, <2>3
  <2>. QED
    BY <1>14, <2>2, <2>3 DEF RemoveChatProvider
<1>15. ASSUME DeleteKey(u) PROVE SecretsInv'
  <2>1. /\ call[u].op = "remove" /\ call[u].at = "secret" /\ UNCHANGED <<keychain, calls, row>>
    BY <1>1, <1>15 DEF DeleteKey, Kept
  <2>2. ASSUME secret' = [secret EXCEPT !["provider"] = Nothing], Done(u), UNCHANGED <<told, excused>>,
               unsaid' = FALSE
        PROVE  SecretsInv'
    <3>1. /\ secret' \in [Kind -> Nat] /\ secret'["provider"] = Nothing
          /\ secret'["account"] = secret["account"]
      BY <1>0, <1>4, <2>2 DEF CallsTyped, Kind
    <3>2. /\ call' \in [Caller -> {Idle} \cup CallRec] /\ \A v \in Caller \ {u} : call'[v] = call[v]
          /\ call'[u] = Idle
      BY <1>3, <2>2
    <3>3. ~excused["provider"] => row["provider"] = Nothing /\ told["provider"] = Nothing
      BY <1>0, <2>1 DEF ProviderHolds, In
    <3>4. ProviderHolds'
      BY <1>0, <2>1, <2>2, <3>1, <3>2, <3>3, SoleProvider DEF In
    <3>. QED
      BY <1>0, <2>1, <2>2, <3>1, <3>2, <3>4, ProviderMoves DEF CallsTyped, Promised, Kind
  <2>3. CASE Excuses(u, "provider") /\ UNCHANGED <<secret, unsaid>>
    BY <1>0, <2>1, <2>3, ProviderExcuses DEF CallsTyped
  <2>. QED
    BY <1>15, <2>2, <2>3 DEF DeleteKey
<1>. QED
  BY <1>9, <1>10, <1>11, <1>12, <1>13, <1>14, <1>15 DEF OnProvider

\* A call begins: if it overlaps as calls are not made to, the name is excused.
LEMMA CallBegins ==
  ASSUME SecretsInv, NEW u \in Caller, NEW k \in Kind, NEW o \in {"add", "remove", "start"},
         o = "start" => k = "account", Begin(u, k, o), UNCHANGED <<keychain, row, secret, unsaid>>
  PROVE  SecretsInv'
<1>0. CallsTyped /\ Promised /\ AccountHolds /\ ProviderHolds /\ call[u] = Idle
  BY DEF SecretsInv, Begin
<1>. DEFINE c == [at |-> o, kind |-> k, op |-> o, id |-> calls + 1, had |-> Nothing,
                  rotating |-> FALSE]
<1>1. c \in CallRec /\ c.at = o /\ c.kind = k /\ c.op = o
  BY <1>0 DEF CallRec, Phases, CallsTyped, Nothing
<1>2. call' = [call EXCEPT ![u] = c] /\ calls' = calls + 1
  BY DEF Begin
<1>. HIDE DEF c
<1>3. /\ call' \in [Caller -> {Idle} \cup CallRec] /\ \A v \in Caller \ {u} : call'[v] = call[v]
      /\ call'[u] # Idle /\ call'[u].at = o /\ call'[u].kind = k /\ call'[u].op = o
  BY <1>0, <1>1, <1>2, IdleIsNone DEF CallsTyped
<1>4. \A v \in Caller, m \in Kind, ph \in SUBSET (Phases \ {"add", "remove", "start"}) :
        /\ In(v, m, ph)' <=> In(v, m, ph)
        /\ In(v, m, ph) => call'[v] = call[v]
  BY <1>0, <1>3 DEF In
<1>5. /\ told' \in [Kind -> Nat] /\ excused' \in [Kind -> BOOLEAN]
      /\ \A m \in Kind \ {k} : told'[m] = told[m] /\ excused'[m] = excused[m]
      /\ Overlaps(k, o) => told'[k] = Nothing /\ excused'[k] = TRUE
      /\ ~Overlaps(k, o) => told'[k] = told[k] /\ excused'[k] = excused[k]
  <2>1. CASE Overlaps(k, o)
    <3>1. told' = [told EXCEPT ![k] = Nothing] /\ excused' = [excused EXCEPT ![k] = TRUE]
      BY <2>1 DEF Begin
    <3>2. told \in [Kind -> Nat] /\ excused \in [Kind -> BOOLEAN] /\ Nothing \in Nat
      BY <1>0 DEF CallsTyped, Nothing
    <3>3. told' \in [Kind -> Nat] /\ told'[k] = Nothing /\ \A m \in Kind \ {k} : told'[m] = told[m]
      BY <3>1, <3>2
    <3>4. /\ excused' \in [Kind -> BOOLEAN] /\ excused'[k] = TRUE
          /\ \A m \in Kind \ {k} : excused'[m] = excused[m]
      BY <3>1, <3>2
    <3>. QED
      BY <2>1, <3>3, <3>4
  <2>2. CASE ~Overlaps(k, o)
    BY <1>0, <2>2 DEF Begin, CallsTyped
  <2>. QED
    BY <2>1, <2>2
<1>6. CallsTyped'
  <2>1. \A v \in Caller : In(v, "provider", {"half"})' => keychain
    BY <1>0, <1>4 DEF CallsTyped, Phases, Kind
  <2>2. \A v \in Caller \ {u} : call'[v] = call[v]
    BY <1>3
  <2>3. o = "start" => k = "account"
    OBVIOUS
  <2>4. calls' \in Nat
    BY <1>0, <1>2 DEF CallsTyped
  <2>. QED
    BY <1>0, <1>3, <1>5, <2>1, <2>2, <2>3, <2>4 DEF CallsTyped, Kind
<1>7. Promised'
  <2>. SUFFICES ASSUME NEW m \in Kind
                PROVE  /\ excused'[m] => told'[m] = Nothing
                       /\ ~excused'[m] => \A v, w \in Caller :
                            Changing(v, m)' /\ Changing(w, m)' /\ v # w =>
                              m = "account" /\ call'[v].op = "add" /\ call'[w].op = "add"
    BY DEF Promised
  <2>1. \A v \in Caller \ {u} : Changing(v, m)' <=> Changing(v, m)
    BY <1>3 DEF Changing
  <2>2. Changing(u, m)' => m = k /\ o \in {"add", "remove"}
    BY <1>3 DEF Changing
  <2>3. ASSUME ~Overlaps(k, o), o \in {"add", "remove"}, NEW v \in Caller, Changing(v, k)
        PROVE  k = "account" /\ o = "add" /\ call[v].op = "add"
    <3>1. v \in UnderWay(k, {"add", "remove"}) /\ (call[v].op = "remove" => v \in UnderWay(k, {"remove"}))
      BY <2>3 DEF Changing, UnderWay
    <3>. QED
      BY <2>3, <3>1 DEF Overlaps, Changing
  <2>4. excused'[m] => told'[m] = Nothing
    BY <1>0, <1>5 DEF Promised
  <2>5. ASSUME ~excused'[m], NEW v \in Caller, NEW w \in Caller, Changing(v, m)', Changing(w, m)',
               v # w
        PROVE  m = "account" /\ call'[v].op = "add" /\ call'[w].op = "add"
    <3>1. ~excused[m] /\ (m = k => ~Overlaps(k, o))
      BY <1>5, <2>5
    <3>2. CASE v # u /\ w # u
      BY <1>0, <1>3, <2>1, <2>5, <3>1, <3>2 DEF Promised
    <3>3. CASE v = u
      BY <1>3, <2>1, <2>2, <2>3, <2>5, <3>1, <3>3
    <3>4. CASE w = u
      BY <1>3, <2>1, <2>2, <2>3, <2>5, <3>1, <3>4
    <3>. QED
      BY <3>2, <3>3, <3>4
  <2>. QED
    BY <2>4, <2>5
<1>8. AccountHolds'
  <2>1. ~excused'["account"] => ~excused["account"] /\ told'["account"] = told["account"]
    BY <1>5 DEF Kind
  <2>. QED
    BY <1>0, <1>4, <2>1 DEF AccountHolds, Kind, Phases
<1>9. ProviderHolds'
  <2>1. ~excused'["provider"] => ~excused["provider"] /\ told'["provider"] = told["provider"]
    BY <1>5 DEF Kind
  <2>. QED
    BY <1>0, <1>4, <2>1 DEF ProviderHolds, Kind, Phases
<1>. QED
  BY <1>6, <1>7, <1>8, <1>9 DEF SecretsInv

\* With no call at a name, none is between its two halves.
LEMMA NobodyBetween ==
  ASSUME CallsTyped, NEW k \in Kind, Settled(k)
  PROVE  \A u \in Caller :
           /\ ~In(u, k, {"set", "half", "undo", "forget", "secret"})
           /\ ~In(u, k, {"half", "row", "putback", "secret"})
<1>1. \A u \in Caller : u \notin UnderWay(k, {"add", "remove"})
  BY DEF Settled
<1>. QED
  BY <1>1 DEF UnderWay, In, CallsTyped, Kind

\* The daemon dies: no call is left, and the names they were at are excused.
LEMMA CallsDie == ASSUME SecretsInv, Crash PROVE SecretsInv'
<1>0. CallsTyped /\ Promised /\ AccountHolds /\ ProviderHolds
  BY DEF SecretsInv
<1>1. /\ \A u \in Caller : call'[u] = Idle
      /\ call' \in [Caller -> {Idle} \cup CallRec]
      /\ UNCHANGED <<keychain, row, secret, calls, unsaid>>
  BY DEF Crash, Env, Kept, Store
<1>2. /\ told' \in [Kind -> Nat] /\ excused' \in [Kind -> BOOLEAN]
      /\ \A k \in Kind : ~excused'[k] => ~excused[k] /\ Settled(k) /\ told'[k] = told[k]
      /\ \A k \in Kind : excused'[k] => told'[k] = Nothing
  <2>1. \A k \in Kind : told'[k] = IF Settled(k) THEN told[k] ELSE Nothing
    BY DEF Crash, Settled
  <2>2. told' = [k \in Kind |-> IF Settled(k) THEN told[k] ELSE Nothing]
    BY DEF Crash, Settled
  <2>3. told' \in [Kind -> Nat]
    BY <1>0, <2>2 DEF CallsTyped, Nothing
  <2>4. excused' = [k \in Kind |-> excused[k] \/ ~Settled(k)]
    BY DEF Crash, Settled
  <2>5. \A k \in Kind : (excused[k] \/ ~Settled(k)) \in BOOLEAN
    OBVIOUS
  <2>6. excused' \in [Kind -> BOOLEAN]
    BY <2>4, <2>5
  <2>. QED
    BY <1>0, <2>1, <2>3, <2>4, <2>6 DEF Promised
<1>3. CallsTyped' /\ Promised'
  BY <1>0, <1>1, <1>2 DEF CallsTyped, Promised, Changing, In
<1>4. AccountHolds'
  BY <1>0, <1>1, <1>2, NobodyBetween DEF AccountHolds, In, Kind
<1>5. ProviderHolds'
  BY <1>0, <1>1, <1>2, NobodyBetween DEF ProviderHolds, In, Kind
<1>. QED
  BY <1>3, <1>4, <1>5 DEF SecretsInv

\* A step, or none, keeps the invariant.
LEMMA SecretsStay == ASSUME SecretsInv, [Next]_vars PROVE SecretsInv'
<1>1. CASE UNCHANGED vars
  <2>1. CallsTyped'
    BY <1>1 DEF vars, SecretsInv, CallsTyped, In
  <2>2. Promised'
    BY <1>1 DEF vars, SecretsInv, Promised, Changing
  <2>3. AccountHolds'
    BY <1>1 DEF vars, SecretsInv, AccountHolds, In
  <2>4. ProviderHolds'
    BY <1>1 DEF vars, SecretsInv, ProviderHolds, In
  <2>. QED
    BY <2>1, <2>2, <2>3, <2>4 DEF SecretsInv
<1>2. ASSUME NEW u \in Caller, Begins(u) PROVE SecretsInv'
  BY <1>2, CallBegins DEF Begins, Store, Kind
<1>. QED
  BY <1>1, <1>2, CallsDie, AccountActs, ProviderActs DEF Next

\* What was told is there, and a settled name has both of its halves or neither.
LEMMA WhatWasAddedIsThere == ASSUME SecretsInv PROVE AddedRuns /\ HalvesAgree
<1>0. CallsTyped /\ Promised /\ AccountHolds /\ ProviderHolds
  BY DEF SecretsInv
<1>1. AddedRuns
  BY <1>0, NobodyBetween DEF AddedRuns, Promised, AccountHolds, ProviderHolds, Untold, Kind
<1>2. HalvesAgree
  BY <1>0, NobodyBetween DEF HalvesAgree, AccountHolds, ProviderHolds, Untold, Kind
<1>. QED
  BY <1>1, <1>2

-----------------------------------------------------------------------------
(* Settings.  A Run that waits for its Agent carries what the start resolved, *)
(* and that is nothing resolve refuses.                                       *)

SettingsInv ==
  /\ spent \in Nat
  /\ phase = "opened" => T!Usable(run) /\ tool \in {"absent", "dashed", "good"}

\* No Run is open to begin with.
LEMMA SettingsBegin == ASSUME T!Init PROVE SettingsInv
  BY DEF T!Init, SettingsInv

\* A step, or none, keeps the invariant.
LEMMA SettingsStay == ASSUME SettingsInv, [T!Next]_(T!vars) PROVE SettingsInv'
<1>1. CASE UNCHANGED <<phase, run, tool, spent>>
  BY <1>1 DEF SettingsInv, T!Usable
<1>2. CASE T!Start
  <2>1. T!Usable(T!Resolve(global, project, jobSet)) /\ run' = T!Resolve(global, project, jobSet)
    BY <1>2 DEF T!Start
  <2>2. T!Usable(run)'
    BY <2>1 DEF T!Usable
  <2>3. spent' = spent /\ tool' \in {"absent", "dashed", "good"}
    BY <1>2 DEF T!Start, T!ParseProject
  <2>. QED
    BY <2>2, <2>3 DEF SettingsInv
<1>3. CASE T!Execute \/ T!Fail \/ T!End
  <2>1. phase' # "opened" /\ spent' \in Nat
    BY <1>3 DEF T!Execute, T!Fail, T!End, SettingsInv
  <2>. QED
    BY <2>1 DEF SettingsInv
<1>. QED
  BY <1>1, <1>2, <1>3 DEF T!Next, T!vars, T!EditDaemon, T!EditProject

\* The narrowest of the levels that say anything of a key, by what each says.
LEMMA NarrowestOf ==
  ASSUME NEW k \in T!PhaseKeys
  PROVE  LET says(i) == k \in DOMAIN T!Level[i] /\ T!Level[i][k] \notin T!Unset
         IN  T!Narrowest(k) = IF says(3) THEN 3 ELSE IF says(2) THEN 2 ELSE IF says(1) THEN 1 ELSE 0
<1>. DEFINE says(i) == k \in DOMAIN T!Level[i] /\ T!Level[i][k] \notin T!Unset
            S == {i \in 1 .. 3 : says(i)}
<1>1. T!Narrowest(k) = IF S = {} THEN 0 ELSE CHOOSE i \in S : \A o \in S : o <= i
  BY DEF T!Narrowest
<1>. HIDE DEF says
<1>2. \A n \in S : (\A o \in S : o <= n) => T!Narrowest(k) = n
  <2>. SUFFICES ASSUME NEW n \in S, \A o \in S : o <= n PROVE T!Narrowest(k) = n
    OBVIOUS
  <2>. DEFINE m == CHOOSE i \in S : \A o \in S : o <= i
  <2>1. m \in S /\ \A o \in S : o <= m
    OBVIOUS
  <2>2. T!Narrowest(k) = m
    BY <1>1
  <2>. HIDE DEF m
  <2>3. m <= n /\ n <= m /\ m \in Int /\ n \in Int
    BY <2>1
  <2>. QED
    BY <2>2, <2>3
<1>3. CASE says(3)
  <2>1. 3 \in S /\ \A o \in S : o <= 3
    BY <1>3
  <2>. QED
    BY <1>2, <1>3, <2>1 DEF says
<1>4. CASE ~says(3) /\ says(2)
  <2>1. 2 \in S /\ \A o \in S : o <= 2
    BY <1>4
  <2>. QED
    BY <1>2, <1>4, <2>1 DEF says
<1>5. CASE ~says(3) /\ ~says(2) /\ says(1)
  <2>1. 1 \in S /\ \A o \in S : o <= 1
    BY <1>5
  <2>. QED
    BY <1>2, <1>5, <2>1 DEF says
<1>6. CASE ~says(3) /\ ~says(2) /\ ~says(1)
  <2>1. S = {}
    BY <1>6
  <2>. QED
    BY <1>1, <1>6, <2>1 DEF says
<1>. QED
  BY <1>3, <1>4, <1>5, <1>6 DEF says

\* A start resolves every key from the narrowest level that says anything of it.
LEMMA ResolvesTheNarrowest ==
  ASSUME T!Next, phase = "waiting", phase' = "opened", NEW k \in T!PhaseKeys
  PROVE  run'[k] = IF T!Narrowest(k) = 0 THEN T!Defaults[k]
                   ELSE [value |-> T!Level[T!Narrowest(k)][k], from |-> T!Named[T!Narrowest(k)]]
<1>1. T!Start
  BY DEF T!Next, T!EditDaemon, T!EditProject, T!Execute, T!Fail, T!End
<1>2. run' = T!Resolve(global, project, jobSet)
  BY <1>1 DEF T!Start
<1>3. /\ T!Level[1] = global /\ T!Level[2] = project /\ T!Level[3] = jobSet
      /\ T!Named[1] = "global" /\ T!Named[2] = "project" /\ T!Named[3] = "job"
  BY DEF T!Level, T!Named
<1>. DEFINE one == T!Apply(T!Defaults, global, "global")
            two == T!Apply(one, project, "project")
<1>4. one[k] = IF k \in DOMAIN global /\ global[k] \notin T!Unset
               THEN [value |-> global[k], from |-> "global"] ELSE T!Defaults[k]
  BY DEF T!Apply
<1>. HIDE DEF one
<1>5. two[k] = IF k \in DOMAIN project /\ project[k] \notin T!Unset
               THEN [value |-> project[k], from |-> "project"] ELSE one[k]
  BY DEF T!Apply
<1>6. run' = T!Apply(two, jobSet, "job")
  BY <1>2 DEF T!Resolve, one
<1>. HIDE DEF two
<1>7. run'[k] = IF k \in DOMAIN jobSet /\ jobSet[k] \notin T!Unset
                THEN [value |-> jobSet[k], from |-> "job"] ELSE two[k]
  BY <1>6 DEF T!Apply
<1>. QED
  BY <1>3, <1>4, <1>5, <1>7, NarrowestOf

\* A Run that costs an attempt without an Agent runs another vendor's model, or carries
\* a rule that reads as an option.
LEMMA OnlyTheseAreSpent ==
  ASSUME SettingsInv, T!Next, spent' > spent
  PROVE  run["model"].value = "foreign" \/ tool = "dashed"
<1>1. T!Fail
  BY DEF SettingsInv, T!Next, T!EditDaemon, T!EditProject, T!Start, T!Execute, T!End
<1>. QED
  BY <1>1 DEF T!Fail, T!Command, SettingsInv, T!Usable, T!ParseModel

-----------------------------------------------------------------------------
(* Reports.  What stands while a report is read is among what is still to be *)
(* read or what was read; a Run that was verified stays so, and is not       *)
(* passed over.                                                              *)

RunRec    == [open : BOOLEAN, verified : BOOLEAN]
RowRec    == [state : {"none", "pending", "active", "review", "blocked", "done", "cancelled"},
              tree : BOOLEAN, branch : BOOLEAN]
Said      == {"none", "starting", "agent", "finishing", "verifying"}
StatusRec == [at : {"ceilings", "pausing"}, byID : SUBSET Job, steady : SUBSET Job,
              open : SUBSET Job, running : Seq([job : Job, stage : Said])]
ShowRec   == [at : {"runs", "checks"}, job : Job, row : RowRec, next : Nat, checks : Nat,
              verified : Nat, kept : BOOLEAN]

\* What is recorded of the Jobs, as far as a report rests on it.
Recorded ==
  /\ runs \in [Job -> Seq(RunRec)] /\ stage \in [Job -> Said]
  /\ jobRow \in [Job -> RowRec] /\ disk \in [Job -> [tree : BOOLEAN, branch : BOOLEAN]]
  /\ report \in {R!NoCall} \cup StatusRec \cup ShowRec
  /\ \A j \in Job : runs[j] # << >> => jobRow[j].state # "none"

\* What stood since owl status began is listed, or has still to be.
Listed ==
  report \in StatusRec =>
    /\ report.at = "ceilings" => \A j \in report.steady : j \in report.byID /\ R!InProgress(j)
    /\ report.at = "pausing" => \A j \in report.steady :
         j \in report.open \/ \E i \in DOMAIN report.running : report.running[i].job = j

\* The Run that was verified when owl show began is not behind it.
Shown ==
  report \in ShowRec =>
    /\ report.verified <= Len(runs[report.job])
    /\ report.verified # 0 => runs[report.job][report.verified].verified
    /\ report.at = "runs" => report.checks = 0
    /\ report.at = "checks" =>
         /\ report.next <= Len(runs[report.job])
         /\ report.checks # 0 => report.next = 0
         /\ report.verified <= report.next \/ report.verified <= report.checks

ReportsInv == Recorded /\ Listed /\ Shown

\* What is below what among the numbers, as the library has it.
Below == OpToRel(<, Nat)

\* The library's order of the numbers is the usual one.
LEMMA BelowIsLess == Below = {p \in Nat \X Nat : p[1] < p[2]}
  BY DEF Below, OpToRel

\* A set of numbers that is not empty has a least one.
LEMMA LeastOf ==
  ASSUME NEW S \in SUBSET Nat, S # {}
  PROVE  \E m \in S : \A n \in S : m <= n
<1>1. IsWellFoundedOn(Below, Nat)
  BY NatLessThanWellFounded, Zenon DEF Below
<1>2. PICK m \in S : \A n \in S : <<n, m>> \notin Below
  BY <1>1, WFMin
<1>3. ASSUME NEW n \in S PROVE m <= n
  <2>1. m \in Nat /\ n \in Nat
    OBVIOUS
  <2>2. n < m => <<n, m>> \in {p \in Nat \X Nat : p[1] < p[2]}
    BY <2>1
  <2>3. ~(n < m)
    BY <1>2, <2>2, BelowIsLess, Zenon
  <2>. QED
    BY <2>1, <2>3
<1>. QED
  BY <1>3

\* And one that is bounded a greatest.
LEMMA GreatestOf ==
  ASSUME NEW N \in Nat, NEW S \in SUBSET (0 .. N), S # {}
  PROVE  \E m \in S : \A n \in S : n <= m
<1>. DEFINE B == {k \in 0 .. N : N - k \in S}
<1>1. B \in SUBSET Nat
  OBVIOUS
<1>2. B # {}
  <2>1. PICK n \in S : TRUE
    OBVIOUS
  <2>2. N - n \in 0 .. N /\ N - (N - n) = n
    OBVIOUS
  <2>. QED
    BY <2>2
<1>3. PICK k \in B : \A l \in B : k <= l
  BY <1>1, <1>2, LeastOf
<1>4. ASSUME NEW n \in S PROVE n <= N - k
  <2>1. N - n \in 0 .. N /\ N - (N - n) = n
    OBVIOUS
  <2>2. k <= N - n
    BY <1>3, <2>1
  <2>. QED
    BY <2>2
<1>5. N - k \in S
  OBVIOUS
<1>. QED
  BY <1>4, <1>5

\* The last of a Job's Runs may be changed in place.
LEMMA LastChanges ==
  ASSUME NEW r \in Seq(RunRec), NEW c, Len(r) # 0 => c \in RunRec
  PROVE  LET s == [r EXCEPT ![Len(r)] = c]
         IN  /\ s \in Seq(RunRec) /\ Len(s) = Len(r)
             /\ \A i \in 1 .. Len(r) : s[i] = IF i = Len(r) THEN c ELSE r[i]
<1>. DEFINE n == Len(r)
            s == [r EXCEPT ![n] = c]
<1>1. n \in Nat /\ r \in [1 .. n -> RunRec]
  OBVIOUS
<1>2. n # 0 => c \in RunRec
  OBVIOUS
<1>. HIDE DEF n
<1>3. ASSUME NEW i \in 1 .. n PROVE s[i] \in RunRec /\ s[i] = IF i = n THEN c ELSE r[i]
  <2>1. n # 0
    BY <1>1
  <2>. QED
    BY <1>1, <1>2, <2>1
<1>4. s = [i \in 1 .. n |-> s[i]]
  BY <1>1
<1>. HIDE DEF s
<1>5. s \in [1 .. n -> RunRec]
  BY <1>3, <1>4
<1>6. s \in Seq(RunRec) /\ Len(s) = n
  BY <1>1, <1>5
<1>. QED
  BY <1>3, <1>6 DEF s, n

\* The newest of a Job's verified Runs is one, and none is newer.
LEMMA Newest ==
  ASSUME Recorded, NEW j \in Job
  PROVE  /\ R!NewestVerified(j) \in 0 .. Len(runs[j])
         /\ R!NewestVerified(j) # 0 => runs[j][R!NewestVerified(j)].verified
<1>. DEFINE S == {i \in DOMAIN runs[j] : runs[j][i].verified}
            m == CHOOSE i \in S : \A k \in S : k <= i
<1>1. R!NewestVerified(j) = IF S = {} THEN 0 ELSE m
  BY DEF R!NewestVerified
<1>2. Len(runs[j]) \in Nat /\ DOMAIN runs[j] = 1 .. Len(runs[j])
  BY DEF Recorded
<1>3. CASE S = {}
  BY <1>1, <1>2, <1>3
<1>4. CASE S # {}
  <2>1. S \in SUBSET (0 .. Len(runs[j]))
    BY <1>2
  <2>2. \E i \in S : \A k \in S : k <= i
    BY <1>2, <1>4, <2>1, GreatestOf
  <2>3. m \in S
    BY <2>2
  <2>. HIDE DEF m
  <2>4. R!NewestVerified(j) = m
    BY <1>1, <1>4
  <2>. QED
    BY <1>2, <2>3, <2>4
<1>. QED
  BY <1>3, <1>4

\* Nothing is recorded to begin with, and nothing is being read.
LEMMA ReportsBegin == ASSUME R!Init PROVE ReportsInv
<1>1. R!NoCall \notin StatusRec /\ R!NoCall \notin ShowRec
  BY DEF R!NoCall, StatusRec, ShowRec
<1>2. Recorded
  BY DEF R!Init, Recorded, RowRec, Said
<1>. QED
  BY <1>1, <1>2 DEF R!Init, ReportsInv, Listed, Shown

\* What a step of a Job does to its Runs: none is lost, none that was verified is not,
\* and a last one that ends is steady no longer.
LEMMA JobsMove ==
  ASSUME ReportsInv, NEW j \in Job,
         R!Add(j) \/ R!Runs(j) \/ R!Reclaim(j) \/ R!Decide(j)
  PROVE  /\ runs' \in [Job -> Seq(RunRec)] /\ stage' \in [Job -> Said]
         /\ \A k \in Job \ {j} : runs'[k] = runs[k]
         /\ \/ Len(runs'[j]) = Len(runs[j])
            \/ R!Begin(j) /\ Len(runs'[j]) = Len(runs[j]) + 1
         /\ \A i \in 1 .. Len(runs[j]) : runs[j][i].verified => runs'[j][i].verified
         /\ R!InProgress(j) => R!InProgress(j)' \/ R!Unsteady(j)
         /\ UNCHANGED report \/ R!Unsteady(j) \/ R!Unkept(j)
<1>. DEFINE r == runs[j]
            n == Len(runs[j])
<1>0. r \in Seq(RunRec) /\ n \in Nat /\ runs \in [Job -> Seq(RunRec)] /\ stage \in [Job -> Said]
  BY DEF ReportsInv, Recorded
<1>1. CASE UNCHANGED runs
  <2>1. stage' \in [Job -> Said]
    BY <1>0, <1>1 DEF R!Add, R!Runs, R!Reclaim, R!Decide, R!Begin, R!Track, R!StartFails,
       R!Abandon, R!Forget, R!Finishing, R!Verifying, R!SaveCheckResults, R!FinishRun, R!MoveOn,
       R!Disown, Said
  <2>2. UNCHANGED report \/ R!Unsteady(j) \/ R!Unkept(j)
    BY DEF R!Add, R!Runs, R!Reclaim, R!Decide, R!Begin, R!Track, R!StartFails,
       R!Abandon, R!Forget, R!Finishing, R!Verifying, R!SaveCheckResults, R!FinishRun, R!MoveOn,
       R!Disown
  <2>. QED
    BY <1>0, <1>1, <2>1, <2>2 DEF R!InProgress, R!Latest
<1>2. CASE R!Begin(j)
  <2>. DEFINE c == [open |-> TRUE, verified |-> FALSE]
  <2>1. runs' = [runs EXCEPT ![j] = Append(r, c)] /\ UNCHANGED <<stage, report>>
    BY <1>2 DEF R!Begin
  <2>2. c \in RunRec /\ c.open
    BY DEF RunRec
  <2>. HIDE DEF c
  <2>3. /\ Append(r, c) \in Seq(RunRec) /\ Len(Append(r, c)) = n + 1
        /\ \A i \in 1 .. n : Append(r, c)[i] = r[i]
        /\ Append(r, c)[n + 1] = c
    BY <1>0, <2>2
  <2>4. runs' \in [Job -> Seq(RunRec)] /\ \A k \in Job \ {j} : runs'[k] = runs[k]
    BY <1>0, <2>1, <2>3
  <2>5. runs'[j] = Append(r, c)
    BY <1>0, <2>1
  <2>. HIDE DEF r, n
  <2>6. runs'[j] # << >>
    <3>1. Len(runs'[j]) = n + 1 /\ n \in Nat
      BY <1>0, <2>3, <2>5
    <3>2. Len(<< >>) = 0
      OBVIOUS
    <3>. QED
      BY <3>1, <3>2
  <2>7. R!InProgress(j)'
    BY <2>2, <2>3, <2>5, <2>6 DEF R!InProgress, R!Latest
  <2>8. Len(runs'[j]) = Len(runs[j]) + 1
    BY <1>0, <2>3, <2>5 DEF n
  <2>9. \A i \in 1 .. Len(runs[j]) : runs[j][i].verified => runs'[j][i].verified
    BY <2>3, <2>5 DEF n, r
  <2>. QED
    BY <1>0, <1>2, <2>1, <2>4, <2>7, <2>8, <2>9
<1>3. CASE R!Abandon(j) \/ R!FinishRun(j)
  <2>. DEFINE c == [r[n] EXCEPT !.open = FALSE]
              q == [r EXCEPT ![n] = c]
  <2>1. runs' = [runs EXCEPT ![j] = q] /\ UNCHANGED stage /\ R!Unsteady(j)
    BY <1>3 DEF R!Abandon, R!FinishRun
  <2>2. n # 0 => c \in RunRec /\ c.verified = r[n].verified
    <3>1. n # 0 => r[n] \in RunRec
      BY <1>0
    <3>. HIDE DEF r, n
    <3>. QED
      BY <3>1 DEF RunRec
  <2>. HIDE DEF c
  <2>3. /\ q \in Seq(RunRec) /\ Len(q) = n
        /\ \A i \in 1 .. n : q[i] = IF i = n THEN c ELSE r[i]
    BY <1>0, <2>2, LastChanges
  <2>. HIDE DEF q
  <2>4. /\ runs' \in [Job -> Seq(RunRec)] /\ \A k \in Job \ {j} : runs'[k] = runs[k]
        /\ runs'[j] = q
    BY <1>0, <2>1, <2>3
  <2>5. Len(runs'[j]) = Len(runs[j])
    BY <1>0, <2>3, <2>4
  <2>6. \A i \in 1 .. Len(runs[j]) : runs[j][i].verified => runs'[j][i].verified
    BY <1>0, <2>2, <2>3, <2>4
  <2>. QED
    BY <1>0, <2>1, <2>4, <2>5, <2>6
<1>4. CASE R!SaveCheckResults(j)
  <2>. DEFINE c == [r[n] EXCEPT !.verified = TRUE]
              q == [r EXCEPT ![n] = c]
  <2>1. runs' = [runs EXCEPT ![j] = q] /\ UNCHANGED <<stage, report>>
    BY <1>4 DEF R!SaveCheckResults
  <2>2. n # 0 => c \in RunRec /\ c.verified /\ c.open = r[n].open
    <3>1. n # 0 => r[n] \in RunRec
      BY <1>0
    <3>. HIDE DEF r, n
    <3>. QED
      BY <3>1 DEF RunRec
  <2>. HIDE DEF c
  <2>3. /\ q \in Seq(RunRec) /\ Len(q) = n
        /\ \A i \in 1 .. n : q[i] = IF i = n THEN c ELSE r[i]
    BY <1>0, <2>2, LastChanges
  <2>. HIDE DEF q
  <2>4. /\ runs' \in [Job -> Seq(RunRec)] /\ \A k \in Job \ {j} : runs'[k] = runs[k]
        /\ runs'[j] = q
    BY <1>0, <2>1, <2>3
  <2>5. Len(runs'[j]) = Len(runs[j])
    BY <1>0, <2>3, <2>4
  <2>6. \A i \in 1 .. Len(runs[j]) : runs[j][i].verified => runs'[j][i].verified
    BY <1>0, <2>2, <2>3, <2>4
  <2>7. R!InProgress(j) => R!InProgress(j)'
    <3>1. r # << >> => n # 0 /\ q # << >> /\ q[Len(q)] = c
      BY <1>0, <2>3
    <3>. QED
      BY <2>2, <2>3, <2>4, <3>1 DEF R!InProgress, R!Latest
  <2>. QED
    BY <1>0, <2>1, <2>4, <2>5, <2>6, <2>7
<1>5. UNCHANGED runs \/ R!Begin(j) \/ R!Abandon(j) \/ R!FinishRun(j) \/ R!SaveCheckResults(j)
  BY DEF R!Add, R!Runs, R!Reclaim, R!Decide, R!Track, R!StartFails, R!Forget, R!Finishing,
     R!Verifying, R!MoveOn, R!Disown
<1>. QED
  BY <1>1, <1>2, <1>3, <1>4, <1>5

\* The rows and what is on disk keep their form, and a Job that ran is on record.
LEMMA RowsStay ==
  ASSUME ReportsInv, NEW j \in Job,
         R!Add(j) \/ R!Runs(j) \/ R!Reclaim(j) \/ R!Decide(j)
  PROVE  /\ jobRow' \in [Job -> RowRec] /\ disk' \in [Job -> [tree : BOOLEAN, branch : BOOLEAN]]
         /\ \A k \in Job : runs'[k] # << >> => jobRow'[k].state # "none"
<1>0. /\ jobRow \in [Job -> RowRec] /\ disk \in [Job -> [tree : BOOLEAN, branch : BOOLEAN]]
      /\ runs \in [Job -> Seq(RunRec)]
      /\ \A k \in Job : runs[k] # << >> => jobRow[k].state # "none"
  BY DEF ReportsInv, Recorded
<1>1. \A k \in Job : k # j \/ ~R!Begin(j) => (runs'[k] # << >> => runs[k] # << >>)
  <2>1. \A k \in Job : k # j \/ ~R!Begin(j) =>
          /\ Len(runs'[k]) = Len(runs[k]) /\ runs[k] \in Seq(RunRec) /\ runs'[k] \in Seq(RunRec)
    BY <1>0, JobsMove
  <2>. QED
    BY <2>1
<1>2. CASE UNCHANGED <<jobRow, disk>> /\ ~R!Begin(j)
  BY <1>0, <1>1, <1>2
<1>3. ASSUME NEW c \in RowRec, c.state # "none", jobRow' = [jobRow EXCEPT ![j] = c]
      PROVE  /\ jobRow' \in [Job -> RowRec]
             /\ \A k \in Job : runs'[k] # << >> => jobRow'[k].state # "none"
  <2>1. jobRow' \in [Job -> RowRec] /\ jobRow'[j] = c /\ \A k \in Job \ {j} : jobRow'[k] = jobRow[k]
    BY <1>0, <1>3
  <2>. QED
    BY <1>0, <1>1, <1>3, <2>1
<1>4. CASE R!Begin(j)
  <2>. DEFINE c == [state |-> "active", tree |-> TRUE, branch |-> TRUE]
              d == [tree |-> TRUE, branch |-> TRUE]
  <2>1. jobRow' = [jobRow EXCEPT ![j] = c] /\ disk' = [disk EXCEPT ![j] = d]
    BY <1>4 DEF R!Begin
  <2>2. c \in RowRec /\ c.state # "none" /\ d \in [tree : BOOLEAN, branch : BOOLEAN]
    BY DEF RowRec
  <2>. HIDE DEF c, d
  <2>. QED
    BY <1>0, <1>3, <2>1, <2>2
<1>5. ASSUME NEW to \in {"pending", "blocked", "review"}, UNCHANGED disk,
             jobRow' = [jobRow EXCEPT ![j].state = to]
      PROVE  /\ jobRow' \in [Job -> RowRec] /\ disk' \in [Job -> [tree : BOOLEAN, branch : BOOLEAN]]
             /\ \A k \in Job : runs'[k] # << >> => jobRow'[k].state # "none"
  <2>. DEFINE c == [jobRow[j] EXCEPT !.state = to]
  <2>1. c \in RowRec /\ c.state = to
    <3>1. jobRow[j] \in RowRec
      BY <1>0
    <3>. QED
      BY <3>1 DEF RowRec
  <2>2. jobRow' = [jobRow EXCEPT ![j] = c]
    BY <1>5
  <2>. HIDE DEF c
  <2>. QED
    BY <1>0, <1>3, <1>5, <2>1, <2>2
<1>6. CASE R!Reclaim(j)
  <2>1. PICK to \in {"done", "cancelled"} :
          disk' = [disk EXCEPT ![j] = [tree |-> FALSE, branch |-> to = "done"]]
    BY <1>6 DEF R!Reclaim
  <2>2. PICK b \in BOOLEAN : b = (to = "done")
    OBVIOUS
  <2>3. disk' = [disk EXCEPT ![j] = [tree |-> FALSE, branch |-> b]]
    BY <2>1, <2>2
  <2>4. disk' \in [Job -> [tree : BOOLEAN, branch : BOOLEAN]]
    BY <1>0, <2>3
  <2>5. UNCHANGED jobRow /\ UNCHANGED runs
    BY <1>6 DEF R!Reclaim
  <2>. QED
    BY <1>0, <2>4, <2>5
<1>7. CASE R!Decide(j)
  <2>1. /\ jobRow' = [jobRow EXCEPT ![j] = [state |-> at[j], tree |-> FALSE, branch |-> at[j] = "done"]]
        /\ UNCHANGED disk /\ at[j] \in {"done", "cancelled"}
    BY <1>7 DEF R!Decide
  <2>2. PICK b \in BOOLEAN : b = (at[j] = "done")
    OBVIOUS
  <2>. DEFINE c == [state |-> at[j], tree |-> FALSE, branch |-> b]
  <2>3. jobRow' = [jobRow EXCEPT ![j] = c]
    BY <2>1, <2>2
  <2>4. c \in RowRec /\ c.state # "none"
    BY <2>1 DEF RowRec
  <2>. HIDE DEF c
  <2>. QED
    BY <1>0, <1>3, <2>1, <2>3, <2>4
<1>8. CASE R!Add(j)
  BY <1>5, <1>8 DEF R!Add
<1>9. CASE R!MoveOn(j)
  BY <1>5, <1>9 DEF R!MoveOn
<1>10. R!Begin(j) \/ R!Reclaim(j) \/ R!Decide(j) \/ R!Add(j) \/ R!MoveOn(j)
         \/ UNCHANGED <<jobRow, disk>>
  BY DEF R!Runs, R!Track, R!StartFails, R!Abandon, R!Forget, R!Finishing, R!Verifying,
         R!SaveCheckResults, R!FinishRun, R!Disown
<1>. QED
  BY <1>2, <1>4, <1>6, <1>7, <1>8, <1>9, <1>10

\* A step of a Job changes of a report only what it says has stood.
LEMMA ReportStands ==
  ASSUME ReportsInv, NEW j \in Job, UNCHANGED report \/ R!Unsteady(j) \/ R!Unkept(j)
  PROVE  /\ report' \in {R!NoCall} \cup StatusRec \cup ShowRec
         /\ report' \in StatusRec =>
              /\ report \in StatusRec /\ report'.at = report.at /\ report'.byID = report.byID
              /\ report'.open = report.open /\ report'.running = report.running
              /\ report'.steady = report.steady \/ report'.steady = report.steady \ {j}
              /\ R!Unsteady(j) => report'.steady = report.steady \ {j}
         /\ report' \in ShowRec =>
              /\ report \in ShowRec /\ report'.at = report.at /\ report'.job = report.job
              /\ report'.next = report.next /\ report'.checks = report.checks
              /\ report'.verified = report.verified
<1>0. report \in {R!NoCall} \cup StatusRec \cup ShowRec
  BY DEF ReportsInv, Recorded
<1>1. CASE report = R!NoCall
  <2>1. report' = report
    BY <1>1 DEF R!Unsteady, R!Unkept, R!NoCall
  <2>. QED
    BY <1>1, <2>1 DEF R!NoCall, StatusRec, ShowRec
<1>2. CASE report \in StatusRec
  <2>1. "steady" \in DOMAIN report /\ "kept" \notin DOMAIN report
    BY <1>2 DEF StatusRec
  <2>2. report' = report \/ report' = [report EXCEPT !.steady = @ \ {j}]
    BY <2>1 DEF R!Unsteady, R!Unkept
  <2>3. R!Unsteady(j) => report' = [report EXCEPT !.steady = @ \ {j}]
    BY <2>1 DEF R!Unsteady
  <2>4. ASSUME report' = [report EXCEPT !.steady = @ \ {j}]
        PROVE  /\ report' \in StatusRec /\ report'.at = report.at /\ report'.byID = report.byID
               /\ report'.open = report.open /\ report'.running = report.running
               /\ report'.steady = report.steady \ {j}
    BY <1>2, <2>4 DEF StatusRec
  <2>5. \A x \in StatusRec : x \notin ShowRec
    BY DEF StatusRec, ShowRec
  <2>. QED
    BY <1>2, <2>2, <2>3, <2>4, <2>5
<1>3. CASE report \in ShowRec
  <2>1. "kept" \in DOMAIN report /\ "steady" \notin DOMAIN report
    BY <1>3 DEF ShowRec
  <2>2. report' = report \/ report' = [report EXCEPT !.kept = FALSE]
    BY <2>1 DEF R!Unsteady, R!Unkept
  <2>3. ASSUME report' = [report EXCEPT !.kept = FALSE]
        PROVE  /\ report' \in ShowRec /\ report'.at = report.at /\ report'.job = report.job
               /\ report'.next = report.next /\ report'.checks = report.checks
               /\ report'.verified = report.verified
    BY <1>3, <2>3 DEF ShowRec
  <2>4. \A x \in ShowRec : x \notin StatusRec
    BY DEF StatusRec, ShowRec
  <2>. QED
    BY <1>3, <2>2, <2>3, <2>4
<1>. QED
  BY <1>0, <1>1, <1>2, <1>3

\* A step of a Job keeps the invariant.
LEMMA JobsKeep ==
  ASSUME ReportsInv, NEW j \in Job,
         R!Add(j) \/ R!Runs(j) \/ R!Reclaim(j) \/ R!Decide(j)
  PROVE  ReportsInv'
<1>0. Recorded
  BY DEF ReportsInv
<1>1. Recorded'
  BY JobsMove, RowsStay, ReportStands DEF Recorded, RunRec, RowRec, StatusRec, ShowRec, Said
<1>2. Listed'
  <2>. SUFFICES ASSUME report' \in StatusRec PROVE Listed'
    BY DEF Listed
  <2>1. /\ report \in StatusRec /\ report'.at = report.at /\ report'.byID = report.byID
        /\ report'.open = report.open /\ report'.running = report.running
        /\ report'.steady = report.steady \/ report'.steady = report.steady \ {j}
        /\ R!Unsteady(j) => report'.steady = report.steady \ {j}
    BY JobsMove, ReportStands
  <2>2. \A k \in Job \ {j} : R!InProgress(k) => R!InProgress(k)'
    BY JobsMove DEF R!InProgress, R!Latest
  <2>3. R!InProgress(j) => R!InProgress(j)' \/ R!Unsteady(j)
    BY JobsMove
  <2>4. report.steady \subseteq Job
    BY <2>1 DEF StatusRec
  <2>. QED
    BY <2>1, <2>2, <2>3, <2>4 DEF ReportsInv, Listed
<1>3. Shown'
  <2>. SUFFICES ASSUME report' \in ShowRec PROVE Shown'
    BY DEF Shown
  <2>1. /\ report \in ShowRec /\ report'.at = report.at /\ report'.job = report.job
        /\ report'.next = report.next /\ report'.checks = report.checks
        /\ report'.verified = report.verified
    BY JobsMove, ReportStands
  <2>2. report.job \in Job /\ report.verified \in Nat /\ report.next \in Nat /\ report.checks \in Nat
    BY <2>1 DEF ShowRec
  <2>4. runs[report.job] \in Seq(RunRec) /\ runs'[report.job] \in Seq(RunRec)
    BY <1>0, <1>1, <2>2 DEF Recorded
  <2>6. /\ Len(runs[report.job]) \in Nat /\ Len(runs'[report.job]) \in Nat
    BY <2>4
  <2>3. /\ Len(runs'[report.job]) >= Len(runs[report.job])
        /\ \A i \in 1 .. Len(runs[report.job]) :
             runs[report.job][i].verified => runs'[report.job][i].verified
    <3>1. CASE report.job = j
      <4>1. \/ Len(runs'[j]) = Len(runs[j])
            \/ Len(runs'[j]) = Len(runs[j]) + 1
        BY JobsMove
      <4>2. \A i \in 1 .. Len(runs[j]) : runs[j][i].verified => runs'[j][i].verified
        BY JobsMove
      <4>. QED
        BY <2>6, <3>1, <4>1, <4>2
    <3>2. CASE report.job # j
      <4>1. runs'[report.job] = runs[report.job]
        BY <2>2, <3>2, JobsMove
      <4>. QED
        BY <2>6, <4>1
    <3>. QED
      BY <3>1, <3>2
  <2>. QED
    BY <2>1, <2>2, <2>3, <2>6 DEF ReportsInv, Shown
<1>. QED
  BY <1>1, <1>2, <1>3 DEF ReportsInv

\* A read of a report keeps the invariant: what is listed includes what stood, and no
\* verified Run is passed over.
LEMMA ReadsKeep == ASSUME ReportsInv, R!Reports PROVE ReportsInv'
<1>0. /\ Recorded /\ Listed /\ Shown /\ report \in {R!NoCall} \cup StatusRec \cup ShowRec
      /\ UNCHANGED <<jobRow, disk, runs, stage>>
  BY DEF ReportsInv, Recorded, R!Reports, R!ListJobs, R!ListRunsInProgress, R!Overview, R!ListRuns,
         R!ListCheckResults, R!Show, R!Pauses, R!GetJob
<1>1. ASSUME report' \in {R!NoCall} \cup StatusRec \cup ShowRec, Listed', Shown' PROVE ReportsInv'
  BY <1>0, <1>1 DEF ReportsInv, Recorded
<1>2. /\ \A x \in StatusRec : x \notin ShowRec /\ x.at \in {"ceilings", "pausing"}
      /\ \A x \in ShowRec : x \notin StatusRec /\ x.at \in {"runs", "checks"}
      /\ R!NoCall \notin StatusRec /\ R!NoCall \notin ShowRec /\ R!NoCall.at = "none"
  BY DEF StatusRec, ShowRec, R!NoCall
<1>3. CASE R!Overview \/ R!Show
  BY <1>1, <1>2, <1>3 DEF R!Overview, R!Show, Listed, Shown
<1>4. CASE R!ListJobs
  <2>1. report' = [at |-> "ceilings", byID |-> {j \in Job : jobRow[j].state # "none"},
                   steady |-> {j \in Job : R!InProgress(j)}, open |-> {}, running |-> << >>]
    BY <1>4 DEF R!ListJobs
  <2>2. report' \in StatusRec
    BY <2>1 DEF StatusRec
  <2>3. /\ report'.at = "ceilings" /\ report'.byID = {j \in Job : jobRow[j].state # "none"}
        /\ report'.steady = {j \in Job : R!InProgress(j)}
    BY <2>1
  <2>4. \A j \in Job : R!InProgress(j) => jobRow[j].state # "none" /\ R!InProgress(j)'
    BY <1>0 DEF Recorded, R!InProgress, R!Latest
  <2>. QED
    BY <1>1, <1>2, <2>2, <2>3, <2>4 DEF Listed, Shown
<1>5. CASE R!ListRunsInProgress
  <2>1. report.at = "ceilings" /\ report \in StatusRec
    BY <1>0, <1>2, <1>5 DEF R!ListRunsInProgress
  <2>. DEFINE c == [report EXCEPT !.at = "pausing"]
  <2>2. report' = [c EXCEPT !.open = R!Lists(report.byID)]
    BY <1>5 DEF R!ListRunsInProgress
  <2>3. c \in StatusRec /\ c.at = "pausing" /\ c.steady = report.steady
    BY <2>1 DEF StatusRec
  <2>. HIDE DEF c
  <2>4. R!Lists(report.byID) \subseteq Job
    BY <2>1 DEF R!Lists, StatusRec
  <2>5. /\ report' \in StatusRec /\ report'.at = "pausing" /\ report'.steady = report.steady
        /\ report'.open = R!Lists(report.byID)
    BY <2>2, <2>3, <2>4 DEF StatusRec
  <2>6. \A j \in report.steady : j \in R!Lists(report.byID)
    BY <1>0, <2>1 DEF Listed, R!Lists
  <2>. QED
    BY <1>1, <1>2, <2>5, <2>6 DEF Listed, Shown
<1>6. ASSUME NEW j \in Job, R!Pauses(j) PROVE ReportsInv'
  <2>1. report.at = "pausing" /\ j \in report.open /\ report \in StatusRec
    BY <1>0, <1>2, <1>6 DEF R!Pauses
  <2>. DEFINE e == [job |-> j, stage |-> R!WithPaused(j)]
              c == [report EXCEPT !.open = @ \ {j}]
              q == Append(report.running, e)
  <2>2. report' = [c EXCEPT !.running = q]
    BY <1>6 DEF R!Pauses, Zenon
  <2>3. c \in StatusRec /\ c.at = "pausing" /\ c.steady = report.steady /\ c.open = report.open \ {j}
        /\ c.running = report.running
    BY <2>1 DEF StatusRec
  <2>. HIDE DEF c
  <2>4. e \in [job : Job, stage : Said] /\ e.job = j
    BY <1>0 DEF R!WithPaused, Recorded, Said
  <2>. HIDE DEF e
  <2>5. report.running \in Seq([job : Job, stage : Said])
    BY <2>1 DEF StatusRec
  <2>6. /\ q \in Seq([job : Job, stage : Said]) /\ Len(q) = Len(report.running) + 1
        /\ \A i \in DOMAIN report.running : i \in DOMAIN q /\ q[i] = report.running[i]
        /\ Len(q) \in DOMAIN q /\ q[Len(q)] = e
    BY <2>4, <2>5
  <2>. HIDE DEF q
  <2>7. /\ report' \in StatusRec /\ report'.at = "pausing" /\ report'.steady = report.steady
        /\ report'.open = report.open \ {j} /\ report'.running = q
    BY <2>2, <2>3, <2>6 DEF StatusRec
  <2>8. \A k \in report.steady :
          k \in report.open \/ \E i \in DOMAIN report.running : report.running[i].job = k
    BY <1>0, <2>1 DEF Listed
  <2>9. \A k \in report.steady : k \in report.open \ {j} \/ \E i \in DOMAIN q : q[i].job = k
    BY <2>4, <2>6, <2>8
  <2>. QED
    BY <1>1, <1>2, <2>7, <2>9 DEF Listed, Shown
<1>7. ASSUME NEW j \in Job, R!GetJob(j) PROVE ReportsInv'
  <2>. DEFINE v == R!NewestVerified(j)
  <2>1. report' = [at |-> "runs", job |-> j, row |-> jobRow[j], next |-> 0, checks |-> 0,
                   verified |-> v, kept |-> disk[j].branch]
    BY <1>7 DEF R!GetJob
  <2>2. v \in 0 .. Len(runs[j]) /\ (v # 0 => runs[j][v].verified)
    BY <1>0, Newest
  <2>. HIDE DEF v
  <2>3. jobRow[j] \in RowRec /\ disk[j].branch \in BOOLEAN /\ Len(runs[j]) \in Nat
    BY <1>0 DEF Recorded
  <2>4. report' \in ShowRec
    BY <2>1, <2>2, <2>3 DEF ShowRec
  <2>5. /\ report'.at = "runs" /\ report'.job = j /\ report'.checks = 0 /\ report'.verified = v
    BY <2>1
  <2>. QED
    BY <1>0, <1>1, <1>2, <2>2, <2>3, <2>4, <2>5 DEF Listed, Shown
<1>8. CASE R!ListRuns
  <2>1. report.at = "runs" /\ report \in ShowRec
    BY <1>0, <1>2, <1>8 DEF R!ListRuns
  <2>. DEFINE n == Len(runs[report.job])
              c == [report EXCEPT !.at = "checks"]
  <2>2. report' = [c EXCEPT !.next = n]
    BY <1>8 DEF R!ListRuns
  <2>3. report.job \in Job /\ n \in Nat
    BY <1>0, <2>1 DEF ShowRec, Recorded
  <2>. HIDE DEF n
  <2>4. c \in ShowRec /\ c.at = "checks" /\ c.job = report.job /\ c.checks = report.checks
        /\ c.verified = report.verified
    BY <2>1 DEF ShowRec
  <2>. HIDE DEF c
  <2>5. /\ report' \in ShowRec /\ report'.at = "checks" /\ report'.job = report.job
        /\ report'.checks = report.checks /\ report'.verified = report.verified
        /\ report'.next = n
    BY <2>2, <2>3, <2>4 DEF ShowRec
  <2>6. report.verified <= n /\ report.checks = 0
        /\ (report.verified # 0 => runs[report.job][report.verified].verified)
    BY <1>0, <2>1 DEF Shown, n
  <2>. QED
    BY <1>0, <1>1, <1>2, <2>3, <2>5, <2>6 DEF Listed, Shown, n
<1>9. CASE R!ListCheckResults
  <2>1. report.at = "checks" /\ report \in ShowRec /\ report.next > 0
    BY <1>0, <1>2, <1>9 DEF R!ListCheckResults
  <2>. DEFINE r == runs[report.job]
              n == report.next
  <2>2. /\ report.job \in Job /\ n \in Nat /\ report.verified \in Nat /\ report.checks \in Nat
        /\ Len(r) \in Nat
    BY <1>0, <2>1 DEF ShowRec, Recorded
  <2>3. /\ n <= Len(r) /\ report.checks = 0 /\ report.verified <= n /\ report.verified <= Len(r)
        /\ report.verified # 0 => r[report.verified].verified
    BY <1>0, <2>1, <2>2 DEF Shown
  <2>4. CASE r[n].verified
    <3>. DEFINE c == [report EXCEPT !.checks = n]
    <3>1. report' = [c EXCEPT !.next = 0]
      BY <1>9, <2>4 DEF R!ListCheckResults
    <3>2. c \in ShowRec /\ c.at = "checks" /\ c.job = report.job /\ c.checks = n
          /\ c.verified = report.verified
      BY <2>1, <2>2 DEF ShowRec
    <3>. HIDE DEF c
    <3>3. /\ report' \in ShowRec /\ report'.at = "checks" /\ report'.job = report.job
          /\ report'.checks = n /\ report'.verified = report.verified /\ report'.next = 0
      BY <3>1, <3>2 DEF ShowRec
    <3>. QED
      BY <1>0, <1>1, <1>2, <2>2, <2>3, <3>3 DEF Listed, Shown
  <2>5. CASE ~r[n].verified
    <3>1. report' = [report EXCEPT !.next = n - 1]
      BY <1>9, <2>5 DEF R!ListCheckResults, R!Before
    <3>2. report.verified <= n - 1 /\ n - 1 \in Nat
      BY <2>1, <2>2, <2>3, <2>5
    <3>3. /\ report' \in ShowRec /\ report'.at = "checks" /\ report'.job = report.job
          /\ report'.checks = report.checks /\ report'.verified = report.verified
          /\ report'.next = n - 1
      BY <2>1, <3>1, <3>2 DEF ShowRec
    <3>. QED
      BY <1>0, <1>1, <1>2, <2>2, <2>3, <3>2, <3>3 DEF Listed, Shown
  <2>. QED
    BY <2>4, <2>5
<1>. QED
  BY <1>3, <1>4, <1>5, <1>6, <1>7, <1>8, <1>9 DEF R!Reports

\* A step, or none, keeps the invariant.
LEMMA ReportsStay == ASSUME ReportsInv, [R!Next]_(R!vars) PROVE ReportsInv'
<1>1. CASE UNCHANGED R!vars
  BY <1>1 DEF R!vars, ReportsInv, Recorded, Listed, Shown, R!InProgress, R!Latest
<1>. QED
  BY <1>1, JobsKeep, ReadsKeep DEF R!Next

\* What stood all the while is reported, and no older checks than were there.
LEMMA StoodIsReported ==
  ASSUME ReportsInv
  PROVE  /\ R!Overview => \A j \in report.steady : \E i \in DOMAIN report.running :
                            report.running[i].job = j
         /\ R!Show => report.checks >= report.verified
<1>1. /\ \A x \in ShowRec : x.at \in {"runs", "checks"}
      /\ \A x \in StatusRec : x.at \in {"ceilings", "pausing"}
      /\ R!NoCall.at = "none" /\ report \in {R!NoCall} \cup StatusRec \cup ShowRec
  BY DEF StatusRec, ShowRec, R!NoCall, ReportsInv, Recorded
<1>2. CASE R!Overview
  BY <1>1, <1>2 DEF R!Overview, R!Show, ReportsInv, Listed
<1>3. CASE R!Show
  <2>1. report \in ShowRec /\ report.at = "checks" /\ report.next = 0
    BY <1>1, <1>3 DEF R!Show
  <2>2. report.checks \in Nat /\ report.verified \in Nat
    BY <2>1 DEF ShowRec
  <2>3. report.verified <= report.next \/ report.verified <= report.checks
    BY <2>1 DEF ReportsInv, Shown
  <2>4. ~R!Overview
    BY <1>3 DEF R!Overview, R!Show
  <2>. QED
    BY <2>1, <2>2, <2>3, <2>4
<1>. QED
  BY <1>2, <1>3

-----------------------------------------------------------------------------
(* The services beside one another.                                          *)

PartsInv == /\ DaemonInv /\ FilesInv /\ SetupInv /\ ProjectsInv /\ SecretsInv
            /\ SettingsInv /\ ReportsInv

\* Each of them moves by its own steps, or not at all.
LEMMA EachMovesAlone ==
  ASSUME [PartsNext]_allVars
  PROVE  /\ [Next]_vars /\ [D!Next]_(D!vars) /\ [P!Next]_(P!vars) /\ [T!Next]_(T!vars)
         /\ [F!Next]_(F!vars) /\ [U!Next]_(U!vars) /\ [R!Next]_(R!vars)
<1>. USE DEF PartsNext, allVars
<1>1. Next \/ UNCHANGED vars
  OBVIOUS
<1>2. D!Next \/ UNCHANGED D!vars
  BY DEF daemonVars, D!vars
<1>3. P!Next \/ UNCHANGED P!vars
  BY DEF projectVars, P!vars
<1>4. T!Next \/ UNCHANGED T!vars
  BY DEF settingVars, T!vars
<1>5. F!Next \/ UNCHANGED F!vars
  BY DEF fileVars, F!vars, F!grants, F!edits, F!bounds
<1>6. U!Next \/ UNCHANGED U!vars
  BY DEF setupVars, U!vars
<1>7. R!Next \/ UNCHANGED R!vars
  BY DEF reportVars, R!vars
<1>. QED
  BY <1>1, <1>2, <1>3, <1>4, <1>5, <1>6, <1>7

\* Whatever the services do beside one another, each keeps its invariant.
LEMMA PartsKept == PartsSpec => []PartsInv
<1>1. PartsInit => PartsInv
  BY DaemonBegins, FilesBegin, SetupBegins, ProjectsBegin, SecretsBegin, SettingsBegin, ReportsBegin
     DEF PartsInit, PartsInv
<1>2. PartsInv /\ [PartsNext]_allVars => PartsInv'
  BY EachMovesAlone, DaemonStays, FilesStay, SetupStays, ProjectsStay, SecretsStay, SettingsStay,
     ReportsStay DEF PartsInv
<1>. QED
  BY <1>1, <1>2, PTL DEF PartsSpec

\* What a user was told is so: an Account or provider that was added is there with its
\* secret, a name between calls has both halves or neither - unless its user was told
\* otherwise, the daemon died in a call, calls overlapped, or it is a half of the provider
\* that AddProvider tells nobody of (KeyIsTakenBack, KeyIsKept) - saved instructions read
\* back whole, and a machine that is ready has an Account and a program, for any number of
\* calls, editors and walkthroughs (account.go, chat.go, instructions.go, setup.go).
THEOREM ToldWasTrue == PartsSpec => []ToldIsTrue
<1>1. PartsInv => ToldIsTrue
  BY WhatWasAddedIsThere DEF PartsInv, ToldIsTrue, FilesInv, SetupInv, Held, Leads, U!ReadyIsTrue
<1>. QED
  BY <1>1, PartsKept, PTL

\* What goes by a name goes by one name: a daemon that returned leaves no socket unless it
\* died, and a Project's configuration is under the Project's name once no command is at it,
\* for any number of daemons and commands (daemon/run.go, project/project.go).
THEOREM NamesAreHeld == PartsSpec => []NamesHold
<1>1. PartsInv => D!LeavesNothing
  <2>1. \A p \in D!Pid : pc[p] = "off" /\ sock = p /\ DaemonInv => p \in crashed
    BY DEF DaemonInv, Homes
  <2>. QED
    BY <2>1 DEF PartsInv, D!LeavesNothing
<1>2. PartsInv => P!ConfigFollowsTheName
  BY FollowsTheName DEF PartsInv
<1>. QED
  BY <1>1, <1>2, PartsKept, PTL DEF NamesHold

\* No step takes what is not its own: a daemon whose start overlapped no other closes no
\* Run another daemon minds (of an Agent whose daemon was killed nothing is said), a rename,
\* undo or setup takes no configuration, a start no grant but the file's, and a save nothing
\* typed (daemon.go, project.go, claudecode.go, account_instructions.go).
THEOREM NothingOfOthersIsTaken == PartsSpec => TakesOnlyItsOwn
<1>1. PartsInv /\ [PartsNext]_allVars =>
        [~raced => \A j \in active : carrier[j] # 0 => j \in active' \/ carrier'[j] = 0]_(D!vars)
  BY EachMovesAlone, LeavesTheMinded DEF PartsInv
<1>2. PartsInv /\ [PartsNext]_allVars =>
        [\A n \in Name : dir[n] # 0 => \E m \in Name : dir'[m] = dir[n]]_(P!vars)
  BY EachMovesAlone, NothingIsOverwritten DEF PartsInv
<1>3. PartsInv /\ [PartsNext]_allVars =>
        [/\ F!Owl /\ settings' # settings => settings = "absent"
         /\ \A s \in Starts : grant'[s] # grant[s] => grant'[s] = settings']_(F!vars)
  BY EachMovesAlone, GrantedAsWritten DEF PartsInv
<1>4. PartsInv /\ [PartsNext]_allVars =>
        [\A e \in Editors :
           /\ answer'[e] \in {"refused", "lost"} => draft'[e] = typed'[e]
           /\ draft[e] # F!Absent /\ draft'[e] = F!Absent /\ edit[e] # "open"
                => file' = IF typed[e] = F!Absent THEN F!Absent ELSE F!Ended(typed[e])]_(F!vars)
  BY EachMovesAlone, TypedStays DEF PartsInv
<1>5. PartsSpec => D!RecoversNobodysRun
  BY <1>1, PartsKept, PTL DEF PartsSpec, D!RecoversNobodysRun
<1>6. PartsSpec => P!NothingWrittenIsLost
  BY <1>2, PartsKept, PTL DEF PartsSpec, P!NothingWrittenIsLost
<1>7. PartsSpec => F!GrantIsTheFiles
  BY <1>3, PartsKept, PTL DEF PartsSpec, F!GrantIsTheFiles
<1>8. PartsSpec => F!NothingTypedIsLost
  BY <1>4, PartsKept, PTL DEF PartsSpec, F!NothingTypedIsLost
<1>. QED
  BY <1>5, <1>6, <1>7, <1>8 DEF TakesOnlyItsOwn

\* Every key of a phase comes from the narrowest level that says anything of it, only the
\* two values the code takes and no tool does cost an attempt, and a report leaves out
\* nothing that stood while it was read (config/config.go, run/run.go, run/dispose.go).
THEOREM RunsAsItWasSet == PartsSpec => AsItWasSet
<1>1. PartsInv /\ [PartsNext]_allVars =>
        [phase = "waiting" /\ phase' = "opened" =>
           \A k \in T!PhaseKeys :
             run'[k] = IF T!Narrowest(k) = 0 THEN T!Defaults[k]
                       ELSE [value |-> T!Level[T!Narrowest(k)][k],
                             from |-> T!Named[T!Narrowest(k)]]]_(T!vars)
  BY EachMovesAlone, ResolvesTheNarrowest
<1>2. PartsInv /\ [PartsNext]_allVars =>
        [spent' > spent => run["model"].value = "foreign" \/ tool = "dashed"]_(T!vars)
  BY EachMovesAlone, OnlyTheseAreSpent DEF PartsInv
<1>3. PartsInv /\ [PartsNext]_allVars =>
        [/\ R!Overview => \A j \in report.steady : \E i \in DOMAIN report.running :
                             report.running[i].job = j
         /\ R!Show => report.checks >= report.verified]_(R!vars)
  BY StoodIsReported DEF PartsInv
<1>4. PartsSpec => T!RunsAtTheNarrowest
  BY <1>1, PartsKept, PTL DEF PartsSpec, T!RunsAtTheNarrowest
<1>5. PartsSpec => T!RefusedWhereWritten
  BY <1>2, PartsKept, PTL DEF PartsSpec, T!RefusedWhereWritten
<1>6. PartsSpec => R!WhatStoodIsReported
  BY <1>3, PartsKept, PTL DEF PartsSpec, R!WhatStoodIsReported
<1>. QED
  BY <1>4, <1>5, <1>6 DEF AsItWasSet
===============================================================================
