-------------------------- MODULE StoreAccessProofs --------------------------
(***************************************************************************)
(* Proofs about who writes in a crawl file, for any number of processes,    *)
(* files and sessions: a process that writes is alone in its file, though   *)
(* files are moved and paths outlive them.                                  *)
(***************************************************************************)
EXTENDS StoreAccess, TLAPS

(* The variables, without what relates them.                                *)
VarTypes ==
  /\ at \in [Paths -> Files \cup {None}]
  /\ wal \in [Paths -> Files \cup {None}]
  /\ lock \in [Paths -> Procs \cup {NoProc}]
  /\ created \in 0..MaxFiles
  /\ status \in [Files -> {"none", "running", "paused", "done"}]
  /\ version \in [Files -> Nat]
  /\ pc \in [Procs -> {"idle"} \cup Starting \cup Writing]
  /\ path \in [Procs -> Paths]
  /\ plan \in [Procs -> [file : Files \cup {None}, version : Nat]]
  /\ open \in [Procs -> Files \cup {None}]

(* Whoever rotates or writes holds the lock of its path.                    *)
LockInv ==
  \A q \in Procs : pc[q] \in {"rotate", "move", "movewal", "begin"} \cup Writing => lock[path[q]] = q

(* Only who writes has a file open.                                         *)
OpenInv == \A q \in Procs : open[q] # None <=> pc[q] \in Writing

(* Who rotates, and who starts a crawl without a plan, is on the default    *)
(* path.                                                                    *)
PathInv ==
  \A q \in Procs :
    /\ pc[q] \in {"rotate", "move", "movewal", "rotated"} => path[q] = "store"
    /\ pc[q] = "begin" /\ plan[q] = NoPlan => path[q] = "store"
    /\ pc[q] = "planned" => plan[q].file # None

(* Files are known by their number, and no path shares its file; the file   *)
(* of the default path is of nobody who writes in the backup.               *)
FileInv ==
  /\ \A p \in Paths : at[p] <= created
  /\ \A q \in Procs : open[q] <= created
  /\ at["store"] # None => at["store"] # at["prev"]
  /\ \A q \in Procs : pc[q] \in Writing /\ path[q] = "prev" => open[q] # at["store"]

(* All that keeps two writers apart.                                        *)
AccessInv == VarTypes /\ LockInv /\ OpenInv /\ PathInv /\ FileInv /\ StoreStays

(* The type invariant of the runs relates a lock and a file to who has it.  *)
LEMMA TypesSplit == TypeOK <=> VarTypes /\ LockInv /\ OpenInv
BY DEF TypeOK, VarTypes, LockInv, OpenInv

(* Nothing is open and no file exists when the first command starts.        *)
LEMMA AccessInit == Init => AccessInv
BY ProcsAssumption DEF Init, AccessInv, VarTypes, LockInv, OpenInv, PathInv, FileInv, StoreStays, Paths, Files, None, NoPlan, Starting, Writing

(* A crawl that is about to set the previous one aside.                     *)
LEMMA RotateUnlessLiveKeeps == ASSUME AccessInv, NEW q \in Procs, RotateUnlessLive(q) PROVE AccessInv'
<1> USE ProcsAssumption DEF Paths, Files, None, Starting, Writing
<1>1. VarTypes'
  BY DEF AccessInv, VarTypes, NoPlan, RotateUnlessLive, Go, Acquire, dirVars, fileVars
<1>2. LockInv'
  BY DEF AccessInv, VarTypes, LockInv, RotateUnlessLive, Go, Acquire, dirVars, fileVars
<1>3. OpenInv'
  BY DEF AccessInv, VarTypes, OpenInv, RotateUnlessLive, Go, Acquire, dirVars, fileVars
<1>4. PathInv'
  BY DEF AccessInv, VarTypes, PathInv, NoPlan, RotateUnlessLive, Go, Acquire, dirVars, fileVars
<1>5. FileInv'
  BY DEF AccessInv, VarTypes, LockInv, OpenInv, PathInv, FileInv, NoPlan, RotateUnlessLive, Go, Acquire, dirVars, fileVars
<1>6. StoreStays'
  BY DEF AccessInv, VarTypes, LockInv, OpenInv, PathInv, StoreStays, NoPlan, RotateUnlessLive, Go, Acquire, dirVars, fileVars
<1> QED
  BY <1>1, <1>2, <1>3, <1>4, <1>5, <1>6 DEF AccessInv

(* A crawl that finds no file to set aside.                                 *)
LEMMA NothingToRotateKeeps == ASSUME AccessInv, NEW q \in Procs, NothingToRotate(q) PROVE AccessInv'
<1> USE ProcsAssumption DEF Paths, Files, None, Starting, Writing
<1>1. VarTypes'
  BY DEF AccessInv, VarTypes, NoPlan, NothingToRotate, Go, Release, dirVars, fileVars
<1>2. LockInv'
  BY DEF AccessInv, VarTypes, LockInv, PathInv, NothingToRotate, Go, Release, dirVars, fileVars
<1>3. OpenInv'
  BY DEF AccessInv, VarTypes, OpenInv, NothingToRotate, Go, Release, dirVars, fileVars
<1>4. PathInv'
  BY DEF AccessInv, VarTypes, PathInv, NoPlan, NothingToRotate, Go, Release, dirVars, fileVars
<1>5. FileInv'
  BY DEF AccessInv, VarTypes, LockInv, OpenInv, PathInv, FileInv, NoPlan, NothingToRotate, Go, Release, dirVars, fileVars
<1>6. StoreStays'
  BY DEF AccessInv, VarTypes, LockInv, OpenInv, PathInv, StoreStays, NoPlan, NothingToRotate, Go, Release, dirVars, fileVars
<1> QED
  BY <1>1, <1>2, <1>3, <1>4, <1>5, <1>6 DEF AccessInv

(* The backup goes, with its sidecars.                                      *)
LEMMA RemoveBackupKeeps == ASSUME AccessInv, NEW q \in Procs, RemoveBackup(q) PROVE AccessInv'
<1> USE ProcsAssumption DEF Paths, Files, None, Starting, Writing
<1>1. VarTypes'
  BY DEF AccessInv, VarTypes, NoPlan, RemoveBackup, Go, fileVars
<1>2. LockInv'
  BY DEF AccessInv, VarTypes, LockInv, RemoveBackup, Go, fileVars
<1>3. OpenInv'
  BY DEF AccessInv, VarTypes, OpenInv, RemoveBackup, Go, fileVars
<1>4. PathInv'
  BY DEF AccessInv, VarTypes, PathInv, NoPlan, RemoveBackup, Go, fileVars
<1>5. FileInv'
  BY DEF AccessInv, VarTypes, LockInv, OpenInv, PathInv, FileInv, NoPlan, RemoveBackup, Go, fileVars
<1>6. StoreStays'
  BY DEF AccessInv, VarTypes, LockInv, OpenInv, PathInv, StoreStays, NoPlan, RemoveBackup, Go, fileVars
<1> QED
  BY <1>1, <1>2, <1>3, <1>4, <1>5, <1>6 DEF AccessInv

(* The file becomes the backup.                                             *)
LEMMA MoveStoreKeeps == ASSUME AccessInv, NEW q \in Procs, MoveStore(q) PROVE AccessInv'
<1> USE ProcsAssumption DEF Paths, Files, None, Starting, Writing
<1>1. VarTypes'
  BY DEF AccessInv, VarTypes, NoPlan, MoveStore, Go, fileVars
<1>2. LockInv'
  BY DEF AccessInv, VarTypes, LockInv, MoveStore, Go, fileVars
<1>3. OpenInv'
  BY DEF AccessInv, VarTypes, OpenInv, MoveStore, Go, fileVars
<1>4. PathInv'
  BY DEF AccessInv, VarTypes, PathInv, NoPlan, MoveStore, Go, fileVars
<1>5. FileInv'
  BY DEF AccessInv, VarTypes, LockInv, OpenInv, PathInv, FileInv, NoPlan, MoveStore, Go, fileVars
<1>6. StoreStays'
  BY DEF AccessInv, VarTypes, LockInv, OpenInv, PathInv, StoreStays, NoPlan, MoveStore, Go, fileVars
<1> QED
  BY <1>1, <1>2, <1>3, <1>4, <1>5, <1>6 DEF AccessInv

(* And its sidecars follow.                                                 *)
LEMMA MoveSidecarsKeeps == ASSUME AccessInv, NEW q \in Procs, MoveSidecars(q) PROVE AccessInv'
<1> USE ProcsAssumption DEF Paths, Files, None, Starting, Writing
<1>1. VarTypes'
  BY DEF AccessInv, VarTypes, NoPlan, MoveSidecars, Go, Release, fileVars
<1>2. LockInv'
  BY DEF AccessInv, VarTypes, LockInv, PathInv, MoveSidecars, Go, Release, fileVars
<1>3. OpenInv'
  BY DEF AccessInv, VarTypes, OpenInv, MoveSidecars, Go, Release, fileVars
<1>4. PathInv'
  BY DEF AccessInv, VarTypes, PathInv, NoPlan, MoveSidecars, Go, Release, fileVars
<1>5. FileInv'
  BY DEF AccessInv, VarTypes, LockInv, OpenInv, PathInv, FileInv, NoPlan, MoveSidecars, Go, Release, fileVars
<1>6. StoreStays'
  BY DEF AccessInv, VarTypes, LockInv, OpenInv, PathInv, StoreStays, NoPlan, MoveSidecars, Go, Release, fileVars
<1> QED
  BY <1>1, <1>2, <1>3, <1>4, <1>5, <1>6 DEF AccessInv

(* A resume that finds its file free.                                       *)
LEMMA ProbeLockKeeps == ASSUME AccessInv, NEW q \in Procs, ProbeLock(q) PROVE AccessInv'
<1> USE ProcsAssumption DEF Paths, Files, None, Starting, Writing
<1>1. VarTypes'
  BY DEF AccessInv, VarTypes, NoPlan, ProbeLock, Go, dirVars, fileVars
<1>2. LockInv'
  BY DEF AccessInv, VarTypes, LockInv, ProbeLock, Go, dirVars, fileVars
<1>3. OpenInv'
  BY DEF AccessInv, VarTypes, OpenInv, ProbeLock, Go, dirVars, fileVars
<1>4. PathInv'
  BY DEF AccessInv, VarTypes, PathInv, NoPlan, ProbeLock, Go, dirVars, fileVars
<1>5. FileInv'
  BY DEF AccessInv, VarTypes, LockInv, OpenInv, PathInv, FileInv, NoPlan, ProbeLock, Go, dirVars, fileVars
<1>6. StoreStays'
  BY DEF AccessInv, VarTypes, LockInv, OpenInv, PathInv, StoreStays, NoPlan, ProbeLock, Go, dirVars, fileVars
<1> QED
  BY <1>1, <1>2, <1>3, <1>4, <1>5, <1>6 DEF AccessInv

(* A resume that has read what is pending.                                  *)
LEMMA ReadPlanKeeps == ASSUME AccessInv, NEW q \in Procs, ReadPlan(q) PROVE AccessInv'
<1> USE ProcsAssumption DEF Paths, Files, None, Starting, Writing
<1>1. VarTypes'
  BY DEF AccessInv, VarTypes, NoPlan, ReadPlan, Go, dirVars, fileVars
<1>2. LockInv'
  BY DEF AccessInv, VarTypes, LockInv, ReadPlan, Go, dirVars, fileVars
<1>3. OpenInv'
  BY DEF AccessInv, VarTypes, OpenInv, ReadPlan, Go, dirVars, fileVars
<1>4. PathInv'
  BY DEF AccessInv, VarTypes, PathInv, NoPlan, ReadPlan, Go, dirVars, fileVars
<1>5. FileInv'
  BY DEF AccessInv, VarTypes, LockInv, OpenInv, PathInv, FileInv, NoPlan, ReadPlan, Go, dirVars, fileVars
<1>6. StoreStays'
  BY DEF AccessInv, VarTypes, LockInv, OpenInv, PathInv, StoreStays, NoPlan, ReadPlan, Go, dirVars, fileVars
<1> QED
  BY <1>1, <1>2, <1>3, <1>4, <1>5, <1>6 DEF AccessInv

(* The engine keeps the lock of the path.                                   *)
LEMMA TakeLockKeeps == ASSUME AccessInv, NEW q \in Procs, TakeLock(q) PROVE AccessInv'
<1> USE ProcsAssumption DEF Paths, Files, None, Starting, Writing
<1>1. VarTypes'
  BY DEF AccessInv, VarTypes, NoPlan, TakeLock, Go, Acquire, dirVars, fileVars
<1>2. LockInv'
  BY DEF AccessInv, VarTypes, LockInv, TakeLock, Go, Acquire, dirVars, fileVars
<1>3. OpenInv'
  BY DEF AccessInv, VarTypes, OpenInv, TakeLock, Go, Acquire, dirVars, fileVars
<1>4. PathInv'
  BY DEF AccessInv, VarTypes, PathInv, NoPlan, TakeLock, Go, Acquire, dirVars, fileVars
<1>5. FileInv'
  BY DEF AccessInv, VarTypes, LockInv, OpenInv, PathInv, FileInv, NoPlan, TakeLock, Go, Acquire, dirVars, fileVars
<1>6. StoreStays'
  BY DEF AccessInv, VarTypes, LockInv, OpenInv, PathInv, StoreStays, NoPlan, TakeLock, Go, Acquire, dirVars, fileVars
<1> QED
  BY <1>1, <1>2, <1>3, <1>4, <1>5, <1>6 DEF AccessInv

(* A new file, for a crawl.                                                 *)
LEMMA CreateFileKeeps == ASSUME AccessInv, NEW q \in Procs, CreateFile(q) PROVE AccessInv'
<1> USE ProcsAssumption DEF Paths, Files, None, Starting, Writing
<1>0. created + 1 \in Files /\ path[q] = "store" /\ \A p \in Paths : at[p] \in Nat
  BY DEF AccessInv, VarTypes, PathInv, CreateFile, StartWriting, Go
<1>1. VarTypes'
  BY <1>0 DEF AccessInv, VarTypes, NoPlan, CreateFile, Go, StartWriting
<1>2. LockInv'
  BY <1>0 DEF AccessInv, VarTypes, LockInv, CreateFile, Go, StartWriting
<1>3. OpenInv'
  BY <1>0 DEF AccessInv, VarTypes, OpenInv, CreateFile, Go, StartWriting
<1>4. PathInv'
  BY <1>0 DEF AccessInv, VarTypes, PathInv, NoPlan, CreateFile, Go, StartWriting
<1>5. FileInv'
  <2>1. /\ at' = [at EXCEPT !["store"] = created + 1] /\ created' = created + 1
        /\ open' = [open EXCEPT ![q] = created + 1] /\ pc' = [pc EXCEPT ![q] = "writing"] /\ path' = path
    BY DEF CreateFile, StartWriting, Go
  <2>2. created \in Nat /\ (\A r \in Procs : open[r] \in Nat /\ open[r] <= created) /\ at["prev"] \in Nat /\ at["prev"] <= created
    BY DEF AccessInv, VarTypes, FileInv
  <2>3. \A p \in Paths : at'[p] <= created'
    BY <2>1, <2>2 DEF AccessInv, VarTypes
  <2>4. \A r \in Procs : open'[r] <= created'
    BY <2>1, <2>2 DEF AccessInv, VarTypes
  <2>5. at'["store"] # at'["prev"]
    BY <2>1, <2>2 DEF AccessInv, VarTypes
  <2>6. ASSUME NEW r \in Procs, pc'[r] \in Writing, path'[r] = "prev" PROVE open'[r] # at'["store"]
    <3>1. r # q
      BY <1>0, <2>1, <2>6
    <3>2. open'[r] = open[r] /\ at'["store"] = created + 1
      BY <2>1, <3>1 DEF AccessInv, VarTypes
    <3> QED
      BY <2>2, <3>2
  <2> QED
    BY <2>3, <2>4, <2>5, <2>6 DEF FileInv
<1>6. StoreStays'
  BY <1>0 DEF AccessInv, VarTypes, LockInv, OpenInv, PathInv, StoreStays, NoPlan, CreateFile, Go, StartWriting
<1> QED
  BY <1>1, <1>2, <1>3, <1>4, <1>5, <1>6 DEF AccessInv

(* A crawl that finds a file after all.                                     *)
LEMMA OpenExistingKeeps == ASSUME AccessInv, NEW q \in Procs, OpenExisting(q) PROVE AccessInv'
<1> USE ProcsAssumption DEF Paths, Files, None, Starting, Writing
<1>1. VarTypes'
  BY DEF AccessInv, VarTypes, NoPlan, OpenExisting, Go, StartWriting
<1>2. LockInv'
  BY DEF AccessInv, VarTypes, LockInv, OpenExisting, Go, StartWriting
<1>3. OpenInv'
  BY DEF AccessInv, VarTypes, OpenInv, OpenExisting, Go, StartWriting
<1>4. PathInv'
  BY DEF AccessInv, VarTypes, PathInv, NoPlan, OpenExisting, Go, StartWriting
<1>5. FileInv'
  BY DEF AccessInv, VarTypes, LockInv, OpenInv, PathInv, FileInv, NoPlan, OpenExisting, Go, StartWriting
<1>6. StoreStays'
  BY DEF AccessInv, VarTypes, LockInv, OpenInv, PathInv, StoreStays, NoPlan, OpenExisting, Go, StartWriting
<1> QED
  BY <1>1, <1>2, <1>3, <1>4, <1>5, <1>6 DEF AccessInv

(* A resume that opens its file.                                            *)
LEMMA OpenToResumeKeeps == ASSUME AccessInv, NEW q \in Procs, OpenToResume(q) PROVE AccessInv'
<1> USE ProcsAssumption DEF Paths, Files, None, Starting, Writing
<1>0. at[path[q]] \in Files /\ path[q] \in Paths
  BY DEF AccessInv, VarTypes, OpenToResume
<1>1. VarTypes'
  <2>1. wal' \in [Paths -> Files \cup {None}] /\ open' \in [Procs -> Files \cup {None}]
    BY <1>0 DEF AccessInv, VarTypes, OpenToResume, StartWriting
  <2>2. status' \in [Files -> {"none", "running", "paused", "done"}]
    BY <1>0 DEF AccessInv, VarTypes, OpenToResume, StartWriting
  <2>3. version' \in [Files -> Nat]
    BY <1>0 DEF AccessInv, VarTypes, OpenToResume, StartWriting
  <2>4. pc' \in [Procs -> {"idle"} \cup Starting \cup Writing]
    BY DEF AccessInv, VarTypes, OpenToResume, StartWriting, Go
  <2> QED
    BY <2>1, <2>2, <2>3, <2>4 DEF AccessInv, VarTypes, OpenToResume, StartWriting
<1>2. LockInv'
  BY <1>0 DEF AccessInv, VarTypes, LockInv, OpenToResume, Go, StartWriting
<1>3. OpenInv'
  BY <1>0 DEF AccessInv, VarTypes, OpenInv, OpenToResume, Go, StartWriting
<1>4. PathInv'
  BY <1>0 DEF AccessInv, VarTypes, PathInv, NoPlan, OpenToResume, Go, StartWriting
<1>5. FileInv'
  <2>1. /\ open' = [open EXCEPT ![q] = at[path[q]]] /\ pc' = [pc EXCEPT ![q] = "writing"]
        /\ pc[q] = "begin" /\ UNCHANGED <<path, created, at>> /\ at[path[q]] # None
    BY DEF OpenToResume, StartWriting, Go
  <2>2. \A p \in Paths : at'[p] <= created'
    BY <2>1 DEF AccessInv, FileInv
  <2>3. \A r \in Procs : open'[r] <= created'
    BY <1>0, <2>1 DEF AccessInv, VarTypes, FileInv
  <2>4. at'["store"] # None => at'["store"] # at'["prev"]
    BY <2>1 DEF AccessInv, FileInv
  <2>5. ASSUME NEW r \in Procs, pc'[r] \in Writing, path'[r] = "prev"
        PROVE  open'[r] # at'["store"]
    <3>1. CASE r = q
      BY <1>0, <2>1, <2>5, <3>1 DEF AccessInv, VarTypes, FileInv
    <3>2. CASE r # q
      BY <2>1, <2>5, <3>2 DEF AccessInv, VarTypes, FileInv
    <3> QED
      BY <3>1, <3>2
  <2> QED
    BY <2>2, <2>3, <2>4, <2>5 DEF FileInv
<1>6. StoreStays'
  BY <1>0 DEF AccessInv, VarTypes, LockInv, OpenInv, PathInv, StoreStays, NoPlan, OpenToResume, Go, StartWriting
<1> QED
  BY <1>1, <1>2, <1>3, <1>4, <1>5, <1>6 DEF AccessInv

(* The final pass, that opens the file by its path.                         *)
LEMMA ReopenForFinalPassKeeps == ASSUME AccessInv, NEW q \in Procs, ReopenForFinalPass(q) PROVE AccessInv'
<1> USE ProcsAssumption DEF Paths, Files, None, Starting, Writing
<1>1. VarTypes'
  BY DEF AccessInv, VarTypes, NoPlan, ReopenForFinalPass, Go, dirVars, fileVars
<1>2. LockInv'
  BY DEF AccessInv, VarTypes, LockInv, ReopenForFinalPass, Go, dirVars, fileVars
<1>3. OpenInv'
  BY DEF AccessInv, VarTypes, OpenInv, ReopenForFinalPass, Go, dirVars, fileVars
<1>4. PathInv'
  BY DEF AccessInv, VarTypes, PathInv, NoPlan, ReopenForFinalPass, Go, dirVars, fileVars
<1>5. FileInv'
  BY DEF AccessInv, VarTypes, LockInv, OpenInv, PathInv, FileInv, NoPlan, ReopenForFinalPass, Go, dirVars, fileVars
<1>6. StoreStays'
  BY DEF AccessInv, VarTypes, LockInv, OpenInv, PathInv, StoreStays, NoPlan, ReopenForFinalPass, Go, dirVars, fileVars
<1> QED
  BY <1>1, <1>2, <1>3, <1>4, <1>5, <1>6 DEF AccessInv

(* A command whose file is gone.                                            *)
LEMMA FileGoneKeeps == ASSUME AccessInv, NEW q \in Procs, FileGone(q) PROVE AccessInv'
<1> USE ProcsAssumption DEF Paths, Files, None, Starting, Writing
<1>1. VarTypes'
  BY DEF AccessInv, VarTypes, NoPlan, FileGone, Leave, dirVars, fileVars
<1>2. LockInv'
  BY DEF AccessInv, VarTypes, LockInv, FileGone, Leave, dirVars, fileVars
<1>3. OpenInv'
  BY DEF AccessInv, VarTypes, OpenInv, FileGone, Leave, dirVars, fileVars
<1>4. PathInv'
  BY DEF AccessInv, VarTypes, PathInv, NoPlan, FileGone, Leave, dirVars, fileVars
<1>5. FileInv'
  BY DEF AccessInv, VarTypes, LockInv, OpenInv, PathInv, FileInv, NoPlan, FileGone, Leave, dirVars, fileVars
<1>6. StoreStays'
  BY DEF AccessInv, VarTypes, LockInv, OpenInv, PathInv, StoreStays, NoPlan, FileGone, Leave, dirVars, fileVars
<1> QED
  BY <1>1, <1>2, <1>3, <1>4, <1>5, <1>6 DEF AccessInv

(* A session that ends.                                                     *)
LEMMA CloseKeeps == ASSUME AccessInv, NEW q \in Procs, Close(q) PROVE AccessInv'
<1> USE ProcsAssumption DEF Paths, Files, None, Starting, Writing
<1>0. open[q] \in Files
  BY DEF AccessInv, VarTypes, OpenInv, Close
<1>1. VarTypes'
  <2>1. wal' \in [Paths -> Files \cup {None}] /\ path[q] \in Paths
    BY DEF AccessInv, VarTypes, Close, Leave
  <2>2. status' \in [Files -> {"none", "running", "paused", "done"}]
    BY <1>0 DEF AccessInv, VarTypes, Close
  <2>3. version' \in [Files -> Nat]
    BY <1>0 DEF AccessInv, VarTypes, Close
  <2>4. pc' \in [Procs -> {"idle"} \cup Starting \cup Writing] /\ open' \in [Procs -> Files \cup {None}]
    BY DEF AccessInv, VarTypes, Close, Leave
  <2>5. plan' \in [Procs -> [file : Files \cup {None}, version : Nat]] /\ lock' \in [Paths -> Procs \cup {NoProc}]
    BY DEF AccessInv, VarTypes, Close, Leave, NoPlan
  <2> QED
    BY <2>1, <2>2, <2>3, <2>4, <2>5 DEF AccessInv, VarTypes, Close, Leave
<1>2. LockInv'
  BY <1>0 DEF AccessInv, VarTypes, LockInv, Close, Leave
<1>3. OpenInv'
  BY <1>0 DEF AccessInv, VarTypes, OpenInv, Close, Leave
<1>4. PathInv'
  BY <1>0 DEF AccessInv, VarTypes, PathInv, NoPlan, Close, Leave
<1>5. FileInv'
  BY <1>0 DEF AccessInv, VarTypes, LockInv, OpenInv, PathInv, FileInv, NoPlan, Close, Leave
<1>6. StoreStays'
  BY <1>0 DEF AccessInv, VarTypes, LockInv, OpenInv, PathInv, StoreStays, NoPlan, Close, Leave
<1> QED
  BY <1>1, <1>2, <1>3, <1>4, <1>5, <1>6 DEF AccessInv

(* A command that dies.                                                     *)
LEMMA DieKeeps == ASSUME AccessInv, NEW q \in Procs, Die(q) PROVE AccessInv'
<1> USE ProcsAssumption DEF Paths, Files, None, Starting, Writing
<1>1. VarTypes'
  BY DEF AccessInv, VarTypes, NoPlan, Die, Leave, dirVars, fileVars
<1>2. LockInv'
  BY DEF AccessInv, VarTypes, LockInv, Die, Leave, dirVars, fileVars
<1>3. OpenInv'
  BY DEF AccessInv, VarTypes, OpenInv, Die, Leave, dirVars, fileVars
<1>4. PathInv'
  BY DEF AccessInv, VarTypes, PathInv, NoPlan, Die, Leave, dirVars, fileVars
<1>5. FileInv'
  BY DEF AccessInv, VarTypes, LockInv, OpenInv, PathInv, FileInv, NoPlan, Die, Leave, dirVars, fileVars
<1>6. StoreStays'
  BY DEF AccessInv, VarTypes, LockInv, OpenInv, PathInv, StoreStays, NoPlan, Die, Leave, dirVars, fileVars
<1> QED
  BY <1>1, <1>2, <1>3, <1>4, <1>5, <1>6 DEF AccessInv

-----------------------------------------------------------------------------
(* The rotation.  The file of the default path is the newest one, which is  *)
(* at one of the two paths; and a -wal is beside its own file, also in the  *)
(* middle of a rotation and after one that was cut.                         *)
(* A -wal is beside its own file.                                           *)
WalInv == \A p \in Paths : at[p] # None => wal[p] \in {None, at[p]}

(* Between two moves of a rotation.                                         *)
MovingInv ==
  \A q \in Procs :
    /\ pc[q] = "move" => at["store"] # None /\ at["prev"] = None /\ wal["prev"] = None
    /\ pc[q] = "movewal" => at["store"] = None /\ wal["store"] \in {None, at["prev"]}

(* The newest file is at the default path, or nothing is.                   *)
NewestInv == at["store"] # None => at["store"] = created

(* All that a rotation keeps, however far it got.                           *)
RotationInv == NewestInv /\ LastCrawlKept /\ WalInv /\ MovingInv

(* No file exists when the first command starts.                            *)
LEMMA RotationInit == Init => RotationInv
BY DEF Init, RotationInv, NewestInv, LastCrawlKept, WalInv, MovingInv, Paths, None

(* A crawl that is about to set the previous one aside.                     *)
LEMMA RotateUnlessLiveRotates == ASSUME AccessInv, RotationInv, NEW q \in Procs, RotateUnlessLive(q) PROVE RotationInv'
<1> USE ProcsAssumption DEF Paths, Files, None, Starting, Writing
<1>1. NewestInv'
  BY DEF RotationInv, NewestInv, MovingInv, AccessInv, VarTypes, PathInv, RotateUnlessLive, Go, Acquire, dirVars, fileVars
<1>2. LastCrawlKept'
  BY DEF RotationInv, NewestInv, LastCrawlKept, MovingInv, AccessInv, VarTypes, PathInv, RotateUnlessLive, Go, Acquire, dirVars, fileVars
<1>3. WalInv'
  BY DEF RotationInv, WalInv, MovingInv, AccessInv, VarTypes, LockInv, PathInv, FileInv, NoPlan, RotateUnlessLive, Go, Acquire, dirVars, fileVars
<1>4. MovingInv'
  BY DEF RotationInv, WalInv, MovingInv, AccessInv, VarTypes, LockInv, PathInv, NoPlan, RotateUnlessLive, Go, Acquire, dirVars, fileVars
<1> QED
  BY <1>1, <1>2, <1>3, <1>4 DEF RotationInv

(* A crawl that finds no file to set aside.                                 *)
LEMMA NothingToRotateRotates == ASSUME AccessInv, RotationInv, NEW q \in Procs, NothingToRotate(q) PROVE RotationInv'
<1> USE ProcsAssumption DEF Paths, Files, None, Starting, Writing
<1>1. NewestInv'
  BY DEF RotationInv, NewestInv, MovingInv, AccessInv, VarTypes, PathInv, NothingToRotate, Go, Release, dirVars, fileVars
<1>2. LastCrawlKept'
  BY DEF RotationInv, NewestInv, LastCrawlKept, MovingInv, AccessInv, VarTypes, PathInv, NothingToRotate, Go, Release, dirVars, fileVars
<1>3. WalInv'
  BY DEF RotationInv, WalInv, MovingInv, AccessInv, VarTypes, LockInv, PathInv, FileInv, NoPlan, NothingToRotate, Go, Release, dirVars, fileVars
<1>4. MovingInv'
  BY DEF RotationInv, WalInv, MovingInv, AccessInv, VarTypes, LockInv, PathInv, NoPlan, NothingToRotate, Go, Release, dirVars, fileVars
<1> QED
  BY <1>1, <1>2, <1>3, <1>4 DEF RotationInv

(* The backup goes, with its sidecars.                                      *)
LEMMA RemoveBackupRotates == ASSUME AccessInv, RotationInv, NEW q \in Procs, RemoveBackup(q) PROVE RotationInv'
<1> USE ProcsAssumption DEF Paths, Files, None, Starting, Writing
<1>1. NewestInv'
  BY DEF RotationInv, NewestInv, MovingInv, AccessInv, VarTypes, PathInv, RemoveBackup, Go, fileVars
<1>2. LastCrawlKept'
  BY DEF RotationInv, NewestInv, LastCrawlKept, MovingInv, AccessInv, VarTypes, PathInv, RemoveBackup, Go, fileVars
<1>3. WalInv'
  BY DEF RotationInv, WalInv, MovingInv, AccessInv, VarTypes, LockInv, PathInv, FileInv, NoPlan, RemoveBackup, Go, fileVars
<1>4. MovingInv'
  BY DEF RotationInv, WalInv, MovingInv, AccessInv, VarTypes, LockInv, PathInv, NoPlan, RemoveBackup, Go, fileVars
<1> QED
  BY <1>1, <1>2, <1>3, <1>4 DEF RotationInv

(* The file becomes the backup.                                             *)
LEMMA MoveStoreRotates == ASSUME AccessInv, RotationInv, NEW q \in Procs, MoveStore(q) PROVE RotationInv'
<1> USE ProcsAssumption DEF Paths, Files, None, Starting, Writing
<1>1. NewestInv'
  BY DEF RotationInv, NewestInv, MovingInv, AccessInv, VarTypes, PathInv, MoveStore, Go, fileVars
<1>2. LastCrawlKept'
  BY DEF RotationInv, NewestInv, LastCrawlKept, MovingInv, AccessInv, VarTypes, PathInv, MoveStore, Go, fileVars
<1>3. WalInv'
  BY DEF RotationInv, WalInv, MovingInv, AccessInv, VarTypes, LockInv, PathInv, FileInv, NoPlan, MoveStore, Go, fileVars
<1>4. MovingInv'
  BY DEF RotationInv, WalInv, MovingInv, AccessInv, VarTypes, LockInv, PathInv, NoPlan, MoveStore, Go, fileVars
<1> QED
  BY <1>1, <1>2, <1>3, <1>4 DEF RotationInv

(* And its sidecars follow.                                                 *)
LEMMA MoveSidecarsRotates == ASSUME AccessInv, RotationInv, NEW q \in Procs, MoveSidecars(q) PROVE RotationInv'
<1> USE ProcsAssumption DEF Paths, Files, None, Starting, Writing
<1>1. NewestInv'
  BY DEF RotationInv, NewestInv, MovingInv, AccessInv, VarTypes, PathInv, MoveSidecars, Go, Release, fileVars
<1>2. LastCrawlKept'
  BY DEF RotationInv, NewestInv, LastCrawlKept, MovingInv, AccessInv, VarTypes, PathInv, MoveSidecars, Go, Release, fileVars
<1>3. WalInv'
  BY DEF RotationInv, WalInv, MovingInv, AccessInv, VarTypes, LockInv, PathInv, FileInv, NoPlan, MoveSidecars, Go, Release, fileVars
<1>4. MovingInv'
  BY DEF RotationInv, WalInv, MovingInv, AccessInv, VarTypes, LockInv, PathInv, NoPlan, MoveSidecars, Go, Release, fileVars
<1> QED
  BY <1>1, <1>2, <1>3, <1>4 DEF RotationInv

(* A resume that finds its file free.                                       *)
LEMMA ProbeLockRotates == ASSUME AccessInv, RotationInv, NEW q \in Procs, ProbeLock(q) PROVE RotationInv'
<1> USE ProcsAssumption DEF Paths, Files, None, Starting, Writing
<1>1. NewestInv'
  BY DEF RotationInv, NewestInv, MovingInv, AccessInv, VarTypes, PathInv, ProbeLock, Go, dirVars, fileVars
<1>2. LastCrawlKept'
  BY DEF RotationInv, NewestInv, LastCrawlKept, MovingInv, AccessInv, VarTypes, PathInv, ProbeLock, Go, dirVars, fileVars
<1>3. WalInv'
  BY DEF RotationInv, WalInv, MovingInv, AccessInv, VarTypes, LockInv, PathInv, FileInv, NoPlan, ProbeLock, Go, dirVars, fileVars
<1>4. MovingInv'
  BY DEF RotationInv, WalInv, MovingInv, AccessInv, VarTypes, LockInv, PathInv, NoPlan, ProbeLock, Go, dirVars, fileVars
<1> QED
  BY <1>1, <1>2, <1>3, <1>4 DEF RotationInv

(* A resume that has read what is pending.                                  *)
LEMMA ReadPlanRotates == ASSUME AccessInv, RotationInv, NEW q \in Procs, ReadPlan(q) PROVE RotationInv'
<1> USE ProcsAssumption DEF Paths, Files, None, Starting, Writing
<1>1. NewestInv'
  BY DEF RotationInv, NewestInv, MovingInv, AccessInv, VarTypes, PathInv, ReadPlan, Go, dirVars, fileVars
<1>2. LastCrawlKept'
  BY DEF RotationInv, NewestInv, LastCrawlKept, MovingInv, AccessInv, VarTypes, PathInv, ReadPlan, Go, dirVars, fileVars
<1>3. WalInv'
  BY DEF RotationInv, WalInv, MovingInv, AccessInv, VarTypes, LockInv, PathInv, FileInv, NoPlan, ReadPlan, Go, dirVars, fileVars
<1>4. MovingInv'
  BY DEF RotationInv, WalInv, MovingInv, AccessInv, VarTypes, LockInv, PathInv, NoPlan, ReadPlan, Go, dirVars, fileVars
<1> QED
  BY <1>1, <1>2, <1>3, <1>4 DEF RotationInv

(* The engine keeps the lock of the path.                                   *)
LEMMA TakeLockRotates == ASSUME AccessInv, RotationInv, NEW q \in Procs, TakeLock(q) PROVE RotationInv'
<1> USE ProcsAssumption DEF Paths, Files, None, Starting, Writing
<1>1. NewestInv'
  BY DEF RotationInv, NewestInv, MovingInv, AccessInv, VarTypes, PathInv, TakeLock, Go, Acquire, dirVars, fileVars
<1>2. LastCrawlKept'
  BY DEF RotationInv, NewestInv, LastCrawlKept, MovingInv, AccessInv, VarTypes, PathInv, TakeLock, Go, Acquire, dirVars, fileVars
<1>3. WalInv'
  BY DEF RotationInv, WalInv, MovingInv, AccessInv, VarTypes, LockInv, PathInv, FileInv, NoPlan, TakeLock, Go, Acquire, dirVars, fileVars
<1>4. MovingInv'
  BY DEF RotationInv, WalInv, MovingInv, AccessInv, VarTypes, LockInv, PathInv, NoPlan, TakeLock, Go, Acquire, dirVars, fileVars
<1> QED
  BY <1>1, <1>2, <1>3, <1>4 DEF RotationInv

(* A new file, for a crawl.                                                 *)
LEMMA CreateFileRotates == ASSUME AccessInv, RotationInv, NEW q \in Procs, CreateFile(q) PROVE RotationInv'
<1> USE ProcsAssumption DEF Paths, Files, None, Starting, Writing
<1>1. NewestInv'
  BY DEF RotationInv, NewestInv, MovingInv, AccessInv, VarTypes, PathInv, CreateFile, Go, StartWriting
<1>2. LastCrawlKept'
  BY DEF RotationInv, NewestInv, LastCrawlKept, MovingInv, AccessInv, VarTypes, PathInv, CreateFile, Go, StartWriting
<1>3. WalInv'
  BY DEF RotationInv, WalInv, MovingInv, AccessInv, VarTypes, LockInv, PathInv, FileInv, NoPlan, CreateFile, Go, StartWriting
<1>4. MovingInv'
  BY DEF RotationInv, WalInv, MovingInv, AccessInv, VarTypes, LockInv, PathInv, NoPlan, CreateFile, Go, StartWriting
<1> QED
  BY <1>1, <1>2, <1>3, <1>4 DEF RotationInv

(* A crawl that finds a file after all.                                     *)
LEMMA OpenExistingRotates == ASSUME AccessInv, RotationInv, NEW q \in Procs, OpenExisting(q) PROVE RotationInv'
<1> USE ProcsAssumption DEF Paths, Files, None, Starting, Writing
<1>1. NewestInv'
  BY DEF RotationInv, NewestInv, MovingInv, AccessInv, VarTypes, PathInv, OpenExisting, Go, StartWriting
<1>2. LastCrawlKept'
  BY DEF RotationInv, NewestInv, LastCrawlKept, MovingInv, AccessInv, VarTypes, PathInv, OpenExisting, Go, StartWriting
<1>3. WalInv'
  BY DEF RotationInv, WalInv, MovingInv, AccessInv, VarTypes, LockInv, PathInv, FileInv, NoPlan, OpenExisting, Go, StartWriting
<1>4. MovingInv'
  BY DEF RotationInv, WalInv, MovingInv, AccessInv, VarTypes, LockInv, PathInv, NoPlan, OpenExisting, Go, StartWriting
<1> QED
  BY <1>1, <1>2, <1>3, <1>4 DEF RotationInv

(* A resume that opens its file.                                            *)
LEMMA OpenToResumeRotates == ASSUME AccessInv, RotationInv, NEW q \in Procs, OpenToResume(q) PROVE RotationInv'
<1> USE ProcsAssumption DEF Paths, Files, None, Starting, Writing
<1>1. NewestInv'
  BY DEF RotationInv, NewestInv, MovingInv, AccessInv, VarTypes, PathInv, OpenToResume, Go, StartWriting
<1>2. LastCrawlKept'
  BY DEF RotationInv, NewestInv, LastCrawlKept, MovingInv, AccessInv, VarTypes, PathInv, OpenToResume, Go, StartWriting
<1>3. WalInv'
  BY DEF RotationInv, WalInv, MovingInv, AccessInv, VarTypes, LockInv, PathInv, FileInv, NoPlan, OpenToResume, Go, StartWriting
<1>4. MovingInv'
  BY DEF RotationInv, WalInv, MovingInv, AccessInv, VarTypes, LockInv, PathInv, NoPlan, OpenToResume, Go, StartWriting
<1> QED
  BY <1>1, <1>2, <1>3, <1>4 DEF RotationInv

(* The final pass, that opens the file by its path.                         *)
LEMMA ReopenForFinalPassRotates == ASSUME AccessInv, RotationInv, NEW q \in Procs, ReopenForFinalPass(q) PROVE RotationInv'
<1> USE ProcsAssumption DEF Paths, Files, None, Starting, Writing
<1>1. NewestInv'
  BY DEF RotationInv, NewestInv, MovingInv, AccessInv, VarTypes, PathInv, ReopenForFinalPass, Go, dirVars, fileVars
<1>2. LastCrawlKept'
  BY DEF RotationInv, NewestInv, LastCrawlKept, MovingInv, AccessInv, VarTypes, PathInv, ReopenForFinalPass, Go, dirVars, fileVars
<1>3. WalInv'
  BY DEF RotationInv, WalInv, MovingInv, AccessInv, VarTypes, LockInv, PathInv, FileInv, NoPlan, ReopenForFinalPass, Go, dirVars, fileVars
<1>4. MovingInv'
  BY DEF RotationInv, WalInv, MovingInv, AccessInv, VarTypes, LockInv, PathInv, NoPlan, ReopenForFinalPass, Go, dirVars, fileVars
<1> QED
  BY <1>1, <1>2, <1>3, <1>4 DEF RotationInv

(* A command whose file is gone.                                            *)
LEMMA FileGoneRotates == ASSUME AccessInv, RotationInv, NEW q \in Procs, FileGone(q) PROVE RotationInv'
<1> USE ProcsAssumption DEF Paths, Files, None, Starting, Writing
<1>1. NewestInv'
  BY DEF RotationInv, NewestInv, MovingInv, AccessInv, VarTypes, PathInv, FileGone, Leave, dirVars, fileVars
<1>2. LastCrawlKept'
  BY DEF RotationInv, NewestInv, LastCrawlKept, MovingInv, AccessInv, VarTypes, PathInv, FileGone, Leave, dirVars, fileVars
<1>3. WalInv'
  BY DEF RotationInv, WalInv, MovingInv, AccessInv, VarTypes, LockInv, PathInv, FileInv, NoPlan, FileGone, Leave, dirVars, fileVars
<1>4. MovingInv'
  BY DEF RotationInv, WalInv, MovingInv, AccessInv, VarTypes, LockInv, PathInv, NoPlan, FileGone, Leave, dirVars, fileVars
<1> QED
  BY <1>1, <1>2, <1>3, <1>4 DEF RotationInv

(* A session that ends.                                                     *)
LEMMA CloseRotates == ASSUME AccessInv, RotationInv, NEW q \in Procs, Close(q) PROVE RotationInv'
<1> USE ProcsAssumption DEF Paths, Files, None, Starting, Writing
<1>1. NewestInv'
  BY DEF RotationInv, NewestInv, MovingInv, AccessInv, VarTypes, PathInv, Close, Leave
<1>2. LastCrawlKept'
  BY DEF RotationInv, NewestInv, LastCrawlKept, MovingInv, AccessInv, VarTypes, PathInv, Close, Leave
<1>3. WalInv'
  BY DEF RotationInv, WalInv, MovingInv, AccessInv, VarTypes, LockInv, PathInv, FileInv, NoPlan, Close, Leave
<1>4. MovingInv'
  BY DEF RotationInv, WalInv, MovingInv, AccessInv, VarTypes, LockInv, PathInv, NoPlan, Close, Leave
<1> QED
  BY <1>1, <1>2, <1>3, <1>4 DEF RotationInv

(* A command that dies.                                                     *)
LEMMA DieRotates == ASSUME AccessInv, RotationInv, NEW q \in Procs, Die(q) PROVE RotationInv'
<1> USE ProcsAssumption DEF Paths, Files, None, Starting, Writing
<1>1. NewestInv'
  BY DEF RotationInv, NewestInv, MovingInv, AccessInv, VarTypes, PathInv, Die, Leave, dirVars, fileVars
<1>2. LastCrawlKept'
  BY DEF RotationInv, NewestInv, LastCrawlKept, MovingInv, AccessInv, VarTypes, PathInv, Die, Leave, dirVars, fileVars
<1>3. WalInv'
  BY DEF RotationInv, WalInv, MovingInv, AccessInv, VarTypes, LockInv, PathInv, FileInv, NoPlan, Die, Leave, dirVars, fileVars
<1>4. MovingInv'
  BY DEF RotationInv, WalInv, MovingInv, AccessInv, VarTypes, LockInv, PathInv, NoPlan, Die, Leave, dirVars, fileVars
<1> QED
  BY <1>1, <1>2, <1>3, <1>4 DEF RotationInv

-----------------------------------------------------------------------------
(* What every command keeps, whichever it is and wherever it dies.          *)
LEMMA AccessStep == AccessInv /\ [Next]_vars => AccessInv'
<1> SUFFICES ASSUME AccessInv, [Next]_vars
             PROVE  AccessInv'
  OBVIOUS
<1>1. CASE UNCHANGED vars
  BY <1>1 DEF vars, dirVars, fileVars, procVars, AccessInv, VarTypes, LockInv, OpenInv, PathInv, FileInv, StoreStays
<1>2. CASE Next
  <2>1. CASE Over
    BY <2>1, <1>1 DEF Over
  <2>2. ASSUME NEW q \in Procs,
          \/ RotateUnlessLive(q) \/ NothingToRotate(q) \/ RemoveBackup(q) \/ MoveStore(q) \/ MoveSidecars(q)
          \/ ProbeLock(q) \/ ReadPlan(q) \/ TakeLock(q) \/ CreateFile(q) \/ OpenExisting(q) \/ OpenToResume(q)
          \/ ReopenForFinalPass(q) \/ FileGone(q) \/ Close(q) \/ Die(q)
        PROVE  AccessInv'
    BY <2>2, RotateUnlessLiveKeeps, NothingToRotateKeeps, RemoveBackupKeeps, MoveStoreKeeps, MoveSidecarsKeeps, ProbeLockKeeps, ReadPlanKeeps, TakeLockKeeps, CreateFileKeeps, OpenExistingKeeps, OpenToResumeKeeps, ReopenForFinalPassKeeps, FileGoneKeeps, CloseKeeps, DieKeeps
  <2> QED
    BY <1>2, <2>1, <2>2 DEF Next
<1> QED
  BY <1>1, <1>2

(* No step of a command puts two writers in a file.                         *)
LEMMA AccessAlways == Spec => []AccessInv
BY AccessInit, AccessStep, PTL DEF Spec

(* The variables keep their types, and a lock goes with what it covers.     *)
THEOREM StoreTypeCorrect == Spec => []TypeOK
<1>1. AccessInv => TypeOK
  BY TypesSplit DEF AccessInv
<1> QED
  BY AccessAlways, <1>1, PTL

(* One process writes in a file at a time, and on the default path its file *)
(* stays under its name until it ends, for any number of commands that      *)
(* crawl, rotate and resume, and die anywhere.                              *)
THEOREM AlwaysOneWriter == Spec => []OneWriter
<1>1. AccessInv => OneWriterEach
  <2> SUFFICES ASSUME AccessInv, NEW q \in Procs, NEW r \in Procs, q # r, pc[q] \in Writing, pc[r] \in Writing
               PROVE  open[q] # open[r]
    BY DEF OneWriterEach
  <2>1. lock[path[q]] = q /\ lock[path[r]] = r /\ path[q] \in Paths /\ path[r] \in Paths
    BY DEF AccessInv, VarTypes, LockInv
  <2>2. \/ path[q] = "store" /\ path[r] = "prev"
        \/ path[q] = "prev" /\ path[r] = "store"
    BY <2>1 DEF Paths
  <2> QED
    BY <2>2 DEF AccessInv, FileInv, StoreStays
<1>2. AccessInv => OneWriter
  BY <1>1 DEF AccessInv, OneWriter
<1> QED
  BY AccessAlways, <1>2, PTL

(* Each step of a command keeps it.                                         *)
LEMMA RotationStep == AccessInv /\ RotationInv /\ [Next]_vars => RotationInv'
<1> SUFFICES ASSUME AccessInv, RotationInv, [Next]_vars
             PROVE  RotationInv'
  OBVIOUS
<1>1. CASE UNCHANGED vars
  BY <1>1 DEF vars, dirVars, fileVars, procVars, RotationInv, NewestInv, LastCrawlKept, WalInv, MovingInv
<1>2. CASE Next
  <2>1. CASE Over
    BY <2>1, <1>1 DEF Over
  <2>2. ASSUME NEW q \in Procs,
          \/ RotateUnlessLive(q) \/ NothingToRotate(q) \/ RemoveBackup(q) \/ MoveStore(q) \/ MoveSidecars(q)
          \/ ProbeLock(q) \/ ReadPlan(q) \/ TakeLock(q) \/ CreateFile(q) \/ OpenExisting(q) \/ OpenToResume(q)
          \/ ReopenForFinalPass(q) \/ FileGone(q) \/ Close(q) \/ Die(q)
        PROVE  RotationInv'
    BY <2>2, RotateUnlessLiveRotates, NothingToRotateRotates, RemoveBackupRotates, MoveStoreRotates, MoveSidecarsRotates, ProbeLockRotates, ReadPlanRotates, TakeLockRotates, CreateFileRotates, OpenExistingRotates, OpenToResumeRotates, ReopenForFinalPassRotates, FileGoneRotates, CloseRotates, DieRotates
  <2> QED
    BY <1>2, <2>1, <2>2 DEF Next
<1> QED
  BY <1>1, <1>2

(* So it holds from the first command on.                                   *)
LEMMA RotationAlways == Spec => []RotationInv
BY AccessInit, AccessStep, RotationInit, RotationStep, PTL DEF Spec

(* The last crawl is never lost, by any number of commands dying anywhere.  *)
THEOREM LastCrawlAlwaysKept == Spec => []LastCrawlKept
<1>1. RotationInv => LastCrawlKept
  BY DEF RotationInv
<1> QED
  BY RotationAlways, <1>1, PTL

(* No file is ever left beside the -wal of another.                         *)
THEOREM NeverAForeignWal == Spec => []NoForeignWal
<1>1. RotationInv => NoForeignWal
  BY DEF RotationInv, WalInv, NoForeignWal
<1> QED
  BY RotationAlways, <1>1, PTL
=============================================================================
