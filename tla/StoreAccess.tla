---------------------------- MODULE StoreAccess ----------------------------
(***************************************************************************)
(* Who may touch a crawl file: the lock of store.rs (StoreLock), the       *)
(* rotation of the previous crawl and the checks of resume in the command  *)
(* line, and the order in which the engine takes the lock and opens the    *)
(* file.  Several commands run at once on the same default path.           *)
(*                                                                         *)
(* Files are numbered as they are created; a directory entry is a path.    *)
(* A lock is the operating system's: it is gone when its process is.       *)
(***************************************************************************)
EXTENDS Naturals, FiniteSets

CONSTANTS
    Procs,         \* processes running crawlforge
    NoProc,        \* a value that is not a process
    MaxFiles,      \* bound: files created
    MaxSessions    \* bound: openings and closings of files, counted together

ASSUME ProcsAssumption ==
    /\ NoProc \notin Procs
    /\ MaxFiles \in Nat \ {0}
    /\ MaxSessions \in Nat \ {0}

Paths == {"store", "prev"}      \* crawl-x.sqlite and crawl-x.prev.sqlite
Files == 1..MaxFiles
None  == 0                      \* no file

VARIABLES
    at,        \* the file at each path
    wal,       \* the file whose -wal is at each path
    lock,      \* who holds the lock of each path
    created,   \* files created so far
    status,    \* crawl_meta.status of each file
    version,   \* times each file has been opened to write, or closed
    pc,        \* what each process is about to do
    path,      \* the path it works on
    plan,      \* the file and version it has read or made room for
    open       \* the file it writes into

dirVars  == <<at, wal>>
fileVars == <<created, status, version>>
procVars == <<pc, path, plan, open>>
vars     == <<dirVars, lock, fileVars, procVars>>

NoPlan   == [file |-> None, version |-> 0]
Starting == {"rotate", "move", "movewal", "rotated", "probed", "planned", "begin"}
Writing  == {"writing", "final"}

Init ==
    /\ at = [p \in Paths |-> None]
    /\ wal = [p \in Paths |-> None]
    /\ lock = [p \in Paths |-> NoProc]
    /\ created = 0
    /\ status = [f \in Files |-> "none"]
    /\ version = [f \in Files |-> 0]
    /\ pc = [q \in Procs |-> "idle"]
    /\ path = [q \in Procs |-> "store"]
    /\ plan = [q \in Procs |-> NoPlan]
    /\ open = [q \in Procs |-> None]

Sessions == LET sum[n \in 0..MaxFiles] == IF n = 0 THEN 0 ELSE sum[n-1] + version[n]
            IN  sum[MaxFiles]

Go(q, from, to) == pc[q] = from /\ pc' = [pc EXCEPT ![q] = to]

(* The command ends, in success or in error, or is killed: its lock is     *)
(* free again.                                                             *)
Leave(q) ==
    /\ pc' = [pc EXCEPT ![q] = "idle"]
    /\ plan' = [plan EXCEPT ![q] = NoPlan]
    /\ open' = [open EXCEPT ![q] = None]
    /\ lock' = [p \in Paths |-> IF lock[p] = q THEN NoProc ELSE lock[p]]
    /\ UNCHANGED path

AcquireEvenIfTaken(q, p) == lock' = [lock EXCEPT ![p] = q]

(* Never waits: whoever comes second is told so at once. *)
Acquire(q, p) ==
    /\ lock[p] = NoProc
    /\ lock' = [lock EXCEPT ![p] = q]

Release(q, p) == lock' = [lock EXCEPT ![p] = NoProc]

-----------------------------------------------------------------------------
(* crawl: the file of the previous crawl is set aside, under the lock.     *)

RotateUnlessLive(q) ==
    /\ Go(q, "idle", "rotate")
    /\ Acquire(q, "store")
    /\ path' = [path EXCEPT ![q] = "store"]
    /\ UNCHANGED <<dirVars, fileVars, plan, open>>

NothingToRotateButBackup(q) ==
    /\ Go(q, "rotate", "rotated")
    /\ at["store"] = None
    /\ at' = [at EXCEPT !["prev"] = None]
    /\ wal' = [wal EXCEPT !["prev"] = None]
    /\ Release(q, "store")
    /\ UNCHANGED <<fileVars, path, plan, open>>

NothingToRotate(q) ==
    /\ Go(q, "rotate", "rotated")
    /\ at["store"] = None
    /\ Release(q, "store")
    /\ UNCHANGED <<dirVars, fileVars, path, plan, open>>

RemoveBackupOnly(q) ==
    /\ Go(q, "rotate", "move")
    /\ at["store"] # None
    /\ at' = [at EXCEPT !["prev"] = None]
    /\ UNCHANGED <<wal, lock, fileVars, path, plan, open>>

(* The backup goes, and its sidecars with it. *)
RemoveBackup(q) ==
    /\ Go(q, "rotate", "move")
    /\ at["store"] # None
    /\ at' = [at EXCEPT !["prev"] = None]
    /\ wal' = [wal EXCEPT !["prev"] = None]
    /\ UNCHANGED <<lock, fileVars, path, plan, open>>

MoveStore(q) ==
    /\ Go(q, "move", "movewal")
    /\ at' = [at EXCEPT !["prev"] = at["store"], !["store"] = None]
    /\ UNCHANGED <<wal, lock, fileVars, path, plan, open>>

(* The sidecars follow their file; the rotation ends and frees the lock.   *)
MoveSidecars(q) ==
    /\ Go(q, "movewal", "rotated")
    /\ wal' = IF wal["store"] = None THEN wal
              ELSE [wal EXCEPT !["prev"] = wal["store"], !["store"] = None]
    /\ Release(q, "store")
    /\ UNCHANGED <<at, fileVars, path, plan, open>>

-----------------------------------------------------------------------------
(* resume: a probe of the lock, taken and dropped; the plan is read from   *)
(* the file; and only then does the engine take the lock to keep it.       *)

ProbeLock(q) ==
    \E p \in Paths :
      /\ Go(q, "idle", "probed")
      /\ at[p] # None  /\ lock[p] = NoProc
      /\ path' = [path EXCEPT ![q] = p]
      /\ UNCHANGED <<dirVars, lock, fileVars, plan, open>>

(* A finished crawl is not resumed, but for one whose site rate-limited    *)
(* it, which counts here as a paused one.                                  *)
ReadPlan(q) ==
    /\ Go(q, "probed", "planned")
    /\ LET f == at[path[q]] IN
         /\ f # None  /\ status[f] \in {"running", "paused"}
         /\ plan' = [plan EXCEPT ![q] = [file |-> f, version |-> version[f]]]
    /\ UNCHANGED <<dirVars, lock, fileVars, path, open>>

-----------------------------------------------------------------------------
(* The engine, for both. *)

TakeLock(q) ==
    /\ Go(q, "rotated", "begin") \/ Go(q, "planned", "begin")
    /\ Acquire(q, path[q])
    /\ UNCHANGED <<dirVars, fileVars, path, plan, open>>

StartWriting(q, f) ==
    /\ Go(q, "begin", "writing")
    /\ Sessions < MaxSessions
    /\ open' = [open EXCEPT ![q] = f]
    /\ wal' = [wal EXCEPT ![path[q]] = f]
    /\ status' = [status EXCEPT ![f] = "running"]
    /\ version' = [version EXCEPT ![f] = @ + 1]
    /\ UNCHANGED <<lock, path, plan>>

(* open_writer creates the file if there is none; SQLite discards a -wal   *)
(* it finds beside an empty file.                                          *)
CreateFile(q) ==
    /\ plan[q] = NoPlan  /\ at["store"] = None  /\ created < MaxFiles
    /\ created' = created + 1
    /\ at' = [at EXCEPT !["store"] = created + 1]
    /\ StartWriting(q, created + 1)

(* And opens it if there is one. *)
OpenExisting(q) ==
    /\ plan[q] = NoPlan  /\ at["store"] # None
    /\ StartWriting(q, at["store"])
    /\ UNCHANGED <<created, at>>

(* reopen_writer: a resume never creates the file. *)
OpenToResume(q) ==
    /\ plan[q] # NoPlan  /\ at[path[q]] # None
    /\ StartWriting(q, at[path[q]])
    /\ UNCHANGED <<created, at>>

(* The final pass opens the file again by its path. *)
ReopenForFinalPass(q) ==
    /\ Go(q, "writing", "final")
    /\ at[path[q]] # None
    /\ open' = [open EXCEPT ![q] = at[path[q]]]
    /\ UNCHANGED <<dirVars, lock, fileVars, path, plan>>

FileGone(q) ==
    /\ \/ pc[q] = "begin" /\ plan[q] # NoPlan
       \/ pc[q] \in {"writing", "probed"}
    /\ at[path[q]] = None
    /\ Leave(q)
    /\ UNCHANGED <<dirVars, fileVars>>

(* The file leaves WAL mode unless a reader keeps it there. *)
Close(q) ==
    /\ pc[q] = "final"
    /\ \E s \in {"done", "paused"} : status' = [status EXCEPT ![open[q]] = s]
    /\ version' = [version EXCEPT ![open[q]] = @ + 1]
    /\ wal' \in {wal, [wal EXCEPT ![path[q]] = None]}
    /\ Leave(q)
    /\ UNCHANGED <<at, created>>

(* An error (the lock is taken, a status that is not resumable) or a kill, *)
(* at any point.                                                           *)
Die(q) ==
    /\ pc[q] # "idle"
    /\ Leave(q)
    /\ UNCHANGED <<dirVars, fileVars>>

Over == (\A q \in Procs : pc[q] = "idle") /\ UNCHANGED vars

Next ==
    \/ \E q \in Procs :
         \/ RotateUnlessLive(q) \/ NothingToRotate(q) \/ RemoveBackup(q)
         \/ MoveStore(q) \/ MoveSidecars(q)
         \/ ProbeLock(q) \/ ReadPlan(q)
         \/ TakeLock(q) \/ CreateFile(q) \/ OpenExisting(q) \/ OpenToResume(q)
         \/ ReopenForFinalPass(q) \/ FileGone(q) \/ Close(q)
         \/ Die(q)
    \/ Over

Spec == Init /\ [][Next]_vars

-----------------------------------------------------------------------------
(* Properties. *)

(* The variables keep their types, and the lock goes with what it covers:  *)
(* whoever rotates or writes holds that of its path, and nothing else is   *)
(* open for writing.                                                       *)
TypeOK ==
    /\ at \in [Paths -> Files \cup {None}]
    /\ wal \in [Paths -> Files \cup {None}]
    /\ lock \in [Paths -> Procs \cup {NoProc}]
    /\ created \in 0..MaxFiles
    /\ status \in [Files -> {"none", "running", "paused", "done"}]
    /\ version \in [Files -> Nat]
    /\ pc \in [Procs -> {"idle"} \cup Starting \cup Writing]
    /\ path \in [Procs -> Paths]
    /\ plan \in [Procs -> [file : Files \cup {None}, version : Nat]]
    /\ open \in [Procs -> Files \cup {None}]
    /\ \A q \in Procs :
         /\ pc[q] \in {"rotate", "move", "movewal", "begin"} \cup Writing
              => lock[path[q]] = q
         /\ open[q] # None <=> pc[q] \in Writing

(* One process writing a file, and only one, whatever names the file had   *)
(* meanwhile: two would duplicate its links.                               *)
OneWriterEach ==
    \A q, r \in Procs :
      q # r /\ pc[q] \in Writing /\ pc[r] \in Writing => open[q] # open[r]

(* A crawl on the default path keeps its file under it until it ends: what *)
(* its final pass opens by name is what its writer wrote.                  *)
StoreStays ==
    \A q \in Procs :
      pc[q] \in Writing /\ path[q] = "store" => at["store"] = open[q]

(* What a process writes is its own until it ends: nobody else writes in   *)
(* it, and on the default path nobody puts another file in its place.      *)
OneWriter == OneWriterEach /\ StoreStays

(* The last crawl is never lost, whatever the commands that come after it  *)
(* do and wherever they die.                                               *)
LastCrawlKept == created > 0 => created \in {at["store"], at["prev"]}

(* No file lies beside the -wal of another one, out of a rotation: SQLite  *)
(* would take that file's pages for its own.                               *)
NoForeignWal ==
    \A p \in Paths :
      at[p] # None /\ (\A q \in Procs : pc[q] \notin {"move", "movewal"}) =>
        wal[p] \in {None, at[p]}

(* A file that a crawl is writing is never moved nor deleted by another    *)
(* command, under any of its names.                                        *)
LiveFileStays ==
    \A q \in Procs : pc[q] \in Writing => at[path[q]] = open[q]

=============================================================================
