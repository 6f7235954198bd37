----------------------------- MODULE SqliteCache -----------------------------
(***************************************************************************)
(* SqliteZstdCache of storage/sqlite_cache.py: one cache object, used by   *)
(* many threads through connections of their own.  A thread that gets an   *)
(* error it takes for corruption renames the file away and makes a new one *)
(* in its place, without a lock around either; other threads keep          *)
(* connections to the file they have opened, wherever it is now.           *)
(*                                                                         *)
(* Files stand for inodes.  Rows are left out: what matters is which file  *)
(* a connection reads and writes.  Whether a file really is corrupt is     *)
(* left out as well: _is_corruption_error only has the message, and takes  *)
(* "disk i/o error" and "not an error" of a healthy file for corruption    *)
(* too, so any statement on any file may report it.  The three operations  *)
(* read_raw, write_raw and delete_key have the same control, and their     *)
(* callers treat an exception like a miss.                                 *)
(***************************************************************************)
EXTENDS Naturals

CONSTANTS
  Thread,
  File,        \* files the directory may hold over time
  None,        \* no file, or no thread
  MaxRetries,  \* attempts of an operation on a locked database
  MaxDepth     \* recursion limit of _init_db and _disable_and_quarantine

ASSUME ConstantsAssumption ==
  /\ None \notin File \cup Thread
  /\ MaxRetries \in Nat \ {0}
  /\ MaxDepth \in Nat

Pcs == {"idle", "get", "connect", "exec", "qcheck", "qset", "rename",
        "reenable", "init", "create"}

VARIABLES
  path,   \* the file at db_path
  tabled, \* it has the kv table
  blamed, \* a statement on it has reported corruption (history)
  conn,   \* the connection in a thread's local storage
  mode,   \* _disabled: "on", "off" during a quarantine, "failed" after one
  lock,   \* holder of _init_lock
  pc, att, depth,
  initc   \* the connection of _init_db

vars == <<path, tabled, blamed, conn, mode, lock, pc, att, depth, initc>>

Disabled == mode # "on"

TypeOK ==
  /\ path \in File \cup {None}
  /\ tabled \in BOOLEAN
  /\ blamed \in BOOLEAN
  /\ conn \in [Thread -> File \cup {None}]
  /\ mode \in {"on", "off", "failed"}
  /\ lock \in Thread \cup {None}
  /\ pc \in [Thread -> Pcs]
  /\ att \in [Thread -> 0 .. (MaxRetries - 1)]
  /\ depth \in [Thread -> 0 .. MaxDepth]
  /\ initc \in [Thread -> File \cup {None}]
  /\ \A t \in Thread : pc[t] = "create" => initc[t] # None /\ lock = t

(* __init__ has created the database.                                      *)
Init ==
  /\ path \in File
  /\ tabled = TRUE
  /\ blamed = FALSE
  /\ conn = [t \in Thread |-> None]
  /\ mode = "on"
  /\ lock = None
  /\ pc = [t \in Thread |-> "idle"]
  /\ att = [t \in Thread |-> 0]
  /\ depth = [t \in Thread |-> 0]
  /\ initc = [t \in Thread |-> None]

-----------------------------------------------------------------------------

GoTo(t, p) == pc' = [pc EXCEPT ![t] = p]

(* A file nothing refers to any more, free to stand for a new one.         *)
Fresh ==
  {f \in File : f # path /\ \A t \in Thread : f \notin {conn[t], initc[t]}}

NewFile == CHOOSE f \in Fresh : TRUE

(* _connect() opens f; it creates a file that is not there.                *)
Connect(f) ==
  \/ /\ path # None
     /\ f = path
     /\ UNCHANGED <<path, tabled>>
  \/ /\ path = None
     /\ Fresh # {}
     /\ f = NewFile
     /\ path' = f
     /\ tabled' = FALSE

(* An error about f that _is_corruption_error takes for corruption.        *)
Report(f) == blamed' = (blamed \/ f = path')

(* An operation starts; a disabled cache answers at once.                  *)
Call(t) ==
  /\ pc[t] = "idle"
  /\ ~Disabled
  /\ GoTo(t, "get")
  /\ att' = [att EXCEPT ![t] = 0]
  /\ UNCHANGED <<path, tabled, blamed, conn, mode, lock, depth, initc>>

(* Mutant of Locked: attempts are not counted.                             *)
LockedUncounted(t) == GoTo(t, "get") /\ UNCHANGED att

(* _with_retry after "database is locked": once more, or the error is      *)
(* raised to the caller, which takes it for a miss.                        *)
Locked(t) ==
  \/ /\ att[t] < MaxRetries - 1
     /\ att' = [att EXCEPT ![t] = @ + 1]
     /\ GoTo(t, "get")
  \/ /\ att[t] = MaxRetries - 1
     /\ GoTo(t, "idle")
     /\ UNCHANGED att

(* _get_conn(): raises if the cache was disabled meanwhile, reuses the     *)
(* connection of this thread, or goes on to open one.                      *)
GetConn(t) ==
  /\ pc[t] = "get"
  /\ GoTo(t, IF Disabled THEN "idle"
             ELSE IF conn[t] # None THEN "exec" ELSE "connect")
  /\ UNCHANGED <<path, tabled, blamed, conn, mode, lock, att, depth, initc>>

(* It opens one, whatever has become of the cache since.  The pragmas of   *)
(* _connect() already read the file, so that may report corruption, find   *)
(* it locked or fail otherwise; the file has been made by then.            *)
OpenConn(t) ==
  /\ pc[t] = "connect"
  /\ \E f \in File :
       /\ Connect(f)
       /\ \/ /\ conn' = [conn EXCEPT ![t] = f]
             /\ GoTo(t, "exec")
             /\ UNCHANGED <<att, blamed>>
          \/ /\ Report(f)
             /\ GoTo(t, "qcheck")
             /\ UNCHANGED <<conn, att>>
          \/ Locked(t) /\ UNCHANGED <<conn, blamed>>
          \/ GoTo(t, "idle") /\ UNCHANGED <<conn, att, blamed>>
  /\ UNCHANGED <<mode, lock, depth, initc>>

(* No file can be opened or made; "unable to open database file" is not    *)
(* taken for corruption.                                                   *)
OpenFails(t) ==
  /\ pc[t] = "connect"
  /\ GoTo(t, "idle")
  /\ UNCHANGED <<path, tabled, blamed, conn, mode, lock, att, depth, initc>>

(* The statement runs: it ends (with rows, or an error such as a missing   *)
(* table), reports corruption, or finds the database locked.               *)
Exec(t) ==
  /\ pc[t] = "exec"
  /\ UNCHANGED <<path, tabled, conn, mode, lock, depth, initc>>
  /\ \/ GoTo(t, "idle") /\ UNCHANGED <<att, blamed>>
     \/ Report(conn[t]) /\ GoTo(t, "qcheck") /\ UNCHANGED att
     \/ Locked(t) /\ UNCHANGED blamed

(* Leaving all of _disable_and_quarantine and _init_db.                    *)
Leave(t) ==
  /\ GoTo(t, "idle")
  /\ lock' = IF lock = t THEN None ELSE lock
  /\ depth' = [depth EXCEPT ![t] = 0]
  /\ initc' = [initc EXCEPT ![t] = None]

(* _disable_and_quarantine(): "if self._disabled: return"                  *)
QuarantineCheck(t) ==
  /\ pc[t] = "qcheck"
  /\ \/ Disabled /\ Leave(t)
     \/ /\ ~Disabled
        /\ GoTo(t, "qset")
        /\ UNCHANGED <<lock, depth, initc>>
  /\ UNCHANGED <<path, tabled, blamed, conn, mode, att>>

(* self._disabled = True                                                   *)
QuarantineSet(t) ==
  /\ pc[t] = "qset"
  /\ mode' = "off"
  /\ GoTo(t, "rename")
  /\ UNCHANGED <<path, tabled, blamed, conn, lock, att, depth, initc>>

(* src.rename(dst), which may fail: whatever file is at db_path now.       *)
Rename(t) ==
  /\ pc[t] = "rename"
  /\ path' \in {path, None}
  /\ tabled' = (tabled /\ path' # None)
  /\ blamed' = (blamed /\ path' # None)
  /\ GoTo(t, "reenable")
  /\ UNCHANGED <<conn, mode, lock, att, depth, initc>>

(* Mutant of Reenable: the new database is left to the next connection.    *)
ReenableOnly(t) ==
  /\ pc[t] = "reenable"
  /\ mode' = "on"
  /\ conn' = [conn EXCEPT ![t] = None]
  /\ Leave(t)
  /\ UNCHANGED <<path, tabled, blamed, att>>

(* The flag is cleared and the thread's own connection closed.             *)
Reenable(t) ==
  /\ pc[t] = "reenable"
  /\ mode' = "on"
  /\ conn' = [conn EXCEPT ![t] = None]
  /\ GoTo(t, "init")
  /\ UNCHANGED <<path, tabled, blamed, lock, att, depth, initc>>

(* Corruption reported inside _init_db: quarantine once more, holding the  *)
(* lock.                                                                   *)
Nested(t) ==
  /\ depth[t] < MaxDepth
  /\ depth' = [depth EXCEPT ![t] = @ + 1]
  /\ initc' = [initc EXCEPT ![t] = None]
  /\ GoTo(t, "qcheck")

(* _init_db() takes the lock and connects.                                 *)
InitConnect(t) ==
  /\ pc[t] = "init"
  /\ lock \in {None, t}
  /\ lock' = t
  /\ \E f \in File :
       /\ Connect(f)
       /\ \/ /\ initc' = [initc EXCEPT ![t] = f]
             /\ GoTo(t, "create")
             /\ UNCHANGED <<depth, blamed>>
          \/ Report(f) /\ Nested(t)
  /\ UNCHANGED <<conn, mode, att>>

(* CREATE TABLE IF NOT EXISTS succeeds.                                    *)
Create(t) ==
  /\ pc[t] = "create"
  /\ tabled' = (tabled \/ initc[t] = path)
  /\ Leave(t)
  /\ UNCHANGED <<path, blamed, conn, mode, att>>

(* It reports corruption.                                                  *)
CreateReports(t) ==
  /\ pc[t] = "create"
  /\ UNCHANGED <<path, tabled, conn, mode, lock, att>>
  /\ Report(initc[t])
  /\ Nested(t)

(* _init_db raises (locked too long, recursion too deep): "reinit_failed". *)
InitFails(t) ==
  /\ \/ pc[t] = "init" /\ lock \in {None, t}
     \/ pc[t] = "create"
  /\ mode' = "failed"
  /\ Leave(t)
  /\ UNCHANGED <<path, tabled, blamed, conn, att>>

Step(t) ==
  \/ GetConn(t)
  \/ OpenConn(t)
  \/ OpenFails(t)
  \/ Exec(t)
  \/ QuarantineCheck(t)
  \/ QuarantineSet(t)
  \/ Rename(t)
  \/ Reenable(t)
  \/ InitConnect(t)
  \/ Create(t)
  \/ CreateReports(t)
  \/ InitFails(t)

Next == \E t \in Thread : Call(t) \/ Step(t)

Spec == Init /\ [][Next]_vars

(* Threads keep running; _init_lock is taken by whoever waits for it.      *)
FairSpec == Spec /\ \A t \in Thread : SF_vars(Step(t))

-----------------------------------------------------------------------------
(* Properties.                                                             *)

(* When there is no database, or one without the kv table, at db_path, a   *)
(* thread is on its way to replace or to create it, or the cache is        *)
(* disabled for good: operations never fail for a table that nobody is     *)
(* going to make.                                                          *)
TableIsComing ==
  (path = None \/ ~tabled) /\ mode # "failed" =>
    \E t \in Thread :
      \/ pc[t] \in {"qcheck", "qset", "rename", "reenable", "init"}
      \/ pc[t] = "create" /\ initc[t] = path

(* The cache is only switched off while a thread replaces the database or  *)
(* after that has failed: overlapping quarantines never leave it off.      *)
NotStuckDisabled ==
  mode = "off" => \E t \in Thread : pc[t] \in {"rename", "reenable"}

(* "quarantine corrupted DB and keep the app running": a database, table   *)
(* and all, that no statement has reported as corrupt is never the one     *)
(* moved away.                                                             *)
HealthyStays ==
  [][path # None /\ tabled /\ ~blamed => path' # None]_vars

(* Every operation ends, however often the database is locked, corrupt or  *)
(* cannot be renamed.                                                      *)
OperationsEnd == \A t \in Thread : pc[t] = "get" ~> pc[t] = "idle"

=============================================================================
