------------------------------ MODULE QaRunner ------------------------------
(***************************************************************************)
(* run_qa_agent.py: a benchmark run over a result directory that survives  *)
(* it.  A run first looks for results of earlier runs, removing files it   *)
(* cannot use, then answers the remaining items with a pool of workers    *)
(* (or one after another, for a single worker) and keeps running averages. *)
(* A result is written to a temporary file and renamed.  The process may   *)
(* be killed at any step and started again.                                *)
(*                                                                         *)
(* A record is abstracted to the score it holds; the second average (the   *)
(* judge's) is kept exactly like the first and left out.  Which pending    *)
(* item a free worker takes is left open: no property depends on it.       *)
(***************************************************************************)
EXTENDS Naturals, FiniteSets, FiniteSetsExt

CONSTANTS
  Item,          \* items of the dataset, with distinct ids
  WorkerCounts,  \* the values max_workers is given
  Score,         \* values of the F1 metric
  Unscored,      \* a record without metrics (an item without a gold answer)
  None,          \* no file
  Torn,          \* a file that is not a complete record
  Garbled        \* a file that is not even UTF-8

ASSUME WorkersAssumption == WorkerCounts \subseteq Nat \ {0}
ASSUME ItemAssumption == IsFiniteSet(Item)

Result == Score \cup {Unscored}
Content == Result \cup {None, Torn, Garbled}

ASSUME ContentAssumption ==
  /\ Score \subseteq Nat
  /\ {Unscored, None, Torn, Garbled} \cap Score = {}
  /\ Unscored \notin {None, Torn, Garbled}
  /\ None \notin {Torn, Garbled}
  /\ Torn # Garbled

VARIABLES
  out,       \* <id>.json in the result directory
  tmp,       \* <id>.json.tmp
  workers,   \* max_workers of this run
  mode,      \* where main() is
  st,        \* where an item is in this run
  rec,       \* the record a worker has built
  total,     \* f1_sum
  count,     \* f1_count
  failures   \* failures

disk == <<out, tmp>>
sums == <<total, count, failures>>
vars == <<disk, workers, mode, st, rec, sums>>

Modes == {"off", "scan", "run", "ended", "aborted"}
Active == mode \in {"scan", "run"}

Busy == {"running", "writing", "replacing"}  \* a worker has the item
Known == {"cached", "counted"}               \* in the averages
States == {"unseen", "pending", "ok", "error", "lost"} \cup Busy \cup Known

TypeOK ==
  /\ out \in [Item -> Content]
  /\ tmp \in [Item -> Content]
  /\ workers \in WorkerCounts
  /\ mode \in Modes
  /\ st \in [Item -> States]
  /\ rec \in [Item -> Result \cup {None}]
  /\ {total, count, failures} \subseteq Nat
  /\ \A i \in Item : st[i] \in {"writing", "replacing", "ok"} => rec[i] # None

FreshMemory ==
  /\ st' = [i \in Item |-> "unseen"]
  /\ rec' = [i \in Item |-> None]
  /\ total' = 0 /\ count' = 0 /\ failures' = 0

Init ==
  /\ out = [i \in Item |-> None]
  /\ tmp = [i \in Item |-> None]
  /\ workers \in WorkerCounts
  /\ mode = "off"
  /\ st = [i \in Item |-> "unseen"]
  /\ rec = [i \in Item |-> None]
  /\ total = 0 /\ count = 0 /\ failures = 0

-----------------------------------------------------------------------------

(* main() starts: a first run, or the re-run of an earlier one, perhaps    *)
(* with another number of workers.                                         *)
StartRun ==
  /\ ~Active
  /\ workers' \in WorkerCounts
  /\ mode' = "scan"
  /\ FreshMemory
  /\ UNCHANGED disk

(* Mutant of Accumulate: a record without a score counts as one.           *)
AccumulateUnscored(s) ==
  /\ count' = count + 1
  /\ total' = IF s \in Score THEN total + s ELSE total
  /\ UNCHANGED failures

(* _accumulate_metrics(payload): a record without a score is not counted.  *)
Accumulate(s) ==
  /\ \/ s = Unscored /\ UNCHANGED <<total, count>>
     \/ s \in Score /\ total' = total + s /\ count' = count + 1
  /\ UNCHANGED failures

MoveTo(i, s) == st' = [st EXCEPT ![i] = s]

(* Mutant of Scan: a record without metrics is to be made again.           *)
ScanRedoesUnscored(i) ==
  /\ mode = "scan"
  /\ st[i] = "unseen"
  /\ \/ /\ out[i] \in Score
        /\ MoveTo(i, "cached")
        /\ Accumulate(out[i])
        /\ UNCHANGED out
     \/ /\ out[i] \in {None, Torn, Unscored}
        /\ MoveTo(i, "pending")
        /\ out' = [out EXCEPT ![i] = IF @ = Unscored THEN @ ELSE None]
        /\ UNCHANGED sums
  /\ UNCHANGED <<workers, tmp, mode, rec>>

(* _load_cached_status(item): a valid file is a result, a corrupt one is   *)
(* removed.                                                                *)
Scan(i) ==
  /\ mode = "scan"
  /\ st[i] = "unseen"
  /\ \/ /\ out[i] \in Result
        /\ MoveTo(i, "cached")
        /\ Accumulate(out[i])
        /\ UNCHANGED out
     \/ /\ out[i] \in {None, Torn}
        /\ MoveTo(i, "pending")
        /\ out' = [out EXCEPT ![i] = None]
        /\ UNCHANGED sums
  /\ UNCHANGED <<workers, tmp, mode, rec>>

(* An OSError while the file is read: it is removed, whatever it holds.    *)
ReadFails(i) ==
  /\ mode = "scan"
  /\ st[i] = "unseen"
  /\ out[i] # None
  /\ MoveTo(i, "pending")
  /\ out' = [out EXCEPT ![i] = None]
  /\ UNCHANGED <<workers, tmp, mode, rec, sums>>

(* main() raises, and the file stays: the UnicodeDecodeError of a garbled  *)
(* file is caught nowhere, nor is an OSError of exists() or unlink().      *)
ScanRaises(i) ==
  /\ mode = "scan"
  /\ st[i] = "unseen"
  /\ mode' = "aborted"
  /\ UNCHANGED <<workers, disk, st, rec, sums>>

(* "all items cached" ends the run; else the workers start.                *)
EndScan ==
  /\ mode = "scan"
  /\ \A i \in Item : st[i] # "unseen"
  /\ mode' = IF \E i \in Item : st[i] = "pending" THEN "run" ELSE "ended"
  /\ UNCHANGED <<workers, disk, st, rec, sums>>

In(S) == {i \in Item : st[i] \in S}

(* Mutant of StartItem: a single worker runs in a pool of one.             *)
StartItemEagerly(i) ==
  /\ mode = "run"
  /\ st[i] = "pending"
  /\ Cardinality(In(Busy)) < workers
  /\ MoveTo(i, "running")
  /\ UNCHANGED <<workers, disk, mode, rec, sums>>

(* Mutant of StartItem: a temporary file is taken for a worker at work.    *)
StartItemUnlessTmp(i) ==
  /\ mode = "run"
  /\ st[i] = "pending"
  /\ tmp[i] = None
  /\ Cardinality(In(Busy)) < workers
  /\ workers = 1 => In({"ok", "error"}) = {}
  /\ MoveTo(i, "running")
  /\ UNCHANGED <<workers, disk, mode, rec, sums>>

(* A worker takes an item; a single worker is main() itself, which deals   *)
(* with each outcome before it goes on.                                    *)
StartItem(i) ==
  /\ mode = "run"
  /\ st[i] = "pending"
  /\ Cardinality(In(Busy)) < workers
  /\ workers = 1 => In({"ok", "error"}) = {}
  /\ MoveTo(i, "running")
  /\ UNCHANGED <<workers, disk, mode, rec, sums>>

(* agent.run(), its construction or the evaluation raises.                 *)
AnswerFails(i) ==
  /\ mode = "run"
  /\ st[i] = "running"
  /\ MoveTo(i, "error")
  /\ UNCHANGED <<workers, disk, mode, rec, sums>>

(* _run_one() has a record of score s; write_text opens, and so truncates, *)
(* the temporary file.                                                     *)
Answered(i, s) ==
  /\ mode = "run"
  /\ st[i] = "running"
  /\ rec' = [rec EXCEPT ![i] = s]
  /\ tmp' = [tmp EXCEPT ![i] = Torn]
  /\ MoveTo(i, "writing")
  /\ UNCHANGED <<workers, out, mode, sums>>

(* The temporary file is complete.                                         *)
WriteTmp(i) ==
  /\ mode = "run"
  /\ st[i] = "writing"
  /\ tmp' = [tmp EXCEPT ![i] = rec[i]]
  /\ MoveTo(i, "replacing")
  /\ UNCHANGED <<workers, out, mode, rec, sums>>

(* tmp_path.replace(path)                                                  *)
Replace(i) ==
  /\ mode = "run"
  /\ st[i] = "replacing"
  /\ out' = [out EXCEPT ![i] = tmp[i]]
  /\ tmp' = [tmp EXCEPT ![i] = None]
  /\ MoveTo(i, "ok")
  /\ UNCHANGED <<workers, mode, rec, sums>>

(* The file system refuses one of the two steps.                           *)
WriteFails(i) ==
  /\ mode = "run"
  /\ st[i] \in {"writing", "replacing"}
  /\ MoveTo(i, "error")
  /\ UNCHANGED <<workers, disk, mode, rec, sums>>

(* main() gets the payload of an item.                                     *)
Collect(i) ==
  /\ mode = "run"
  /\ st[i] = "ok"
  /\ MoveTo(i, "counted")
  /\ Accumulate(rec[i])
  /\ UNCHANGED <<workers, disk, mode, rec>>

(* main() gets an exception: the pool's loop counts it and goes on, the    *)
(* loop of a single worker does not catch it.                              *)
CollectFailure(i) ==
  /\ mode = "run"
  /\ st[i] = "error"
  /\ \/ /\ workers > 1
        /\ MoveTo(i, "lost")
        /\ failures' = failures + 1
        /\ UNCHANGED mode
     \/ /\ workers = 1
        /\ mode' = "aborted"
        /\ UNCHANGED <<st, failures>>
  /\ UNCHANGED <<workers, disk, rec, total, count>>

(* Mutant of EndRun: main() leaves when all futures are done.              *)
EndRunEarly ==
  /\ mode = "run"
  /\ In(Known \cup {"lost", "error"}) = Item
  /\ mode' = "ended"
  /\ UNCHANGED <<workers, disk, st, rec, sums>>

(* Mutant of EndRun: the run waits for a result of every item.             *)
EndRunWhenComplete ==
  /\ mode = "run"
  /\ In(Known) = Item
  /\ mode' = "ended"
  /\ UNCHANGED <<workers, disk, st, rec, sums>>

(* The loop over the items, or over the futures, is through.               *)

EndRun ==
  /\ mode = "run"
  /\ In(Known \cup {"lost"}) = Item
  /\ mode' = "ended"
  /\ UNCHANGED <<workers, disk, st, rec, sums>>

(* The process is killed; files stay as they are.                          *)
Crash ==
  /\ Active
  /\ mode' = "off"
  /\ FreshMemory
  /\ UNCHANGED <<workers, disk>>

(* Between runs a result is damaged (power loss after the unsynced rename, *)
(* a file cut inside a character or saved in another encoding).            *)
Damage(i) ==
  /\ ~Active
  /\ out[i] \in Result
  /\ \E c \in {Torn, Garbled} : out' = [out EXCEPT ![i] = c]
  /\ UNCHANGED <<workers, tmp, mode, st, rec, sums>>

(* The operator deletes a file that every run stumbles over.               *)
Repair(i) ==
  /\ ~Active
  /\ out[i] = Garbled
  /\ out' = [out EXCEPT ![i] = None]
  /\ UNCHANGED <<workers, tmp, mode, st, rec, sums>>

-----------------------------------------------------------------------------

Work(i) ==
  \/ AnswerFails(i)
  \/ \E s \in Result : Answered(i, s)
  \/ WriteTmp(i)
  \/ Replace(i)
  \/ WriteFails(i)

Main ==
  \/ StartRun
  \/ EndScan
  \/ EndRun
  \/ \E i \in Item : \/ Scan(i) \/ ScanRaises(i) \/ StartItem(i)
                     \/ Collect(i) \/ CollectFailure(i)

Next ==
  \/ Main
  \/ \E i \in Item : Work(i) \/ ReadFails(i) \/ Damage(i) \/ Repair(i)
  \/ Crash

Spec == Init /\ [][Next]_vars

(* Threads keep running, episodes end (AgentEpisode), and the operator     *)
(* does what the last log line says: "re-run to retry missing outputs".    *)
FairSpec == Spec /\ WF_vars(Main) /\ \A i \in Item : WF_vars(Work(i))

-----------------------------------------------------------------------------
(* Properties.                                                             *)

(* The result directory is used as ResultStore says: a run notes every     *)
(* valid result it finds or, if reading fails, discards it; once it        *)
(* answers items, only whole results appear, once, and none is replaced or *)
(* removed.                                                                *)
Store == INSTANCE ResultStore WITH
  result <- [i \in Item |-> IF out[i] \in Result THEN out[i] ELSE None],
  phase <- IF mode = "scan" THEN "reading"
           ELSE IF mode = "run" THEN "filling" ELSE "idle",
  noted <- IF Active THEN In(Known \cup {"ok"}) ELSE {}

ImplementsStore == Store!Spec

(* Once a run answers items, no file under a result's name is incomplete   *)
(* or unreadable: corrupt ones are gone, and a worker never exposes what   *)
(* it is writing.                                                          *)
WholeResults == mode = "run" => \A i \in Item : out[i] \in Result \cup {None}

(* A temporary file, left by a failed write or a crash, never lies beside  *)
(* a valid result: the item is answered again, which takes the file away.  *)
NoLitter == \A i \in Item : tmp[i] # None => out[i] \notin Result

ScoredKnown == {i \in In(Known) : out[i] \in Score}

(* The running averages count exactly the results that are on disk and     *)
(* known to main(), those of earlier runs with those of this one.          *)
AveragesMatchDisk ==
  Active =>
    /\ \A i \in In(Known) : out[i] \in Result
    /\ count = Cardinality(ScoredKnown)
    /\ total = MapThenSumSet(LAMBDA i : out[i], ScoredKnown)

(* "Finished with {} worker failure(s); re-run to retry missing outputs":  *)
(* a run that ends reports as many failures as results are missing, and    *)
(* its average is over all that exist.                                     *)
MissingReported ==
  [][mode # "ended" /\ mode' = "ended" =>
       /\ failures' = Cardinality({i \in Item : out'[i] \notin Result})
       /\ count' = Cardinality({i \in Item : out'[i] \in Score})]_vars

(* A run that an exception leaves has nothing half done.  In the scan, no  *)
(* item was touched; later, with a single worker, only the item that       *)
(* failed is neither in the averages nor untouched.                        *)
AbortIsClean ==
  mode = "aborted" =>
    /\ In(Known \cup {"unseen", "pending", "error"}) = Item
    /\ IF In({"unseen"}) = {} THEN Cardinality(In({"error"})) = 1
                              ELSE In({"error"}) = {}

(* Every run comes to an end, however many answers fail.                   *)
RunEnds == Active ~> ~Active

Fault ==
  \/ Crash
  \/ \E i \in Item : \/ AnswerFails(i) \/ WriteFails(i)
                     \/ ReadFails(i) \/ Damage(i)
                     \/ out[i] # Garbled /\ ScanRaises(i)

(* Once faults stop and garbled files, at which every run raises, have     *)
(* been taken away by hand, re-running fills the directory with all        *)
(* results.                                                                *)
RerunsFill ==
  /\ <>[][~Fault]_vars
  /\ []<>(\A i \in Item : out[i] # Garbled)
  => <>[](\A i \in Item : out[i] \in Result)

=============================================================================
