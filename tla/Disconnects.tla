----------------------------- MODULE Disconnects -----------------------------
(***************************************************************************)
(* ObjectStore with clients that go away.  The server (axum over hyper)    *)
(* drops the future of a handler whose connection closes once the request  *)
(* has been read: the handler stops at its await and never goes on.  The   *)
(* guards it holds are released and its place in the lock's queue is given *)
(* up, but there is no destructor for its temporary file, and the file     *)
(* operation it was waiting for runs on, on tokio's blocking threads, and  *)
(* ends at a time of its own.                                              *)
(***************************************************************************)
EXTENDS ObjectStore, SequencesExt

VARIABLE orphans   \* file operations whose handler is gone

vars_d == <<vars, orphans>>

InitD == Init /\ orphans = {}

Rename(s) == [op |-> "rename", key |-> K(s), value |-> temp[s]]
Unlink(s) == [op |-> "unlink", key |-> K(s), value |-> None]
Save(s)   == [op |-> "save",   key |-> K(s), value |-> CacheRecord(entry[s])]
Uncache(s) == [op |-> "save",  key |-> K(s), value |-> None]

(* What goes on without the handler: nothing, or the operation under way.  *)
(* A save may be cut off before the write, while the directory is made.    *)
RunsOn(s) ==
  CASE pc[s] = "rename"  -> IF RenameCanSucceed(s) THEN {{Rename(s)}} ELSE {{}}
    [] pc[s] = "save"    -> {{}, {Save(s)}}
    [] pc[s] = "unlink"  -> IF UnlinkCanSucceed(s) THEN {{Unlink(s)}} ELSE {{}}
    [] pc[s] = "uncache" -> {{Uncache(s)}}
    [] OTHER             -> {{}}

(* While a body is being received the handler sees the broken connection   *)
(* as an error of the body (PutBreak); before, nobody watches it, unless   *)
(* there is no body to come.  An add_header has no connection.             *)
Watched(s) ==
  /\ pc[s] # "idle" /\ req[s].op # "add_header"
  /\ \/ pc[s] \in Writing \cup {"commit", "open", "evaluate", "lookup"}
     \/ pc[s] \in {"resolve", "check", "create"} /\ req[s].body = << >>
     \/ pc[s] = "discard" /\ writer = s

(* The temporary file that stays behind, if any: a file about to be made   *)
(* may be made yet.                                                        *)
Leftovers(s) ==
  CASE pc[s] = "create" -> {{}, {File(<< >>, now)}}
    [] pc[s] \in {"commit", "discard"} \/ (pc[s] = "rename" /\ ~RenameCanSucceed(s)) -> {{temp[s]}}
    [] OTHER -> {{}}

(* A request waits in one place of the lock's queue at most.               *)
GiveUpPlace(s) ==
  \/ \E i \in DOMAIN queue : queue[i] = s /\ queue' = RemoveAt(queue, i)
  \/ s \notin Range(queue) /\ UNCHANGED queue

GiveUpWrite_Forgotten(s) == UNCHANGED writer
GiveUpWrite(s) == writer' = IF writer = s THEN None ELSE writer

Disconnect(s) ==
  /\ Watched(s)
  /\ \E running \in RunsOn(s) : orphans' = orphans \cup running
  /\ \E left \in Leftovers(s) : litter' = litter \cup left
  /\ GiveUpPlace(s)
  /\ readers' = readers \ {s}
  /\ GiveUpWrite(s)
  /\ pc' = [pc EXCEPT ![s] = "idle"]
  /\ req' = [req EXCEPT ![s] = None]
  /\ resp' = [resp EXCEPT ![s] = None]
  /\ entry' = [entry EXCEPT ![s] = None]
  /\ temp' = [temp EXCEPT ![s] = None]
  /\ UNCHANGED <<time, disk, cache, index>>

Land(o) ==
  /\ o \in orphans
  /\ orphans' = orphans \ {o}
  /\ IF o.op = "save"
       THEN cache' = [cache EXCEPT ![o.key] = o.value] /\ UNCHANGED disk
       ELSE disk' = [disk EXCEPT ![o.key] = o.value] /\ UNCHANGED cache
  /\ UNCHANGED <<time, litter, index, lock, local>>

NextD ==
  \/ Next /\ UNCHANGED orphans
  \/ \E s \in Slot : Disconnect(s)
  \/ \E o \in orphans : Land(o)

SpecD == InitD /\ [][NextD]_vars_d

-----------------------------------------------------------------------------
(* Properties: those of the lock (LockDiscipline) and of the index         *)
(* (NoLostUpdate) still hold, no client takes the lock away with it.       *)

(* put_object.rs: re-check, rename, cache write and index update are a     *)
(* single atomic unit; so once nothing is under way the index holds just   *)
(* the keys that have a file.                                              *)
CommitIsOneUnit ==
  orphans = {} /\ writer = None => \A k \in Key : (disk[k] = None) <=> (index[k] = None)
=============================================================================
