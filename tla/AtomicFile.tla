----------------------------- MODULE AtomicFile -----------------------------
(***************************************************************************)
(* config::atomic_write (crates/config/src/lib.rs) on one configuration    *)
(* file: threads of the daemon that call it at the same time, calls that   *)
(* fail half way, processes that are killed and machines that lose power.  *)
(* A call writes a file of its own, under a temporary name made of the     *)
(* process id and a counter, and renames it over the target.               *)
(*                                                                         *)
(* Of the file system: rename is atomic; sync_all of a file makes its      *)
(* content last and sync_all of a directory its names; what is not synced  *)
(* may be lost by a power failure, changes of names from the last one on.  *)
(***************************************************************************)
EXTENDS Integers, Sequences, FiniteSets

CONSTANTS
  Writer,     \* threads that save
  Pid,        \* process ids of the daemon; in a container often one
  MaxWrites,  \* bound: calls of a behaviour
  MaxStops    \* bound: ends of the process or of the machine

ASSUME FileAssumption ==
  /\ IsFiniteSet(Writer) /\ Pid \subseteq Nat \ {0} /\ Pid # {}
  /\ MaxWrites \in Nat /\ MaxStops \in Nat

VARIABLES
  writer,    \* what each thread is doing, in which call, with which name
  counter,   \* NEXT
  pid,       \* of the running process
  calls,     \* calls so far; a call's number is that of the file it creates
  content,   \* of every file: the initial one (0) and those of the calls
  trail,     \* the directory when it was last synced and after each change
  renames,   \* history: files in the order in which they became the target
  acked,     \* history: calls that returned Ok
  stops

fileVars == <<writer, counter, pid, calls, content, trail, renames, acked, stops>>

Target == <<0, 0>>
Dir == trail[Len(trail)]

FileTypeOK ==
  /\ writer \in [Writer -> [pc : {"idle", "open", "write", "sync", "rename", "syncdir"},
                            file : 0..MaxWrites, tmp : (Pid \cup {0}) \X (0..MaxWrites)]]
  /\ counter \in 0..calls /\ pid \in Pid /\ calls \in 0..MaxWrites
  /\ content \in [0..calls -> {"none", "part", "whole", "synced", "torn"}]
  /\ Len(trail) > 0
  /\ \A i \in DOMAIN trail : Target \in DOMAIN trail[i]
  /\ acked \subseteq 1..calls /\ stops \in 0..MaxStops

Idle == [pc |-> "idle", file |-> 0, tmp |-> Target]

FileInit ==
  /\ writer = [w \in Writer |-> Idle]
  /\ counter = 0 /\ pid \in Pid /\ calls = 0
  /\ content = [f \in {0} |-> "synced"]
  /\ trail = <<[n \in {Target} |-> 0]>>
  /\ renames = <<0>> /\ acked = {} /\ stops = 0

-----------------------------------------------------------------------------
Doing(w, pc) == writer[w].pc = pc
Then(w, pc) == writer' = [writer EXCEPT ![w].pc = pc]
Change(dir) == trail' = Append(trail, dir)
Without(dir, name) == [n \in DOMAIN dir \ {name} |-> dir[n]]

Call(w) ==
  /\ Doing(w, "idle") /\ calls < MaxWrites
  /\ calls' = calls + 1 /\ counter' = counter + 1
  /\ content' = [f \in 0..calls + 1 |-> IF f = calls + 1 THEN "none" ELSE content[f]]
  /\ writer' = [writer EXCEPT ![w] =
                  [pc |-> "open", file |-> calls + 1, tmp |-> <<pid, counter>>]]
  /\ UNCHANGED <<pid, trail, renames, acked, stops>>

(* create_new: fails when the name exists, left by an earlier process.     *)
Open(w) ==
  LET tmp == writer[w].tmp
  IN  /\ Doing(w, "open") /\ tmp \notin DOMAIN Dir
      /\ Change([n \in DOMAIN Dir \cup {tmp} |-> IF n = tmp THEN writer[w].file ELSE Dir[n]])
      /\ content' = [content EXCEPT ![writer[w].file] = "part"]
      /\ Then(w, "write")
      /\ UNCHANGED <<counter, pid, calls, renames, acked, stops>>

WriteAll(w) ==
  /\ Doing(w, "write")
  /\ content' = [content EXCEPT ![writer[w].file] = "whole"]
  /\ Then(w, "sync")
  /\ UNCHANGED <<counter, pid, calls, trail, renames, acked, stops>>

(* Seeded defect: the file is not synced before it is renamed.               *)
SyncFileSkipped(w) ==
  /\ Doing(w, "sync") /\ Then(w, "rename")
  /\ UNCHANGED <<counter, pid, calls, content, trail, renames, acked, stops>>

SyncFile(w) ==
  /\ Doing(w, "sync")
  /\ content' = [content EXCEPT ![writer[w].file] = "synced"]
  /\ Then(w, "rename")
  /\ UNCHANGED <<counter, pid, calls, trail, renames, acked, stops>>

Rename(w) ==
  LET tmp == writer[w].tmp
  IN  /\ Doing(w, "rename") /\ tmp \in DOMAIN Dir
      /\ Change([Without(Dir, tmp) EXCEPT ![Target] = Dir[tmp]])
      /\ renames' = Append(renames, Dir[tmp])
      /\ Then(w, "syncdir")
      /\ UNCHANGED <<counter, pid, calls, content, acked, stops>>

SyncDir(w) ==
  /\ Doing(w, "syncdir")
  /\ trail' = <<Dir>>
  /\ acked' = acked \cup {writer[w].file}
  /\ writer' = [writer EXCEPT ![w] = Idle]
  /\ UNCHANGED <<counter, pid, calls, content, renames, stops>>

(* Any step may fail, the last one after the rename. The temporary name is *)
(* removed, whoever made it, unless that fails too.                        *)
CallFails(w) ==
  /\ ~Doing(w, "idle")
  /\ writer' = [writer EXCEPT ![w] = Idle]
  /\ \/ writer[w].tmp \in DOMAIN Dir /\ Change(Without(Dir, writer[w].tmp))
     \/ UNCHANGED trail
  /\ UNCHANGED <<counter, pid, calls, content, renames, acked, stops>>

-----------------------------------------------------------------------------
(* The next process counts from zero again.                                *)
Restarted ==
  /\ stops < MaxStops /\ stops' = stops + 1
  /\ writer' = [w \in Writer |-> Idle]
  /\ counter' = 0 /\ pid' \in Pid
  /\ UNCHANGED <<calls, renames, acked>>

Killed == Restarted /\ UNCHANGED <<content, trail>>

Unsynced == {f \in DOMAIN content : content[f] \in {"part", "whole"}}

PowerLoss ==
  /\ Restarted
  /\ \E i \in DOMAIN trail : trail' = <<trail[i]>>
  /\ \E Torn \in SUBSET Unsynced :
       content' = [f \in DOMAIN content |-> IF f \in Torn THEN "torn" ELSE content[f]]

FileNext ==
  \/ \E w \in Writer :
       \/ Call(w) \/ Open(w) \/ WriteAll(w) \/ SyncFile(w)
       \/ Rename(w) \/ SyncDir(w) \/ CallFails(w)
  \/ Killed \/ PowerLoss

FileSpec == FileInit /\ [][FileNext]_fileVars

-----------------------------------------------------------------------------
Position(f) == CHOOSE i \in DOMAIN renames : renames[i] = f

(* "A crash cannot leave a partially truncated config": at every moment    *)
(* the target is one whole file, however calls of several threads, their   *)
(* failures, leftovers of earlier processes and power losses interleave;   *)
(* and it is never older than a call that returned Ok.                     *)
WholeFile ==
  /\ content[Dir[Target]] \in {"whole", "synced"}
  /\ \A f \in acked : Position(f) <= Position(Dir[Target])
=============================================================================
