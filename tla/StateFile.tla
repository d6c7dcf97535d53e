----------------------------- MODULE StateFile -----------------------------
(***************************************************************************)
(* save_state, server/信令服务器.py, as the file system sees it: the       *)
(* snapshot is taken under state_lock, but the file is written without it, *)
(* by the receive loops (after a join or a leave) and the cleanup thread.  *)
(* Each writes the one temporary name and renames it to the state file.    *)
(***************************************************************************)
EXTENDS Naturals, Sequences, SequencesExt

CONSTANTS Savers,    \* the threads that save
          Snapshots, \* what the registry may be, each with ...
          Length,    \* ... the length of its JSON text, at least one
          Files, NoFile

VARIABLES text,  \* the contents of each file (of each inode)
          tmp,   \* the file path + ".tmp" names, or NoFile
          path,  \* the file the state path names, or NoFile
          saver  \* what each thread is saving: snapshot, file, what it wrote of it

vars == <<text, tmp, path, saver>>

NoSave == [pc |-> "idle"]

\* Part of a text that was never written, between two that were.
Hole == "hole"

Init == /\ text = [f \in Files |-> <<>>]
        /\ tmp = NoFile /\ path = NoFile
        /\ saver = [s \in Savers |-> NoSave]

\* The snapshot, under state_lock.
Take(s) == /\ saver[s] = NoSave
           /\ \E d \in Snapshots : saver' = [saver EXCEPT ![s] = [pc |-> "open", data |-> d]]
           /\ UNCHANGED <<text, tmp, path>>

\* Files nothing refers to.
Unlinked == Files \ ({tmp, path} \cup {saver[s].file : s \in {u \in Savers :
                                                     saver[u].pc = "write"}})

\* open(tmp, "w"): the file of that name, emptied, or a new one.
Open(s) == /\ saver[s].pc = "open"
           /\ \E f \in IF tmp = NoFile THEN Unlinked ELSE {tmp} :
                /\ tmp' = f /\ text' = [text EXCEPT ![f] = <<>>]
                /\ saver' = [saver EXCEPT ![s] = [pc |-> "write", data |-> saver[s].data,
                                                 file |-> f, at |-> 0]]
           /\ UNCHANGED path

\* A flush of the buffered text, at the position this thread has come to.
Write(s) ==
  /\ saver[s].pc = "write" /\ saver[s].at < Length[saver[s].data]
  /\ LET at == saver[s].at + 1
         old == text[saver[s].file]
         long == old \o [i \in 1 .. (IF at > Len(old) THEN at - Len(old) ELSE 0) |-> Hole]
     IN /\ text' = [text EXCEPT ![saver[s].file] = ReplaceAt(long, at, saver[s].data)]
        /\ saver' = [saver EXCEPT ![s].at = at]
  /\ UNCHANGED <<tmp, path>>

\* os.replace(tmp, path), which fails if another thread has done it.
Replace(s) == /\ saver[s].pc = "write" /\ saver[s].at = Length[saver[s].data]
              /\ IF tmp = NoFile THEN UNCHANGED <<tmp, path>>
                 ELSE path' = tmp /\ tmp' = NoFile
              /\ saver' = [saver EXCEPT ![s] = NoSave]
              /\ UNCHANGED text

Next == \E s \in Savers : Take(s) \/ Open(s) \/ Write(s) \/ Replace(s)

Spec == Init /\ [][Next]_vars

\* 信令服务器.py:182, the replacement is atomic so that a crash half-way through
\* a write does no harm: whenever the server stops, the state file is one
\* snapshot, whole.
FileIsWhole == path # NoFile =>
  \E d \in Snapshots : text[path] = [i \in 1 .. Length[d] |-> d]
=============================================================================
