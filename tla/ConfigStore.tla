----------------------------- MODULE ConfigStore -----------------------------
(***************************************************************************)
(* src/utils/Config.ts: one Config object over the tree of config files.   *)
(* The object has a current path and the data of the file it loaded last,  *)
(* and everybody who uses the object shares both.  setPath moves the path  *)
(* at once and the data only when the file has been read; save makes the   *)
(* directory first and looks at the path and the data after that.          *)
(*                                                                         *)
(* A client waits for one operation at a time: io[c] says how far it is.   *)
(* The steps of a client that waits are its own: these operators say what  *)
(* the object does in them, the module that uses them what data becomes.   *)
(* One writeFile of a short file is taken to be atomic.                    *)
(***************************************************************************)
CONSTANTS
  Name,   \* this object, among those that share the files
  Root,   \* the path '/'
  Blank   \* {}, the data of a file that is missing or cannot be decoded

VARIABLES
  path,   \* currentPath, with currentDir and currentFile
  data,   \* data
  disk,   \* [path -> data]: the files, Blank where there is none
  io      \* [client -> what it waits for]

NoIO == [op |-> "none", store |-> "none", file |-> Root, content |-> Blank]

\* The client waits for this object: what for, and for which file.
Pending(op, p) == [op |-> op, store |-> Name, file |-> p, content |-> Blank]

Waits(c, op) == io[c].op = op /\ io[c].store = Name

\* The client sees the file it asked for, and goes on.
Got(c) == Waits(c, "fetched")

\* Its save is done.
Saved(c) == Waits(c, "flushed")

\* Its save has thrown.
Failed(c) == Waits(c, "failed")

\* setPath(p), up to the await.
Open(c, p) ==
  /\ path' = p
  /\ io' = [io EXCEPT ![c] = Pending("read", p)]

\* read(p), up to the await: the current path stays.
Peek(c, p) ==
  /\ io' = [io EXCEPT ![c] = Pending("read", p)]
  /\ UNCHANGED path

\* save(), up to the first await.
Save(c) ==
  /\ io' = [io EXCEPT ![c] = Pending("mkdir", Root)]
  /\ UNCHANGED path

\* The client goes on without this object.
Close(c) ==
  /\ io' = [io EXCEPT ![c] = NoIO]
  /\ UNCHANGED path

\* The file system reads the file.
Fetch(c) ==
  /\ Waits(c, "read")
  /\ io' = [io EXCEPT ![c].op = "fetched", ![c].content = disk[io[c].file]]
  /\ UNCHANGED <<path, data, disk>>

\* readFile rejects, for whatever reason, or the authority's answer is not ok:
\* the client sees {}.  (An authority that cannot be reached, or refuses the
\* login, makes read throw instead, with the path moved and the old data left:
\* that is not modelled, as no file of this machine does it.)
FetchNothing(c) ==
  /\ Waits(c, "read")
  /\ io' = [io EXCEPT ![c].op = "fetched", ![c].content = Blank]
  /\ UNCHANGED <<path, data, disk>>

\* The directory is there: writeFile gets the path and the data of this moment.
Write(c) ==
  /\ Waits(c, "mkdir")
  /\ io' = [io EXCEPT ![c].op = "write", ![c].file = path, ![c].content = data]
  /\ UNCHANGED <<path, data, disk>>

\* The file system writes the file; save still tightens the permissions.
Flush(c) ==
  /\ Waits(c, "write")
  /\ disk' = [disk EXCEPT ![io[c].file] = io[c].content]
  /\ io' = [io EXCEPT ![c].op = "flushed"]
  /\ UNCHANGED <<path, data>>

\* mkdir or writeFile rejects.
Fail(c) ==
  /\ Waits(c, "mkdir") \/ Waits(c, "write")
  /\ io' = [io EXCEPT ![c].op = "failed"]
  /\ UNCHANGED <<path, data, disk>>

=============================================================================
