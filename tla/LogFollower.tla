---------------------------- MODULE LogFollower ----------------------------
(***************************************************************************)
(* internal/util/env_log.go and exposePerContainerLog of kind.go: the log  *)
(* of a pod is copied to one file, a goroutine per container.  The caller  *)
(* of KindSetup and its listener both ask for it (KindSetup's ExposeLog);  *)
(* whether the pod is followed is known only when a first line has been    *)
(* read, so that the file may be created again.  A second creation empties *)
(* the file and writes it from its start, while the first handle goes on   *)
(* at its own offset.  A line takes one place in the file; what a stream   *)
(* leaves without a newline is not written, and is not a line here.        *)
(***************************************************************************)
EXTENDS Integers, FiniteSets, Sequences

CONSTANTS Caller,      \* the goroutines that ask for the log
          Container,   \* the containers a pod may have
          MaxCalls,    \* bound on the calls of each of them
          MaxHandles,  \* bound on the creations of the file
          NumLines     \* the lines a container prints

ASSUME FollowerAssumption ==
  MaxCalls \in Nat /\ MaxHandles \in Nat /\ NumLines \in Nat

Handle == 1..MaxHandles

VARIABLES
  containers,  \* the containers of the pod, fixed
  at,          \* where each caller is
  calls,       \* calls it has made
  handle,      \* the handle its call has created, 0 before
  opened,      \* the containers whose stream its call has opened
  created,     \* handles created so far
  offset,      \* the offset of each handle
  closer,      \* the goroutine that closes it: "none", "wait" or "closed"
  reader,      \* the goroutine of each handle and container
  got,         \* lines it has read
  file,        \* what the file holds
  following,   \* the mark of the pod
  cancelled    \* CloseLogFollower has been called

callVars == <<at, calls, handle, opened>>
readVars == <<reader, got, following>>
vars == <<containers, callVars, created, offset, closer, readVars, file, cancelled>>

\* A place in the file that was skipped.
Hole == <<>>

Init ==
  /\ containers \in SUBSET Container /\ containers # {}
  /\ at = [k \in Caller |-> "idle"] /\ calls = [k \in Caller |-> 0]
  /\ handle = [k \in Caller |-> 0] /\ opened = [k \in Caller |-> {}]
  /\ created = 0 /\ offset = [h \in Handle |-> 0]
  /\ closer = [h \in Handle |-> "none"]
  /\ reader = [h \in Handle |-> [c \in Container |-> "none"]]
  /\ got = [h \in Handle |-> [c \in Container |-> 0]]
  /\ file = <<>> /\ following = FALSE /\ cancelled = FALSE

-----------------------------------------------------------------------------
(* The callers.                                                            *)

\* IsFollowed: a pod with the mark is passed over, as is one that is not
\* running.
Ask(k) ==
  /\ at[k] = "idle" /\ calls[k] < MaxCalls
  /\ calls' = [calls EXCEPT ![k] = @ + 1]
  /\ \/ UNCHANGED at
     \/ ~following /\ at' = [at EXCEPT ![k] = "create"]
  /\ UNCHANGED <<containers, handle, opened, created, offset, closer, readVars,
                 file, cancelled>>

\* Fault: the file is opened for appending, not created.
Create_appends(k) ==
  /\ at[k] = "create" /\ created < MaxHandles
  /\ created' = created + 1
  /\ at' = [at EXCEPT ![k] = "open"]
  /\ handle' = [handle EXCEPT ![k] = created + 1]
  /\ opened' = [opened EXCEPT ![k] = {}]
  /\ offset' = [offset EXCEPT ![created + 1] = Len(file)] /\ UNCHANGED file
  /\ UNCHANGED <<containers, calls, closer, readVars, cancelled>>

\* BuildLogWriter: os.IsExist(nil) is false, so that a file that is there is
\* not removed but emptied, under the handles that are writing it.
Create(k) ==
  /\ at[k] = "create" /\ created < MaxHandles
  /\ created' = created + 1
  /\ at' = [at EXCEPT ![k] = "open"]
  /\ handle' = [handle EXCEPT ![k] = created + 1]
  /\ opened' = [opened EXCEPT ![k] = {}]
  /\ file' = <<>> /\ UNCHANGED offset
  /\ UNCHANGED <<containers, calls, closer, readVars, cancelled>>

\* The pod has no log, or the file cannot be created: an error.
CreateFails(k) ==
  /\ at[k] = "create" /\ at' = [at EXCEPT ![k] = "idle"]
  /\ UNCHANGED <<containers, calls, handle, opened, created, offset, closer,
                 readVars, file, cancelled>>

\* The stream of the next container, in the order of a map, and its goroutine.
\* ConsumeLog asks for the mark under a name it never has, and goes on.
Open(k, c) ==
  /\ at[k] = "open" /\ c \in containers \ opened[k] /\ ~cancelled
  /\ opened' = [opened EXCEPT ![k] = @ \cup {c}]
  /\ reader' = [reader EXCEPT ![handle[k]][c] = "read"]
  /\ UNCHANGED <<containers, at, calls, handle, created, offset, closer, got,
                 following, file, cancelled>>

\* A stream that is refused: the call returns, the goroutines it has started
\* go on, and nothing will close the file.
OpenFails(k) ==
  /\ at[k] = "open" /\ opened[k] # containers
  /\ at' = [at EXCEPT ![k] = "idle"]
  /\ UNCHANGED <<containers, calls, handle, opened, created, offset, closer,
                 readVars, file, cancelled>>

\* All are open: a last goroutine waits for the others.
Opened(k) ==
  /\ at[k] = "open" /\ opened[k] = containers
  /\ at' = [at EXCEPT ![k] = "idle"]
  /\ closer' = [closer EXCEPT ![handle[k]] = "wait"]
  /\ UNCHANGED <<containers, calls, handle, opened, created, offset, readVars,
                 file, cancelled>>

Call(k) ==
  \/ Create(k) \/ CreateFails(k) \/ OpenFails(k) \/ Opened(k)
  \/ \E c \in Container : Open(k, c)

-----------------------------------------------------------------------------
(* The goroutines of a handle.                                             *)

\* A line is read, and the pod is marked ...
Read(h, c) ==
  /\ reader[h][c] = "read" /\ got[h][c] < NumLines
  /\ got' = [got EXCEPT ![h][c] = @ + 1] /\ following' = TRUE
  /\ reader' = [reader EXCEPT ![h][c] = "write"]
  /\ UNCHANGED <<containers, callVars, created, offset, closer, file, cancelled>>

Put(f, p, x) ==
  [i \in 1..(IF p < Len(f) THEN Len(f) ELSE p + 1) |->
     IF i = p + 1 THEN x ELSE IF i <= Len(f) THEN f[i] ELSE Hole]

\* ... and written at the offset the containers share.
Write(h, c) ==
  /\ reader[h][c] = "write"
  /\ file' = Put(file, offset[h], <<c, got[h][c]>>)
  /\ offset' = [offset EXCEPT ![h] = @ + 1]
  /\ reader' = [reader EXCEPT ![h][c] = "read"]
  /\ UNCHANGED <<containers, callVars, created, closer, got, following, cancelled>>

\* Fault: the stream is opened under a context nobody cancels.
EndStream_not_cancelled(h, c) ==
  /\ reader[h][c] = "read" /\ got[h][c] = NumLines /\ ~cancelled
  /\ reader' = [reader EXCEPT ![h][c] = "done"]
  /\ UNCHANGED <<containers, callVars, created, offset, closer, got, following,
                 file, cancelled>>

\* The stream ends with its container, when the follower is closed, or when
\* the connection is lost.
EndStream(h, c) ==
  /\ reader[h][c] = "read"
  /\ reader' = [reader EXCEPT ![h][c] = "done"]
  /\ UNCHANGED <<containers, callVars, created, offset, closer, got, following,
                 file, cancelled>>

\* Fault: the file is closed as soon as one of its goroutines has ended.
CloseFile_after_one(h) ==
  /\ closer[h] = "wait" /\ \E c \in containers : reader[h][c] = "done"
  /\ closer' = [closer EXCEPT ![h] = "closed"]
  /\ UNCHANGED <<containers, callVars, created, offset, readVars, file, cancelled>>

CloseFile(h) ==
  /\ closer[h] = "wait" /\ \A c \in containers : reader[h][c] = "done"
  /\ closer' = [closer EXCEPT ![h] = "closed"]
  /\ UNCHANGED <<containers, callVars, created, offset, readVars, file, cancelled>>

\* CloseLogFollower.
Cancel ==
  /\ ~cancelled /\ cancelled' = TRUE
  /\ UNCHANGED <<containers, callVars, created, offset, closer, readVars, file>>

Next ==
  \/ Cancel
  \/ \E k \in Caller : Ask(k) \/ Call(k)
  \/ \E h \in Handle :
       CloseFile(h) \/ \E c \in Container : Read(h, c) \/ Write(h, c) \/ EndStream(h, c)

\* A call ends, a line that was read is written, a stream ends when it is
\* cancelled, and the file is closed then; a pod need not print or end.
Fairness ==
  /\ \A k \in Caller : WF_vars(Call(k))
  /\ \A h \in Handle : WF_vars(CloseFile(h))
  /\ \A h \in Handle, c \in Container :
       WF_vars(Write(h, c)) /\ WF_vars(cancelled /\ EndStream(h, c))

Spec == Init /\ [][Next]_vars /\ Fairness

-----------------------------------------------------------------------------
\* The variables keep their types.
TypeOK ==
  /\ containers \in SUBSET Container
  /\ at \in [Caller -> {"idle", "create", "open"}]
  /\ calls \in [Caller -> 0..MaxCalls]
  /\ handle \in [Caller -> 0..MaxHandles] /\ created \in 0..MaxHandles
  /\ \A k \in Caller : handle[k] <= created /\ (at[k] = "open" => handle[k] > 0)
  /\ opened \in [Caller -> SUBSET Container]
  /\ offset \in [Handle -> Nat]
  /\ closer \in [Handle -> {"none", "wait", "closed"}]
  /\ reader \in [Handle -> [Container -> {"none", "read", "write", "done"}]]
  /\ got \in [Handle -> [Container -> 0..NumLines]]
  /\ following \in BOOLEAN /\ cancelled \in BOOLEAN

\* A handle is closed only behind the last of its goroutines: no line that has
\* been read meets a closed file.
ClosedIsQuiet ==
  \A h \in Handle : closer[h] = "closed" =>
    \A c \in containers : reader[h][c] = "done"

\* Lines are read only where a stream was opened, and the mark tells of one.
MarkIsTrue == following => \E h \in Handle, c \in Container : got[h][c] > 0

\* All three.
Inv == TypeOK /\ ClosedIsQuiet /\ MarkIsTrue

\* The places of the lines of c in the file.
PlacesOf(c) == {p \in DOMAIN file : file[p] # Hole /\ file[p][1] = c}

\* Which of them p is, in the order of the file.
Rank(c, p) == Cardinality({q \in PlacesOf(c) : q <= p})

Written(h, c) == got[h][c] - (IF reader[h][c] = "write" THEN 1 ELSE 0)

\* A file that was created once holds, for every container, the lines read of
\* it so far, each once and in order, however the goroutines interleave.
CreatedOnceIsTrue ==
  created = 1 =>
    /\ Len(file) = offset[1] /\ \A i \in DOMAIN file : file[i] # Hole
    /\ \A c \in containers :
         /\ Cardinality(PlacesOf(c)) = Written(1, c)
         /\ \A p \in PlacesOf(c) : file[p] = <<c, Rank(c, p)>>

\* The file of a pod with one container holds every line at its own place or
\* has a hole there, whichever handles write it; what the last handle has
\* written has none: a file that was emptied is filled again.
OneContainerHeals ==
  \A c \in Container : containers = {c} /\ created > 0 =>
    /\ \A i \in DOMAIN file : file[i] \in {Hole, <<c, i>>}
    /\ \A i \in 1..Written(created, c) : i <= Len(file) /\ file[i] = <<c, i>>

\* Both: unless a pod of several containers has its file created again, its
\* log is what was printed.
FileIsTrue == CreatedOnceIsTrue /\ OneContainerHeals

\* Nothing follows the pod any more, and no file waits to be closed.
Quiet ==
  \A h \in Handle :
    /\ closer[h] # "wait"
    /\ \A c \in Container : reader[h][c] \in {"none", "done"}

\* Once the follower is closed every goroutine of it ends.
CloseEndsAll == cancelled ~> Quiet
=============================================================================
