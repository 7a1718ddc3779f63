------------------------- MODULE LogFollower_proofs -------------------------
(***************************************************************************)
(* Proofs about LogFollower, for any callers and containers and any number *)
(* of calls, creations of the file and lines: a file is closed behind the  *)
(* last of its goroutines, and unless a pod of several containers has its  *)
(* file created again, the file holds what was printed.  What is known of  *)
(* a handle rests on who holds it: one call, until its streams are open.   *)
(***************************************************************************)
EXTENDS LogFollower, FiniteSetTheorems, SequenceTheorems, TLAPS

\* A handle that was not created has done nothing.
Unused(h) ==
  /\ offset[h] = 0 /\ closer[h] = "none"
  /\ \A c \in Container : reader[h][c] = "none"

\* The goroutines of a handle: only the streams of containers were opened, and
\* all of them when it is to be closed; what was read of each.
HandleInv(h) ==
  /\ h > created => Unused(h)
  /\ closer[h] # "none" => \A c \in containers : reader[h][c] # "none"
  /\ closer[h] = "closed" => \A c \in containers : reader[h][c] = "done"
  /\ \A c \in Container :
       /\ reader[h][c] # "none" => c \in containers
       /\ reader[h][c] = "none" => got[h][c] = 0
       /\ reader[h][c] = "write" => got[h][c] > 0

\* A call that opens its streams holds its handle, and no other call does.
CallInv(k) ==
  at[k] = "open" =>
    /\ handle[k] \in Handle /\ handle[k] <= created /\ closer[handle[k]] = "none"
    /\ \A c \in containers : c \in opened[k] <=> reader[handle[k]][c] # "none"
    /\ \A l \in Caller : at[l] = "open" /\ handle[l] = handle[k] => l = k

\* The inductive invariant of the goroutines.
FollowInv ==
  /\ TypeOK /\ MarkIsTrue
  /\ \A h \in Handle : HandleInv(h)
  /\ \A k \in Caller : CallInv(k)

Line == (Container \X Nat) \cup {Hole}

\* The handle of a pod with one container is where its lines are.
OffsetInv ==
  \A c \in Container : containers = {c} =>
    \A h \in Handle : offset[h] = Written(h, c)

\* The inductive invariant of the file.
FileInv == file \in Seq(Line) /\ OffsetInv /\ FileIsTrue

-----------------------------------------------------------------------------
(* The goroutines.                                                         *)

\* One place of a table is changed.
LEMMA Table ==
  ASSUME NEW X, NEW f \in [Handle -> [Container -> X]],
         NEW h \in Handle, NEW c \in Container, NEW v \in X
  PROVE  /\ [f EXCEPT ![h][c] = v] \in [Handle -> [Container -> X]]
         /\ \A g \in Handle, d \in Container :
              [f EXCEPT ![h][c] = v][g][d] = IF g = h /\ d = c THEN v ELSE f[g][d]
  OBVIOUS

\* What each goroutine of a handle does to reader and got.
ReaderStep(h, c) ==
  \/ UNCHANGED got /\ reader[h][c] = "write"
       /\ reader' = [reader EXCEPT ![h][c] = "read"]
  \/ UNCHANGED got /\ reader[h][c] = "read"
       /\ reader' = [reader EXCEPT ![h][c] = "done"]
  \/ /\ got[h][c] < NumLines /\ got' = [got EXCEPT ![h][c] = @ + 1]
     /\ reader[h][c] = "read" /\ reader' = [reader EXCEPT ![h][c] = "write"]

\* Each step of it is one of these, at a handle and a stream that are there.
LEMMA ReaderSteps ==
  ASSUME NEW h \in Handle, NEW c \in Container,
         Read(h, c) \/ Write(h, c) \/ EndStream(h, c)
  PROVE  /\ ReaderStep(h, c)
         /\ UNCHANGED <<containers, at, calls, handle, opened, created, closer, cancelled>>
         /\ offset' = offset \/ offset' = [offset EXCEPT ![h] = @ + 1]
         /\ following' = following \/ (following' = TRUE /\ got' = [got EXCEPT ![h][c] = @ + 1])
  BY DEF Read, Write, EndStream, ReaderStep, callVars

\* What a goroutine does, place by place.
LEMMA ReaderTable ==
  ASSUME TypeOK, NEW h \in Handle, NEW c \in Container, ReaderStep(h, c)
  PROVE  /\ reader' \in [Handle -> [Container -> {"none", "read", "write", "done"}]]
         /\ got' \in [Handle -> [Container -> 0..NumLines]]
         /\ reader[h][c] \in {"read", "write"} /\ reader'[h][c] \in {"read", "write", "done"}
         /\ got'[h][c] \in {got[h][c], got[h][c] + 1}
         /\ reader'[h][c] = "write" => reader[h][c] = "read" /\ got'[h][c] = got[h][c] + 1
         /\ reader'[h][c] # "write" => got'[h][c] = got[h][c]
         /\ reader'[h][c] = "read" => reader[h][c] = "write"
         /\ reader'[h][c] = "done" => reader[h][c] = "read"
         /\ \A g \in Handle, d \in Container :
              g # h \/ d # c => reader'[g][d] = reader[g][d] /\ got'[g][d] = got[g][d]
<1>. DEFINE R == {"none", "read", "write", "done"}
<1>1. reader \in [Handle -> [Container -> R]] /\ got \in [Handle -> [Container -> 0..NumLines]]
  BY DEF TypeOK
<1>2. ASSUME NEW v \in {"read", "write", "done"}, reader' = [reader EXCEPT ![h][c] = v]
      PROVE  /\ reader' \in [Handle -> [Container -> R]] /\ reader'[h][c] = v
             /\ \A g \in Handle, d \in Container :
                  g # h \/ d # c => reader'[g][d] = reader[g][d]
  BY <1>1, <1>2, Table
<1>3. ASSUME got[h][c] < NumLines, got' = [got EXCEPT ![h][c] = @ + 1]
      PROVE  /\ got' \in [Handle -> [Container -> 0..NumLines]]
             /\ got'[h][c] = got[h][c] + 1
             /\ \A g \in Handle, d \in Container :
                  g # h \/ d # c => got'[g][d] = got[g][d]
  <2>1. got[h][c] + 1 \in 0..NumLines
    BY <1>1, <1>3, FollowerAssumption DEF FollowerAssumption
  <2>2. got' = [got EXCEPT ![h][c] = got[h][c] + 1]
    BY <1>3, Zenon
  <2>. QED
    BY <1>1, <2>1, <2>2, Table
<1>. HIDE DEF R
<1>4. got \in [Handle -> [Container -> 0..NumLines]] /\ got[h][c] # got[h][c] + 1
  BY <1>1
<1>. QED
  BY <1>2, <1>3, <1>4 DEF ReaderStep, R

\* A goroutine keeps what is known of the handles and the calls.
LEMMA ReaderInv ==
  ASSUME FollowInv, NEW h \in Handle, NEW c \in Container,
         Read(h, c) \/ Write(h, c) \/ EndStream(h, c)
  PROVE  FollowInv'
<1>1. /\ ReaderStep(h, c)
      /\ UNCHANGED <<containers, at, calls, handle, opened, created, closer, cancelled>>
      /\ offset' = offset \/ offset' = [offset EXCEPT ![h] = @ + 1]
  BY ReaderSteps
<1>2. TypeOK /\ MarkIsTrue /\ (\A g \in Handle : HandleInv(g)) /\ \A k \in Caller : CallInv(k)
  BY DEF FollowInv
<1>3. /\ reader' \in [Handle -> [Container -> {"none", "read", "write", "done"}]]
      /\ got' \in [Handle -> [Container -> 0..NumLines]]
      /\ reader[h][c] \in {"read", "write"} /\ reader'[h][c] \in {"read", "write", "done"}
      /\ got'[h][c] \in {got[h][c], got[h][c] + 1}
      /\ reader'[h][c] = "write" => got'[h][c] = got[h][c] + 1
      /\ \A g \in Handle, d \in Container :
           g # h \/ d # c => reader'[g][d] = reader[g][d] /\ got'[g][d] = got[g][d]
  BY <1>1, <1>2, ReaderTable
<1>4. got \in [Handle -> [Container -> 0..NumLines]] /\ offset \in [Handle -> Nat]
  BY <1>2 DEF TypeOK
<1>5. offset' \in [Handle -> Nat] /\ \A g \in Handle : g # h => offset'[g] = offset[g]
  BY <1>1, <1>4
<1>6. \A g \in Handle, d \in Container : got[g][d] > 0 => got'[g][d] > 0
  BY <1>3, <1>4
<1>7. following' \in BOOLEAN /\ MarkIsTrue'
  <2>1. CASE following' = following
    BY <1>2, <1>6, <2>1 DEF TypeOK, MarkIsTrue
  <2>2. CASE following' = TRUE /\ got' = [got EXCEPT ![h][c] = @ + 1]
    <3>1. got'[h][c] = got[h][c] + 1
      BY <1>4, <2>2
    <3>2. got'[h][c] > 0
      BY <1>4, <3>1
    <3>. QED
      BY <2>2, <3>2 DEF MarkIsTrue
  <2>. QED
    BY <2>1, <2>2, ReaderSteps
<1>8. TypeOK'
  BY <1>1, <1>2, <1>3, <1>5, <1>7 DEF TypeOK
<1>9. c \in containers /\ h <= created /\ closer[h] # "closed"
  <2>1. HandleInv(h) /\ reader[h][c] # "none" /\ reader[h][c] # "done"
    BY <1>2, <1>3
  <2>2. h \in Nat /\ created \in Nat
    BY <1>2, FollowerAssumption DEF TypeOK, Handle, FollowerAssumption
  <2>. QED
    BY <2>1, <2>2 DEF HandleInv, Unused
<1>10. ASSUME NEW g \in Handle PROVE HandleInv(g)'
  <2>1. HandleInv(g) /\ containers \subseteq Container
    BY <1>2 DEF TypeOK
  <2>2. CASE g # h
    BY <1>1, <1>3, <1>5, <2>1, <2>2 DEF HandleInv, Unused
  <2>3. CASE g = h
    <3>1. ~(h > created')
      BY <1>1, <1>2, <1>9, FollowerAssumption DEF TypeOK, Handle, FollowerAssumption
    <3>2. \A d \in Container : reader'[h][d] = "none" <=> reader[h][d] = "none"
      BY <1>3
    <3>3. reader'[h][c] = "write" => got'[h][c] > 0
      BY <1>3, <1>4
    <3>. QED
      BY <1>1, <1>3, <1>9, <2>1, <2>3, <3>1, <3>2, <3>3 DEF HandleInv
  <2>. QED
    BY <2>2, <2>3
<1>11. ASSUME NEW k \in Caller PROVE CallInv(k)'
  <2>1. \A g \in Handle, d \in containers : reader'[g][d] = "none" <=> reader[g][d] = "none"
    BY <1>2, <1>3 DEF TypeOK
  <2>. QED
    BY <1>1, <1>2, <2>1 DEF CallInv
<1>. QED
  BY <1>7, <1>8, <1>10, <1>11 DEF FollowInv

-----------------------------------------------------------------------------
(* The calls.                                                              *)

\* A creation takes the next handle, which nobody has used or holds.
LEMMA CreateInv == ASSUME FollowInv, NEW k \in Caller, Create(k) PROVE FollowInv'
<1>1. /\ created < MaxHandles /\ created' = created + 1
      /\ at' = [at EXCEPT ![k] = "open"] /\ handle' = [handle EXCEPT ![k] = created + 1]
      /\ opened' = [opened EXCEPT ![k] = {}]
      /\ UNCHANGED <<containers, calls, offset, closer, reader, got, following, cancelled>>
  BY DEF Create, readVars
<1>2. TypeOK /\ MarkIsTrue /\ (\A g \in Handle : HandleInv(g)) /\ \A l \in Caller : CallInv(l)
  BY DEF FollowInv
<1>3. /\ MaxHandles \in Nat /\ created \in 0..MaxHandles /\ handle \in [Caller -> 0..MaxHandles]
      /\ at \in [Caller -> {"idle", "create", "open"}] /\ opened \in [Caller -> SUBSET Container]
  BY <1>2, FollowerAssumption DEF TypeOK, FollowerAssumption
<1>4. created + 1 \in 1..MaxHandles /\ created' \in 0..MaxHandles
  BY <1>1, <1>3
<1>5. /\ at'[k] = "open" /\ handle'[k] = created + 1 /\ opened'[k] = {}
      /\ \A l \in Caller : l # k =>
           at'[l] = at[l] /\ handle'[l] = handle[l] /\ opened'[l] = opened[l]
  BY <1>1, <1>3
<1>6. TypeOK'
  <2>1. handle' \in [Caller -> 0..MaxHandles]
    BY <1>1, <1>3, <1>4
  <2>2. \A l \in Caller : handle'[l] <= created' /\ (at'[l] = "open" => handle'[l] > 0)
    <3>1. \A l \in Caller : handle[l] <= created /\ (at[l] = "open" => handle[l] > 0)
      BY <1>2 DEF TypeOK
    <3>. QED
      BY <1>1, <1>3, <1>5, <3>1
  <2>3. at' \in [Caller -> {"idle", "create", "open"}] /\ opened' \in [Caller -> SUBSET Container]
    BY <1>1, <1>3
  <2>. QED
    BY <1>1, <1>2, <1>4, <2>1, <2>2, <2>3 DEF TypeOK
<1>7. MarkIsTrue'
  BY <1>1, <1>2 DEF MarkIsTrue
<1>8. ASSUME NEW g \in Handle PROVE HandleInv(g)'
  <2>1. g > created' => g > created
    BY <1>1, <1>3 DEF Handle
  <2>. QED
    BY <1>1, <1>2, <2>1 DEF HandleInv, Unused
<1>9. Unused(created + 1) /\ created + 1 \in Handle
  <2>1. created + 1 \in Handle /\ created + 1 > created
    BY <1>3, <1>4 DEF Handle
  <2>. QED
    BY <1>2, <2>1 DEF HandleInv
<1>10. \A l \in Caller : l # k => handle'[l] # created + 1
  <2>1. \A l \in Caller : handle[l] <= created
    BY <1>2 DEF TypeOK
  <2>. QED
    BY <1>3, <1>5, <2>1
<1>11. ASSUME NEW l \in Caller PROVE CallInv(l)'
  <2>1. CASE l = k
    <3>1. \A c \in containers : c \notin opened'[k] /\ reader'[created + 1][c] = "none"
      BY <1>1, <1>2, <1>5, <1>9 DEF Unused, TypeOK
    <3>2. closer'[created + 1] = "none" /\ created + 1 <= created'
      BY <1>1, <1>3, <1>9 DEF Unused
    <3>. QED
      BY <1>1, <1>5, <1>9, <1>10, <2>1, <3>1, <3>2 DEF CallInv
  <2>2. CASE l # k
    <3>1. \A m \in Caller : at'[m] = "open" /\ handle'[m] = handle'[l] => m # k
      BY <1>5, <1>10, <2>2
    <3>2. handle[l] <= created => handle[l] <= created'
      BY <1>1, <1>3
    <3>. QED
      BY <1>1, <1>2, <1>5, <2>2, <3>1, <3>2 DEF CallInv
  <2>. QED
    BY <2>1, <2>2
<1>. QED
  BY <1>6, <1>7, <1>8, <1>11 DEF FollowInv

\* A stream is opened at the handle of the call.
LEMMA OpenInv ==
  ASSUME FollowInv, NEW k \in Caller, NEW c \in Container, Open(k, c) PROVE FollowInv'
<1>. DEFINE h == handle[k]
<1>1. /\ at[k] = "open" /\ c \in containers \ opened[k]
      /\ opened' = [opened EXCEPT ![k] = opened[k] \cup {c}]
      /\ reader' = [reader EXCEPT ![h][c] = "read"]
      /\ UNCHANGED <<containers, at, calls, handle, created, offset, closer, got, following,
                     cancelled>>
  BY DEF Open
<1>2. TypeOK /\ MarkIsTrue /\ (\A g \in Handle : HandleInv(g)) /\ \A l \in Caller : CallInv(l)
  BY DEF FollowInv
<1>3. /\ h \in Handle /\ h <= created /\ closer[h] = "none" /\ reader[h][c] = "none"
      /\ \A l \in Caller : at[l] = "open" /\ handle[l] = h => l = k
  BY <1>1, <1>2 DEF CallInv
<1>4. /\ reader' \in [Handle -> [Container -> {"none", "read", "write", "done"}]]
      /\ reader'[h][c] = "read"
      /\ \A g \in Handle, d \in Container : g # h \/ d # c => reader'[g][d] = reader[g][d]
  <2>1. reader \in [Handle -> [Container -> {"none", "read", "write", "done"}]]
    BY <1>2 DEF TypeOK
  <2>. HIDE DEF h
  <2>. QED
    BY <1>1, <1>3, <2>1, Table
<1>5. /\ opened' \in [Caller -> SUBSET Container] /\ opened'[k] = opened[k] \cup {c}
      /\ \A l \in Caller : l # k => opened'[l] = opened[l]
  BY <1>1, <1>2 DEF TypeOK
<1>6. TypeOK'
  BY <1>1, <1>2, <1>4, <1>5 DEF TypeOK
<1>7. MarkIsTrue'
  BY <1>1, <1>2 DEF MarkIsTrue
<1>8. ASSUME NEW g \in Handle PROVE HandleInv(g)'
  <2>1. HandleInv(g) /\ containers \subseteq Container
    BY <1>2 DEF TypeOK
  <2>2. CASE g # h
    BY <1>1, <1>4, <2>1, <2>2 DEF HandleInv, Unused
  <2>3. CASE g = h
    <3>1. ~(h > created')
      BY <1>1, <1>2, <1>3, FollowerAssumption DEF TypeOK, Handle, FollowerAssumption
    <3>. QED
      BY <1>1, <1>3, <1>4, <2>1, <2>3, <3>1 DEF HandleInv
  <2>. QED
    BY <2>2, <2>3
<1>9. ASSUME NEW l \in Caller PROVE CallInv(l)'
  <2>1. CASE l = k
    BY <1>1, <1>2, <1>3, <1>4, <1>5, <2>1 DEF CallInv, TypeOK
  <2>2. CASE l # k /\ at[l] = "open"
    <3>1. handle[l] # h /\ handle[l] \in Handle
      BY <1>2, <1>3, <2>2 DEF CallInv
    <3>2. \A d \in containers : reader'[handle[l]][d] = reader[handle[l]][d]
      BY <1>2, <1>4, <3>1 DEF TypeOK
    <3>. QED
      BY <1>1, <1>2, <1>5, <2>2, <3>2 DEF CallInv
  <2>3. CASE at[l] # "open"
    BY <1>1, <2>3 DEF CallInv
  <2>. QED
    BY <2>1, <2>2, <2>3
<1>. QED
  BY <1>6, <1>7, <1>8, <1>9 DEF FollowInv

\* A call that ends leaves its handle to the goroutine that closes it, when
\* all its streams are open, or to nobody.
LEMMA ReturnInv ==
  ASSUME FollowInv, NEW k \in Caller,
         at' = [at EXCEPT ![k] = "idle"],
         \/ UNCHANGED closer
         \/ /\ at[k] = "open" /\ opened[k] = containers
            /\ closer' = [closer EXCEPT ![handle[k]] = "wait"],
         UNCHANGED <<containers, calls, handle, opened, created, offset, reader, got,
                     following, cancelled>>
  PROVE  FollowInv'
<1>2. TypeOK /\ MarkIsTrue /\ (\A g \in Handle : HandleInv(g)) /\ \A l \in Caller : CallInv(l)
  BY DEF FollowInv
<1>3. /\ at' \in [Caller -> {"idle", "create", "open"}] /\ at'[k] = "idle"
      /\ \A l \in Caller : l # k => at'[l] = at[l]
  BY <1>2 DEF TypeOK
<1>4. CASE UNCHANGED closer
  <2>1. TypeOK' /\ MarkIsTrue'
    BY <1>2, <1>3, <1>4 DEF TypeOK, MarkIsTrue
  <2>2. ASSUME NEW g \in Handle PROVE HandleInv(g)'
    BY <1>2, <1>4 DEF HandleInv, Unused
  <2>3. ASSUME NEW l \in Caller PROVE CallInv(l)'
    BY <1>2, <1>3, <1>4 DEF CallInv
  <2>. QED
    BY <2>1, <2>2, <2>3 DEF FollowInv
<1>5. CASE /\ at[k] = "open" /\ opened[k] = containers
           /\ closer' = [closer EXCEPT ![handle[k]] = "wait"]
  <2>1. /\ handle[k] \in Handle /\ handle[k] <= created
        /\ \A c \in containers : reader[handle[k]][c] # "none"
        /\ \A l \in Caller : at[l] = "open" /\ handle[l] = handle[k] => l = k
    BY <1>2, <1>5 DEF CallInv
  <2>2. /\ closer' \in [Handle -> {"none", "wait", "closed"}] /\ closer'[handle[k]] = "wait"
        /\ \A g \in Handle : g # handle[k] => closer'[g] = closer[g]
    BY <1>2, <1>5, <2>1 DEF TypeOK
  <2>3. TypeOK' /\ MarkIsTrue'
    BY <1>2, <1>3, <2>2 DEF TypeOK, MarkIsTrue
  <2>4. ASSUME NEW g \in Handle PROVE HandleInv(g)'
    <3>1. CASE g # handle[k]
      BY <1>2, <2>2, <3>1 DEF HandleInv, Unused
    <3>2. CASE g = handle[k]
      <4>1. ~(g > created')
        BY <1>2, <2>1, <3>2, FollowerAssumption DEF TypeOK, Handle, FollowerAssumption
      <4>. QED
        BY <1>2, <2>1, <2>2, <3>2, <4>1 DEF HandleInv
    <3>. QED
      BY <3>1, <3>2
  <2>5. ASSUME NEW l \in Caller PROVE CallInv(l)'
    <3>1. CASE l # k /\ at[l] = "open"
      <4>1. handle[l] \in Handle /\ handle[l] # handle[k]
        BY <1>2, <2>1, <3>1 DEF CallInv
      <4>. QED
        BY <1>2, <1>3, <2>2, <3>1, <4>1 DEF CallInv
    <3>2. CASE l = k \/ at[l] # "open"
      BY <1>3, <3>2 DEF CallInv
    <3>. QED
      BY <3>1, <3>2
  <2>. QED
    BY <2>3, <2>4, <2>5 DEF FollowInv
<1>. QED
  BY <1>4, <1>5

\* To ask is no concern of the handles.
LEMMA AskInv == ASSUME FollowInv, NEW k \in Caller, Ask(k) PROVE FollowInv'
<1>1. TypeOK /\ MarkIsTrue /\ (\A g \in Handle : HandleInv(g)) /\ \A l \in Caller : CallInv(l)
  BY DEF FollowInv
<1>2. /\ at' = at \/ at' = [at EXCEPT ![k] = "create"]
      /\ calls[k] < MaxCalls /\ calls' = [calls EXCEPT ![k] = @ + 1]
      /\ UNCHANGED <<containers, handle, opened, created, offset, closer, reader, got,
                     following, cancelled>>
  BY DEF Ask, readVars
<1>3. /\ at' \in [Caller -> {"idle", "create", "open"}]
      /\ \A l \in Caller : at'[l] = "open" => at[l] = "open"
  BY <1>1, <1>2 DEF TypeOK
<1>4. calls' \in [Caller -> 0..MaxCalls]
  <2>1. calls \in [Caller -> 0..MaxCalls] /\ MaxCalls \in Nat
    BY <1>1, FollowerAssumption DEF TypeOK, FollowerAssumption
  <2>2. calls[k] < MaxCalls => calls[k] + 1 \in 0..MaxCalls
    BY <2>1
  <2>. QED
    BY <1>2, <2>1, <2>2
<1>5. TypeOK' /\ MarkIsTrue'
  BY <1>1, <1>2, <1>3, <1>4 DEF TypeOK, MarkIsTrue
<1>6. ASSUME NEW g \in Handle PROVE HandleInv(g)'
  BY <1>1, <1>2 DEF HandleInv, Unused
<1>7. ASSUME NEW l \in Caller PROVE CallInv(l)'
  BY <1>1, <1>2, <1>3 DEF CallInv
<1>. QED
  BY <1>5, <1>6, <1>7 DEF FollowInv

\* The file is closed when its goroutines have ended.
LEMMA CloseInv == ASSUME FollowInv, NEW h \in Handle, CloseFile(h) PROVE FollowInv'
<1>1. /\ closer[h] = "wait" /\ \A c \in containers : reader[h][c] = "done"
      /\ closer' = [closer EXCEPT ![h] = "closed"]
      /\ UNCHANGED <<containers, at, calls, handle, opened, created, offset, reader, got,
                     following, cancelled>>
  BY DEF CloseFile, callVars, readVars
<1>2. TypeOK /\ MarkIsTrue /\ (\A g \in Handle : HandleInv(g)) /\ \A l \in Caller : CallInv(l)
  BY DEF FollowInv
<1>3. /\ closer' \in [Handle -> {"none", "wait", "closed"}] /\ closer'[h] = "closed"
      /\ \A g \in Handle : g # h => closer'[g] = closer[g]
  BY <1>1, <1>2 DEF TypeOK
<1>4. TypeOK' /\ MarkIsTrue'
  BY <1>1, <1>2, <1>3 DEF TypeOK, MarkIsTrue
<1>5. ASSUME NEW g \in Handle PROVE HandleInv(g)'
  <2>1. CASE g # h
    BY <1>1, <1>2, <1>3, <2>1 DEF HandleInv, Unused
  <2>2. CASE g = h
    <3>1. ~(h > created')
      BY <1>1, <1>2 DEF HandleInv, Unused
    <3>. QED
      BY <1>1, <1>2, <1>3, <2>2, <3>1 DEF HandleInv
  <2>. QED
    BY <2>1, <2>2
<1>6. ASSUME NEW l \in Caller PROVE CallInv(l)'
  <2>1. at[l] = "open" => handle[l] \in Handle /\ handle[l] # h
    BY <1>1, <1>2 DEF CallInv
  <2>. QED
    BY <1>1, <1>2, <1>3, <2>1 DEF CallInv
<1>. QED
  BY <1>4, <1>5, <1>6 DEF FollowInv

\* A step keeps the invariant of the goroutines.
LEMMA FollowStep == ASSUME FollowInv, [Next]_vars PROVE FollowInv'
<1>1. ASSUME NEW k \in Caller, Ask(k) \/ Call(k) PROVE FollowInv'
  <2>1. CASE Ask(k)
    BY <2>1, AskInv
  <2>2. CASE Create(k)
    BY <2>2, CreateInv
  <2>3. CASE CreateFails(k) \/ OpenFails(k) \/ Opened(k)
    BY <2>3, ReturnInv DEF CreateFails, OpenFails, Opened, readVars
  <2>4. ASSUME NEW c \in Container, Open(k, c) PROVE FollowInv'
    BY <2>4, OpenInv
  <2>. QED
    BY <1>1, <2>1, <2>2, <2>3, <2>4 DEF Call
<1>2. ASSUME Cancel \/ UNCHANGED vars PROVE FollowInv'
  <2>1. UNCHANGED <<containers, at, calls, handle, opened, created, offset, closer, reader,
                    got, following>> /\ (cancelled' = cancelled \/ cancelled' = TRUE)
    BY <1>2 DEF Cancel, vars, callVars, readVars
  <2>2. TypeOK' /\ MarkIsTrue'
    BY <2>1 DEF FollowInv, TypeOK, MarkIsTrue
  <2>3. ASSUME NEW g \in Handle PROVE HandleInv(g)'
    BY <2>1 DEF FollowInv, HandleInv, Unused
  <2>4. ASSUME NEW l \in Caller PROVE CallInv(l)'
    BY <2>1 DEF FollowInv, CallInv
  <2>. QED
    BY <2>2, <2>3, <2>4 DEF FollowInv
<1>3. ASSUME NEW h \in Handle, CloseFile(h) PROVE FollowInv'
  BY <1>3, CloseInv
<1>4. ASSUME NEW h \in Handle, NEW c \in Container, Read(h, c) \/ Write(h, c) \/ EndStream(h, c)
      PROVE  FollowInv'
  BY <1>4, ReaderInv
<1>. QED
  BY <1>1, <1>2, <1>3, <1>4 DEF Next

\* It holds of a pod nobody follows.
LEMMA FollowStart == Init => FollowInv
<1>. SUFFICES ASSUME Init PROVE FollowInv
  OBVIOUS
<1>1. TypeOK
  <2>1. 0 \in 0..MaxCalls /\ 0 \in 0..MaxHandles /\ 0 \in 0..NumLines
    BY FollowerAssumption DEF FollowerAssumption
  <2>2. /\ calls \in [Caller -> 0..MaxCalls] /\ handle \in [Caller -> 0..MaxHandles]
        /\ \A k \in Caller : handle[k] <= created /\ (at[k] = "open" => handle[k] > 0)
        /\ at \in [Caller -> {"idle", "create", "open"}] /\ offset \in [Handle -> Nat]
    BY <2>1 DEF Init
  <2>3. /\ reader \in [Handle -> [Container -> {"none", "read", "write", "done"}]]
        /\ closer \in [Handle -> {"none", "wait", "closed"}]
        /\ got \in [Handle -> [Container -> 0..NumLines]] /\ opened \in [Caller -> SUBSET Container]
    BY <2>1 DEF Init
  <2>. QED
    BY <2>1, <2>2, <2>3 DEF Init, TypeOK
<1>2. MarkIsTrue
  BY DEF Init, MarkIsTrue
<1>3. ASSUME NEW h \in Handle PROVE HandleInv(h)
  BY DEF Init, HandleInv, Unused
<1>4. ASSUME NEW k \in Caller PROVE CallInv(k)
  BY DEF Init, CallInv
<1>. QED
  BY <1>1, <1>2, <1>3, <1>4 DEF FollowInv

-----------------------------------------------------------------------------
(* The file.                                                               *)

\* A line is put at its place; the others stay, and a gap is filled by holes.
LEMMA PutIs ==
  ASSUME NEW f \in Seq(Line), NEW p \in Nat, NEW x \in Line
  PROVE  /\ Put(f, p, x) \in Seq(Line)
         /\ Len(Put(f, p, x)) = IF p < Len(f) THEN Len(f) ELSE p + 1
         /\ \A i \in 1..Len(Put(f, p, x)) :
              Put(f, p, x)[i] = IF i = p + 1 THEN x ELSE IF i <= Len(f) THEN f[i] ELSE Hole
<1>. DEFINE n == IF p < Len(f) THEN Len(f) ELSE p + 1
            e(i) == IF i = p + 1 THEN x ELSE IF i <= Len(f) THEN f[i] ELSE Hole
<1>1. Len(f) \in Nat /\ n \in Nat /\ f \in [1..Len(f) -> Line]
  BY LenProperties
<1>2. \A i \in 1..n : e(i) \in Line
  BY <1>1 DEF Line
<1>3. Put(f, p, x) = [i \in 1..n |-> e(i)]
  BY DEF Put
<1>. HIDE DEF n, e
<1>4. [i \in 1..n |-> e(i)] \in Seq(Line) /\ Len([i \in 1..n |-> e(i)]) = n
  BY <1>1, <1>2
<1>. QED
  BY <1>3, <1>4 DEF n, e

\* What the file says of a step that writes nothing and does not create it.
LEMMA FileStays ==
  ASSUME FileInv, UNCHANGED <<containers, created, offset, file>>,
         created \in Nat, \A g \in 1..created : g \in Handle, containers \subseteq Container,
         \A g \in Handle, d \in Container : Written(g, d)' = Written(g, d)
  PROVE  FileInv'
<1>1. \A c \in Container : PlacesOf(c)' = PlacesOf(c) /\ \A p : Rank(c, p)' = Rank(c, p)
  BY DEF PlacesOf, Rank
<1>2. created > 0 => created \in Handle /\ 1 \in Handle
  OBVIOUS
<1>3. CreatedOnceIsTrue'
  BY <1>1, <1>2 DEF FileInv, FileIsTrue, CreatedOnceIsTrue
<1>4. OneContainerHeals'
  BY <1>2 DEF FileInv, FileIsTrue, OneContainerHeals
<1>5. OffsetInv'
  BY DEF FileInv, OffsetInv
<1>. QED
  BY <1>3, <1>4, <1>5 DEF FileInv, FileIsTrue

\* Where the handles are.
LEMMA Created ==
  ASSUME FollowInv
  PROVE  /\ created \in Nat /\ (\A g \in 1..created : g \in Handle)
         /\ containers \subseteq Container
  BY FollowerAssumption DEF FollowInv, TypeOK, Handle, FollowerAssumption

\* Only writing counts a line as written.
LEMMA WrittenStays ==
  ASSUME FollowInv, NEW h \in Handle, NEW c \in Container, Read(h, c) \/ EndStream(h, c)
  PROVE  \A g \in Handle, d \in Container : Written(g, d)' = Written(g, d)
<1>1. TypeOK /\ ReaderStep(h, c)
  BY ReaderSteps DEF FollowInv
<1>2. got \in [Handle -> [Container -> 0..NumLines]]
  BY <1>1 DEF TypeOK
<1>3. \A g \in Handle, d \in Container :
        g # h \/ d # c => reader'[g][d] = reader[g][d] /\ got'[g][d] = got[g][d]
  BY <1>1, ReaderTable
<1>4. reader[h][c] = "read"
  BY DEF Read, EndStream
<1>5. Written(h, c)' = Written(h, c)
  <2>1. /\ reader'[h][c] = "write" => got'[h][c] = got[h][c] + 1
        /\ reader'[h][c] # "write" => got'[h][c] = got[h][c]
    BY <1>1, ReaderTable
  <2>2. got[h][c] \in Nat
    BY <1>2, FollowerAssumption DEF FollowerAssumption
  <2>. QED
    BY <1>4, <2>1, <2>2 DEF Written
<1>6. ASSUME NEW g \in Handle, NEW d \in Container, g # h \/ d # c
      PROVE  Written(g, d)' = Written(g, d)
  BY <1>3, <1>6 DEF Written
<1>. QED
  BY <1>5, <1>6

\* A file created anew holds nothing, and nothing was written by its handle.
LEMMA CreateFile == ASSUME FollowInv, FileInv, NEW k \in Caller, Create(k) PROVE FileInv'
<1>1. /\ created < MaxHandles /\ created' = created + 1 /\ file' = <<>>
      /\ UNCHANGED <<containers, offset, reader, got>>
  BY DEF Create, readVars
<1>2. created \in Nat /\ containers \subseteq Container
  BY Created
<1>3. PICK h \in Handle : h = created + 1
  BY <1>1, <1>2, FollowerAssumption DEF Handle, FollowerAssumption
<1>4. Unused(h) /\ HandleInv(h)
  <2>1. HandleInv(h) /\ h > created
    BY <1>2, <1>3 DEF FollowInv
  <2>. QED
    BY <2>1 DEF HandleInv
<1>5. \A c \in Container : Written(h, c)' = 0
  <2>1. \A c \in Container : reader[h][c] = "none" /\ got[h][c] = 0
    BY <1>4 DEF HandleInv, Unused
  <2>. QED
    BY <1>1, <2>1 DEF Written
<1>6. file' \in Seq(Line) /\ Len(file') = 0 /\ DOMAIN file' = {}
  BY <1>1
<1>7. OffsetInv'
  BY <1>1 DEF FileInv, OffsetInv, Written
<1>8. CreatedOnceIsTrue'
  <2>. SUFFICES ASSUME created' = 1 PROVE CreatedOnceIsTrue'
    BY DEF CreatedOnceIsTrue
  <2>1. h = 1 /\ offset'[1] = 0
    BY <1>1, <1>2, <1>3, <1>4 DEF Unused
  <2>2. \A c \in Container : PlacesOf(c)' = {}
    BY <1>6 DEF PlacesOf
  <2>3. \A c \in Container : Cardinality(PlacesOf(c)') = Written(1, c)'
    BY <1>5, <2>1, <2>2, FS_EmptySet
  <2>. QED
    BY <1>1, <1>2, <1>6, <2>1, <2>2, <2>3 DEF CreatedOnceIsTrue
<1>9. OneContainerHeals'
  <2>1. \A c \in Container : Written(created, c)' = 0
    BY <1>1, <1>3, <1>5
  <2>2. \A c \in Container : \A i \in 1..Written(created, c)' : FALSE
    BY <2>1
  <2>. QED
    BY <1>6, <2>2 DEF OneContainerHeals
<1>. QED
  BY <1>6, <1>7, <1>8, <1>9 DEF FileInv, FileIsTrue

\* A line is written where its handle is.
LEMMA WriteIs ==
  ASSUME FollowInv, FileInv, NEW h \in Handle, NEW c \in Container, Write(h, c)
  PROVE  /\ file' = Put(file, offset[h], <<c, got[h][c]>>) /\ got[h][c] \in Nat \ {0}
         /\ offset[h] \in Nat /\ file \in Seq(Line) /\ <<c, got[h][c]>> \in Line
         /\ Written(h, c) = got[h][c] - 1 /\ Written(h, c)' = got[h][c]
         /\ offset'[h] = offset[h] + 1
         /\ \A g \in Handle : g # h => offset'[g] = offset[g]
         /\ \A g \in Handle, d \in Container :
              g # h \/ d # c => Written(g, d)' = Written(g, d)
         /\ c \in containers /\ h <= created /\ UNCHANGED <<containers, created>>
<1>1. TypeOK /\ HandleInv(h) /\ ReaderStep(h, c)
  BY ReaderSteps DEF FollowInv
<1>2. /\ reader[h][c] = "write" /\ UNCHANGED got
      /\ reader' = [reader EXCEPT ![h][c] = "read"] /\ offset' = [offset EXCEPT ![h] = @ + 1]
      /\ file' = Put(file, offset[h], <<c, got[h][c]>>) /\ UNCHANGED <<containers, created>>
  BY DEF Write
<1>3. got \in [Handle -> [Container -> 0..NumLines]] /\ offset \in [Handle -> Nat]
  BY <1>1 DEF TypeOK
<1>4. got[h][c] \in Nat \ {0} /\ c \in containers
  BY <1>1, <1>2, <1>3, FollowerAssumption DEF HandleInv, FollowerAssumption
<1>5. /\ reader'[h][c] = "read"
      /\ \A g \in Handle, d \in Container : g # h \/ d # c => reader'[g][d] = reader[g][d]
  <2>1. reader \in [Handle -> [Container -> {"none", "read", "write", "done"}]]
    BY <1>1 DEF TypeOK
  <2>. QED
    BY <1>2, <2>1, Table
<1>6. Written(h, c) = got[h][c] - 1 /\ Written(h, c)' = got[h][c]
  BY <1>2, <1>4, <1>5 DEF Written
<1>7. ASSUME NEW g \in Handle, NEW d \in Container, g # h \/ d # c
      PROVE  Written(g, d)' = Written(g, d)
  BY <1>2, <1>5, <1>7 DEF Written
<1>8. h <= created
  <2>1. h \in Nat /\ created \in Nat
    BY <1>1, FollowerAssumption DEF TypeOK, Handle, FollowerAssumption
  <2>. QED
    BY <1>1, <1>2, <2>1 DEF HandleInv, Unused
<1>9. /\ offset'[h] = offset[h] + 1 /\ offset[h] \in Nat
      /\ \A g \in Handle : g # h => offset'[g] = offset[g]
  BY <1>2, <1>3
<1>10. <<c, got[h][c]>> \in Line /\ file \in Seq(Line)
  BY <1>4 DEF Line, FileInv
<1>. QED
  BY <1>2, <1>4, <1>6, <1>7, <1>8, <1>9, <1>10

\* What the file holds then.
LEMMA WritePut ==
  ASSUME FollowInv, FileInv, NEW h \in Handle, NEW c \in Container, Write(h, c)
  PROVE  /\ file' \in Seq(Line) /\ Len(file) \in Nat
         /\ DOMAIN file = 1..Len(file) /\ DOMAIN file' = 1..Len(file')
         /\ Len(file') = IF offset[h] < Len(file) THEN Len(file) ELSE offset[h] + 1
         /\ \A i \in 1..Len(file') :
              /\ i = offset[h] + 1 => file'[i] = <<c, got[h][c]>>
              /\ i # offset[h] + 1 /\ i <= Len(file) => file'[i] = file[i]
              /\ i # offset[h] + 1 /\ ~(i <= Len(file)) => file'[i] = Hole
<1>1. /\ file' = Put(file, offset[h], <<c, got[h][c]>>) /\ <<c, got[h][c]>> \in Line
      /\ file \in Seq(Line) /\ offset[h] \in Nat
  BY WriteIs
<1>2. PICK x \in Line : x = <<c, got[h][c]>>
  BY <1>1, Zenon
<1>3. PICK f : f = file'
  OBVIOUS
<1>4. f = Put(file, offset[h], x)
  BY <1>1, <1>2, <1>3, Zenon
<1>5. /\ Put(file, offset[h], x) \in Seq(Line)
      /\ Len(Put(file, offset[h], x)) =
           IF offset[h] < Len(file) THEN Len(file) ELSE offset[h] + 1
      /\ \A i \in 1..Len(Put(file, offset[h], x)) :
           Put(file, offset[h], x)[i] =
             IF i = offset[h] + 1 THEN x ELSE IF i <= Len(file) THEN file[i] ELSE Hole
  <2>1. file \in Seq(Line) /\ offset[h] \in Nat
    BY <1>1
  <2>. QED
    BY <2>1, PutIs, Zenon
<1>6. \A i \in 1..Len(f) :
        /\ i = offset[h] + 1 => f[i] = x
        /\ i # offset[h] + 1 /\ i <= Len(file) => f[i] = file[i]
        /\ i # offset[h] + 1 /\ ~(i <= Len(file)) => f[i] = Hole
  BY <1>4, <1>5, Zenon
<1>7. /\ f \in Seq(Line)
      /\ Len(f) = IF offset[h] < Len(file) THEN Len(file) ELSE offset[h] + 1
  BY <1>4, <1>5, Zenon
<1>8. Len(file) \in Nat /\ DOMAIN file = 1..Len(file) /\ DOMAIN f = 1..Len(f)
  BY <1>1, <1>7, LenProperties
<1>. QED
  BY <1>2, <1>3, <1>6, <1>7, <1>8, Zenon

\* The file of a pod with one container has each line at its own place.
LEMMA WriteHeals ==
  ASSUME FollowInv, FileInv, NEW h \in Handle, NEW c \in Container, Write(h, c)
  PROVE  OneContainerHeals' /\ OffsetInv'
<1>. DEFINE n == got[h][c]
<1>0. PICK f : f = file'
  OBVIOUS
<1>1. /\ n \in Nat \ {0} /\ offset[h] \in Nat /\ file \in Seq(Line)
      /\ Written(h, c) = n - 1 /\ Written(h, c)' = n
      /\ offset'[h] = offset[h] + 1 /\ \A g \in Handle : g # h => offset'[g] = offset[g]
      /\ c \in containers /\ h <= created /\ UNCHANGED <<containers, created>>
  BY WriteIs
<1>2. \A g \in Handle, d \in Container : g # h \/ d # c => Written(g, d)' = Written(g, d)
  BY WriteIs
<1>3. /\ Len(file) \in Nat /\ DOMAIN file = 1..Len(file) /\ DOMAIN f = 1..Len(f)
      /\ Len(f) = (IF offset[h] < Len(file) THEN Len(file) ELSE offset[h] + 1)
      /\ \A i \in 1..Len(f) :
           /\ i = offset[h] + 1 => f[i] = <<c, n>>
           /\ i # offset[h] + 1 /\ i <= Len(file) => f[i] = file[i]
           /\ i # offset[h] + 1 /\ ~(i <= Len(file)) => f[i] = Hole
  BY <1>0, WritePut, Zenon
<1>. HIDE DEF n
<1>4. OffsetInv'
  <2>. SUFFICES ASSUME NEW d \in Container, containers = {d}, NEW g \in Handle
                PROVE  offset'[g] = Written(g, d)'
    BY <1>1 DEF OffsetInv
  <2>1. d = c /\ offset[g] = Written(g, d)
    BY <1>1 DEF FileInv, OffsetInv
  <2>. QED
    BY <1>1, <1>2, <2>1
<1>5. ASSUME NEW d \in Container, containers = {d}
      PROVE  /\ \A i \in DOMAIN f : f[i] \in {Hole, <<d, i>>}
             /\ \A i \in 1..Written(created, d)' : i <= Len(f) /\ f[i] = <<d, i>>
  <2>1. d = c /\ offset[h] = n - 1 /\ created \in Handle /\ created > 0
    <3>1. created \in Handle /\ created > 0
      BY <1>1, Created DEF Handle
    <3>. QED
      BY <1>1, <1>5, <3>1 DEF FileInv, OffsetInv
  <2>2. /\ \A i \in 1..Len(file) : file[i] \in {Hole, <<c, i>>}
        /\ \A i \in 1..Written(created, c) : i <= Len(file) /\ file[i] = <<c, i>>
    BY <1>3, <1>5, <2>1 DEF FileInv, FileIsTrue, OneContainerHeals
  <2>3. \A i \in 1..Len(f) :
          /\ i = n => f[i] = <<c, i>>
          /\ i # n /\ i <= Len(file) => f[i] = file[i]
          /\ i # n /\ ~(i <= Len(file)) => f[i] = Hole
    BY <1>1, <1>3, <2>1
  <2>4. ASSUME NEW i \in 1..Len(f) PROVE f[i] \in {Hole, <<c, i>>}
    <3>1. i <= Len(file) => i \in 1..Len(file)
      BY <1>3
    <3>. QED
      BY <2>2, <2>3, <3>1, Zenon
  <2>5. n <= Len(f) /\ Len(file) <= Len(f) /\ Len(f) \in Nat
    BY <1>1, <1>3, <2>1
  <2>6. \A i \in 1..Written(created, c)' : i = n \/ i \in 1..Written(created, c)
    <3>1. CASE created = h
      BY <1>1, <3>1
    <3>2. CASE created # h
      <4>1. Written(created, c)' = Written(created, c)
        BY <1>1, <1>2, <2>1, <3>2
      <4>. QED
        BY <4>1
    <3>. QED
      BY <3>1, <3>2
  <2>7. ASSUME NEW i \in 1..Written(created, c)' PROVE i <= Len(f) /\ f[i] = <<c, i>>
    <3>1. CASE i = n
      BY <1>1, <2>3, <2>5, <3>1
    <3>2. CASE i # n
      <4>1. i \in 1..Written(created, c)
        BY <2>6, <3>2
      <4>2. i <= Len(file) /\ file[i] = <<c, i>> /\ i \in Nat \ {0}
        BY <2>2, <4>1
      <4>3. i \in 1..Len(f)
        BY <1>3, <2>5, <4>2
      <4>4. f[i] = <<c, i>>
        BY <2>3, <3>2, <4>2, <4>3, Zenon
      <4>. QED
        BY <4>3, <4>4
    <3>. QED
      BY <3>1, <3>2
  <2>. QED
    BY <1>3, <2>1, <2>4, <2>7
<1>6. OneContainerHeals'
  BY <1>0, <1>1, <1>5 DEF OneContainerHeals
<1>. QED
  BY <1>4, <1>6

\* A line that is written at the end of the file is the next of its container.
LEMMA NextLine ==
  ASSUME NEW P \in SUBSET Nat, NEW n \in Nat, P \subseteq 1..n
  PROVE  /\ IsFiniteSet(P) /\ Cardinality(P \cup {n + 1}) = Cardinality(P) + 1
         /\ {q \in P \cup {n + 1} : q <= n + 1} = P \cup {n + 1}
         /\ \A p \in P : {q \in P \cup {n + 1} : q <= p} = {q \in P : q <= p}
<1>1. IsFiniteSet(P)
  <2>1. IsFiniteSet(1..n)
    BY FS_Interval
  <2>. QED
    BY <2>1, FS_Subset
<1>2. n + 1 \notin P
  OBVIOUS
<1>3. Cardinality(P \cup {n + 1}) = Cardinality(P) + 1
  BY <1>1, <1>2, FS_AddElement
<1>4. \A q \in P \cup {n + 1} : q <= n + 1
  OBVIOUS
<1>5. ASSUME NEW p \in P PROVE ~(n + 1 <= p)
  OBVIOUS
<1>6. \A p \in P : {q \in P \cup {n + 1} : q <= p} = {q \in P : q <= p}
  BY <1>5
<1>. QED
  BY <1>1, <1>3, <1>4, <1>6

\* A file that was created once is only ever added to at its end.
LEMMA WriteOnce ==
  ASSUME FollowInv, FileInv, NEW h \in Handle, NEW c \in Container, Write(h, c)
  PROVE  CreatedOnceIsTrue'
<1>. DEFINE n == got[h][c]
<1>. SUFFICES ASSUME created = 1 PROVE CreatedOnceIsTrue'
  BY WriteIs DEF CreatedOnceIsTrue
<1>1. /\ n \in Nat \ {0} /\ offset[h] \in Nat /\ Written(h, c) = n - 1
      /\ Written(h, c)' = n /\ offset'[h] = offset[h] + 1 /\ c \in containers
      /\ UNCHANGED <<containers, created>> /\ h <= created
  BY WriteIs
<1>2. h = 1
  BY <1>1 DEF Handle
<1>0. PICK len : len = Len(file)
  OBVIOUS
<1>3. /\ len = offset[h] /\ \A p \in DOMAIN file : file[p] # Hole
      /\ \A d \in containers :
           /\ Cardinality(PlacesOf(d)) = Written(h, d)
           /\ \A p \in PlacesOf(d) : file[p] = <<d, Rank(d, p)>>
  BY <1>0, <1>2 DEF FileInv, FileIsTrue, CreatedOnceIsTrue
<1>4. len \in Nat /\ DOMAIN file = 1..len
  BY <1>0, WritePut
<1>5. /\ Len(file') = len + 1 /\ file'[len + 1] = <<c, n>>
      /\ \A p \in 1..len : file'[p] = file[p]
  <2>1. Len(file') = len + 1
    BY <1>0, <1>1, <1>3, WritePut
  <2>2. \A i \in 1..(len + 1) :
          /\ i = len + 1 => file'[i] = <<c, n>>
          /\ i # len + 1 /\ i <= len => file'[i] = file[i]
    <3>1. \A i \in 1..Len(file') :
            /\ i = offset[h] + 1 => file'[i] = <<c, n>>
            /\ i # offset[h] + 1 /\ i <= Len(file) => file'[i] = file[i]
      BY WritePut, Zenon
    <3>. HIDE DEF n
    <3>. QED
      BY <1>0, <1>3, <2>1, <3>1
  <2>3. len + 1 \in 1..(len + 1) /\ \A i \in 1..len : i \in 1..(len + 1) /\ i # len + 1 /\ i <= len
    BY <1>4
  <2>. QED
    BY <2>1, <2>2, <2>3, Zenon
<1>6. DOMAIN file' = 1..(len + 1)
  BY <1>5, WritePut, Zenon
<1>7. <<c, n>> # Hole /\ <<c, n>>[1] = c
  BY DEF Hole
<1>. HIDE DEF n
<1>8. \A p \in DOMAIN file' : file'[p] # Hole
  <2>1. \A p \in 1..(len + 1) : p = len + 1 \/ p \in 1..len
    BY <1>4
  <2>. QED
    BY <1>3, <1>4, <1>5, <1>6, <1>7, <2>1, Zenon
<1>9. ASSUME NEW d \in containers PROVE PlacesOf(d) \subseteq 1..len
  BY <1>4 DEF PlacesOf
<1>10. ASSUME NEW d \in containers
       PROVE  PlacesOf(d)' = IF d = c THEN PlacesOf(d) \cup {len + 1} ELSE PlacesOf(d)
  <2>1. \A p \in 1..(len + 1) : p = len + 1 \/ p \in 1..len
    BY <1>4
  <2>2. \A p \in 1..len : p \in 1..(len + 1) /\ p # len + 1
    BY <1>4
  <2>3. len + 1 \in 1..(len + 1)
    BY <1>4
  <2>4. ASSUME NEW p \in 1..len PROVE p \in PlacesOf(d)' <=> p \in PlacesOf(d)
    BY <1>4, <1>5, <1>6, <2>2, <2>4, Zenon DEF PlacesOf
  <2>5. len + 1 \in PlacesOf(d)' <=> d = c
    BY <1>5, <1>6, <1>7, <2>3, Zenon DEF PlacesOf
  <2>6. PlacesOf(d) \subseteq 1..len /\ PlacesOf(d)' \subseteq 1..(len + 1)
    BY <1>4, <1>6, Zenon DEF PlacesOf
  <2>. QED
    BY <2>1, <2>4, <2>5, <2>6
<1>11. ASSUME NEW d \in containers, d # c
       PROVE  /\ Cardinality(PlacesOf(d)') = Written(h, d)'
              /\ \A p \in PlacesOf(d)' : file'[p] = <<d, Rank(d, p)'>>
  <2>1. PlacesOf(d)' = PlacesOf(d)
    BY <1>10, <1>11
  <2>2. \A p : Rank(d, p)' = Rank(d, p)
    BY <2>1 DEF Rank
  <2>3. Written(h, d)' = Written(h, d)
    <3>1. d \in Container
      BY <1>11, Created
    <3>2. \A g \in Handle, e \in Container : g # h \/ e # c => Written(g, e)' = Written(g, e)
      BY WriteIs
    <3>. QED
      BY <1>11, <3>1, <3>2
  <2>. QED
    BY <1>3, <1>5, <1>9, <2>1, <2>2, <2>3
<1>12. /\ Cardinality(PlacesOf(c)') = Written(h, c)'
       /\ \A p \in PlacesOf(c)' : file'[p] = <<c, Rank(c, p)'>>
  <2>. DEFINE P == PlacesOf(c)
  <2>1. /\ PlacesOf(c)' = P \cup {len + 1} /\ P \subseteq 1..len /\ P \in SUBSET Nat
        /\ Cardinality(P) = n - 1 /\ \A p \in P : file[p] = <<c, Rank(c, p)>>
    <3>1. PlacesOf(c)' = P \cup {len + 1} /\ P \subseteq 1..len
      BY <1>1, <1>9, <1>10
    <3>. QED
      BY <1>1, <1>3, <3>1
  <2>. HIDE DEF P
  <2>2. /\ Cardinality(P \cup {len + 1}) = Cardinality(P) + 1
        /\ {q \in P \cup {len + 1} : q <= len + 1} = P \cup {len + 1}
        /\ \A p \in P : {q \in P \cup {len + 1} : q <= p} = {q \in P : q <= p}
    BY <1>4, <2>1, NextLine
  <2>3. Cardinality(PlacesOf(c)') = n
    BY <1>1, <2>1, <2>2
  <2>4. PICK last : last = len + 1
    OBVIOUS
  <2>5. Rank(c, last)' = n
    BY <2>1, <2>2, <2>3, <2>4 DEF Rank
  <2>6. \A p \in P : Rank(c, p)' = Rank(c, p)
    BY <2>1, <2>2 DEF Rank, P
  <2>7. ASSUME NEW p \in P PROVE file'[p] = <<c, Rank(c, p)'>>
    <3>1. file'[p] = file[p] /\ file[p] = <<c, Rank(c, p)>>
      BY <1>5, <2>1
    <3>. QED
      BY <2>6, <3>1, Zenon
  <2>8. file'[last] = <<c, Rank(c, last)'>>
    BY <1>5, <2>4, <2>5, Zenon
  <2>9. \A p \in PlacesOf(c)' : p \in P \/ p = last
    BY <2>1, <2>4, Zenon
  <2>10. \A p \in PlacesOf(c)' : file'[p] = <<c, Rank(c, p)'>>
    BY <2>7, <2>8, <2>9, Zenon
  <2>. QED
    BY <1>1, <2>3, <2>10
<1>. QED
  BY <1>1, <1>2, <1>3, <1>5, <1>8, <1>11, <1>12 DEF CreatedOnceIsTrue

\* A step keeps what is known of the file.
LEMMA FileStep == ASSUME FollowInv, FileInv, [Next]_vars PROVE FileInv'
<1>1. ASSUME UNCHANGED <<containers, created, offset, file, reader, got>> PROVE FileInv'
  <2>1. \A g \in Handle, d \in Container : Written(g, d)' = Written(g, d)
    BY <1>1 DEF Written
  <2>. QED
    BY <1>1, <2>1, Created, FileStays
<1>2. CASE Cancel \/ UNCHANGED vars
  BY <1>1, <1>2 DEF Cancel, vars, readVars
<1>3. ASSUME NEW k \in Caller, Ask(k) \/ CreateFails(k) \/ OpenFails(k) \/ Opened(k)
      PROVE  FileInv'
  BY <1>1, <1>3 DEF Ask, CreateFails, OpenFails, Opened, readVars
<1>4. ASSUME NEW k \in Caller, Create(k) PROVE FileInv'
  BY <1>4, CreateFile
<1>5. ASSUME NEW k \in Caller, NEW c \in Container, Open(k, c) PROVE FileInv'
  <2>1. PICK h \in Handle : /\ h = handle[k] /\ reader[h][c] = "none"
                            /\ reader' = [reader EXCEPT ![h][c] = "read"] /\ UNCHANGED got
    BY <1>5 DEF Open, FollowInv, CallInv
  <2>2. /\ reader'[h][c] = "read"
        /\ \A g \in Handle, d \in Container : g # h \/ d # c => reader'[g][d] = reader[g][d]
    <3>1. reader \in [Handle -> [Container -> {"none", "read", "write", "done"}]]
      BY DEF FollowInv, TypeOK
    <3>. QED
      BY <2>1, <3>1, Table
  <2>3. ASSUME NEW g \in Handle, NEW d \in Container PROVE Written(g, d)' = Written(g, d)
    BY <2>1, <2>2 DEF Written
  <2>4. UNCHANGED <<containers, created, offset, file>>
    BY <1>5 DEF Open
  <2>. QED
    BY <2>3, <2>4, Created, FileStays
<1>6. ASSUME NEW h \in Handle, CloseFile(h) PROVE FileInv'
  BY <1>1, <1>6 DEF CloseFile, readVars
<1>7. ASSUME NEW h \in Handle, NEW c \in Container, Read(h, c) \/ EndStream(h, c)
      PROVE  FileInv'
  <2>1. UNCHANGED <<containers, created, offset, file>>
    BY <1>7 DEF Read, EndStream
  <2>. QED
    BY <1>7, <2>1, Created, FileStays, WrittenStays
<1>8. ASSUME NEW h \in Handle, NEW c \in Container, Write(h, c) PROVE FileInv'
  <2>1. file' \in Seq(Line)
    BY <1>8, WritePut
  <2>. QED
    BY <1>8, <2>1, WriteHeals, WriteOnce DEF FileInv, FileIsTrue
<1>. QED
  BY <1>2, <1>3, <1>4, <1>5, <1>6, <1>7, <1>8 DEF Next, Call

\* It holds of a pod that has no file.
LEMMA FileStart == Init => FileInv
<1>. SUFFICES ASSUME Init PROVE FileInv
  OBVIOUS
<1>1. file \in Seq(Line) /\ created = 0
  BY DEF Init
<1>2. OffsetInv
  BY DEF Init, OffsetInv, Written
<1>3. FileIsTrue
  BY <1>1 DEF FileIsTrue, CreatedOnceIsTrue, OneContainerHeals
<1>. QED
  BY <1>1, <1>2, <1>3 DEF FileInv

-----------------------------------------------------------------------------
(* What it is for.                                                         *)

\* Both invariants hold of every state.
LEMMA FollowerInvHolds == Spec => [](FollowInv /\ FileInv)
<1>1. Init => FollowInv /\ FileInv
  BY FollowStart, FileStart
<1>2. (FollowInv /\ FileInv) /\ [Next]_vars => (FollowInv /\ FileInv)'
  BY FollowStep, FileStep
<1>. QED
  BY <1>1, <1>2, PTL DEF Spec

\* However the callers and the goroutines interleave, a file is closed behind
\* the last goroutine that writes it, so that no line that was read is lost to
\* a closed file, and a pod is marked only when a line of it was read.
THEOREM ClosedBehindTheLast == Spec => []Inv
<1>1. FollowInv => Inv
  BY DEF FollowInv, HandleInv, Inv, ClosedIsQuiet
<1>. QED
  BY <1>1, FollowerInvHolds, PTL

\* Unless a pod of several containers has its file created again, the log is
\* what was printed: of a file that was created once every container's lines,
\* each once and in order; of a pod with one container every line at its own
\* place, whichever handles write it.
THEOREM LogIsTrue == Spec => []FileIsTrue
<1>1. FileInv => FileIsTrue
  BY DEF FileInv
<1>. QED
  BY <1>1, FollowerInvHolds, PTL

\* A file that waits to be closed can be, or a goroutine it waits for is there
\* to read or to write: none of them was counted and never started.
WaitsForReaders ==
  \A h \in Handle : closer[h] = "wait" =>
    \/ \A c \in containers : reader[h][c] = "done"
    \/ \E c \in containers : reader[h][c] \in {"read", "write"}

\* BuildLogWriter's wait group never waits for a stream that was not opened,
\* whichever streams were refused before: the safety part of CloseEndsAll.
THEOREM NoCloserWaitsInVain == Spec => []WaitsForReaders
<1>1. FollowInv => WaitsForReaders
  <2>. SUFFICES ASSUME FollowInv, NEW h \in Handle, closer[h] = "wait"
                PROVE  \/ \A c \in containers : reader[h][c] = "done"
                       \/ \E c \in containers : reader[h][c] \in {"read", "write"}
    BY DEF WaitsForReaders
  <2>1. containers \subseteq Container /\ \A c \in containers : reader[h][c] # "none"
    BY DEF FollowInv, TypeOK, HandleInv
  <2>2. \A c \in Container : reader[h][c] \in {"none", "read", "write", "done"}
    <3>1. reader[h] \in [Container -> {"none", "read", "write", "done"}]
      BY DEF FollowInv, TypeOK
    <3>. QED
      BY <3>1
  <2>. QED
    BY <2>1, <2>2
<1>. QED
  BY <1>1, FollowerInvHolds, PTL
=============================================================================
