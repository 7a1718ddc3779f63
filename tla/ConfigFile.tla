----------------------------- MODULE ConfigFile -----------------------------
(***************************************************************************)
(* internal/config/globalConfig.go: a command reads the configuration file *)
(* once, before it does anything else, and keeps what it could not read as *)
(* an error for later.  The cases of the verify section may include other  *)
(* files, whose cases take the place of the one that includes them.        *)
(* Paths are resolved against the file they stand in: a case is known by   *)
(* that file and its name.                                                 *)
(***************************************************************************)
EXTENDS Integers, Sequences

Seqs == INSTANCE SequencesExt

CONSTANTS Path,       \* the paths of files
          CfgFile,       \* the one of the configuration file
          Name,       \* the names of cases
          Trees,      \* what the files that can be read may hold, each a
                      \* function from such files to Seq(Item)
          MaxDepth    \* the calls of convertSingleCase the stack has room for

\* A case as it is written: a query or an expected file of its own, or files
\* to include, or, by mistake, both.
Item == [name : Name, own : BOOLEAN, includes : Seq(Path)]

ASSUME ConfigAssumption ==
  /\ CfgFile \in Path /\ MaxDepth \in Nat \ {0}
  /\ \A tree \in Trees :
       DOMAIN tree \subseteq Path /\ \A f \in DOMAIN tree : tree[f] \in Seq(Item)

VARIABLES
  ci,       \* the environment has CI=true, fixed
  written,  \* what the file says, fixed
  loading,  \* where the loader is
  frames,   \* the calls of convertSingleCase: what is left of their files
  cases,    \* the cases of the verify section, converted
  error,    \* GlobalConfig.Error is not nil
  on,       \* cleanup.on
  timeout   \* setup.timeout as it will be used: "given", "default" or "zero"

configVars == <<ci, written, loading, frames, cases, error, on, timeout>>

Policies == {"always", "success", "failure", "never"}

File == [tree : Trees,
         on : Policies \cup {"unset", "other"},
         timeout : {"given", "nonpositive", "malformed", "unset"}]

Default == IF ci THEN "always" ELSE "success"

\* The defaults are set when the program starts.
ConfigInit ==
  /\ ci \in BOOLEAN /\ written \in File
  /\ loading = "read" /\ frames = <<>> /\ cases = <<>> /\ error = FALSE
  /\ on = Default /\ timeout = "zero"

Refuse == error' = TRUE /\ loading' = "loaded"

\* A file that is not there, cannot be read or is no YAML of a configuration.
Read ==
  /\ loading = "read"
  /\ IF CfgFile \notin DOMAIN written.tree THEN Refuse /\ UNCHANGED <<frames, on>>
     ELSE /\ on' = IF written.on = "unset" THEN on ELSE written.on
          /\ frames' = <<[file |-> CfgFile, items |-> written.tree[CfgFile]]>>
          /\ loading' = "convert" /\ UNCHANGED error
  /\ UNCHANGED <<ci, written, cases, timeout>>

Top == frames[Len(frames)]
Rest == SubSeq(frames, 1, Len(frames) - 1)
Left(items) == Append(Rest, [Top EXCEPT !.items = items])

\* Fault: a path is resolved against the configuration file, wherever it is.
OwnCase_of_main ==
  /\ Top.items # <<>> /\ Head(Top.items).includes = <<>>
  /\ cases' = Append(cases, <<CfgFile, Head(Top.items).name>>)
  /\ frames' = Left(Tail(Top.items)) /\ UNCHANGED <<loading, error>>

OwnCase ==
  /\ Top.items # <<>> /\ Head(Top.items).includes = <<>>
  /\ cases' = Append(cases, <<Top.file, Head(Top.items).name>>)
  /\ frames' = Left(Tail(Top.items)) /\ UNCHANGED <<loading, error>>

\* What is left of an item when the first of its files has been included.
Included(item) ==
  IF Len(item.includes) = 1 THEN <<>> ELSE <<[item EXCEPT !.includes = Tail(@)]>>

\* The next file an item includes is there and is read, and its cases are
\* converted in its place.  A file that includes itself exhausts the stack.
Include ==
  /\ Top.items # <<>> /\ Head(Top.items).includes # <<>> /\ UNCHANGED cases
  /\ LET item == Head(Top.items)  f == Head(item.includes) IN
     IF item.own \/ f \notin DOMAIN written.tree THEN Refuse /\ UNCHANGED frames
     ELSE IF Len(frames) = MaxDepth THEN loading' = "exhausted" /\ UNCHANGED <<frames, error>>
     ELSE /\ frames' = Append(Left(Included(item) \o Tail(Top.items)),
                              [file |-> f, items |-> written.tree[f]])
          /\ UNCHANGED <<loading, error>>

FileDone ==
  /\ Top.items = <<>> /\ frames' = Rest /\ UNCHANGED <<cases, error>>
  /\ loading' = IF Rest = <<>> THEN "finalize" ELSE "convert"

Convert ==
  /\ loading = "convert"
  /\ OwnCase \/ Include \/ FileDone
  /\ UNCHANGED <<ci, written, on, timeout>>

\* A timeout that cannot be parsed, or is not there, is an error, and stays
\* zero; the next line takes the error away.
Finalize ==
  /\ loading = "finalize" /\ loading' = "loaded" /\ error' = FALSE
  /\ timeout' = CASE written.timeout = "given" -> "given"
                  [] written.timeout = "nonpositive" -> "default"
                  [] OTHER -> timeout
  /\ UNCHANGED <<ci, written, frames, cases, on>>

ReadGlobalConfigFile == Read \/ Convert \/ Finalize

-----------------------------------------------------------------------------
ConfigTypeOK ==
  /\ ci \in BOOLEAN /\ written \in File /\ error \in BOOLEAN
  /\ loading \in {"read", "convert", "finalize", "loaded", "exhausted"}
  /\ on \in Policies \cup {"other"} /\ timeout \in {"given", "default", "zero"}

\* What stands in the place of an item that cannot be converted.
Broken == <<"broken", "broken">>

\* The cases that stand in the place of an item of f, given those of the files
\* it includes.
InPlaceOf(f, item, of) ==
  IF item.includes = <<>> THEN <<<<f, item.name>>>>
  ELSE IF item.own THEN <<Broken>>
  ELSE Seqs!FlattenSeq([k \in DOMAIN item.includes |-> of[item.includes[k]]])

Listed(f, items, of) ==
  Seqs!FlattenSeq([k \in DOMAIN items |-> InPlaceOf(f, items[k], of)])

\* The cases a file stands for, where d files are nested at most: its own, and
\* in the place of each include those of the included file.
CasesOf(tree) ==
  LET of[d \in 0..MaxDepth] == [f \in Path |->
        IF d = 0 \/ f \notin DOMAIN tree THEN <<Broken>>
        ELSE Listed(f, tree[f], of[d - 1])]
  IN  of

\* A file is loaded as it is written: its cases and, in their places and in
\* their order, those of the files they include, each resolved against its own
\* file; an error tells of a file, or of one included, that cannot be read.
LoadedAsWritten ==
  loading = "loaded" =>
    LET flat == CasesOf(written.tree)[MaxDepth][CfgFile] IN
    IF error THEN \E k \in DOMAIN flat : flat[k] = Broken ELSE cases = flat
=============================================================================
