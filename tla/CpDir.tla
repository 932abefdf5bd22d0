------------------------------- MODULE CpDir --------------------------------
(***************************************************************************)
(* hw2/cpdir/cpdir.c: main() lists a source tree, lets one thread per      *)
(* directory make the copy of that directory, all at once, joins them, and *)
(* lets one thread per file copy that file, all at once.  mkdir() of a     *)
(* directory whose parent is not there yet fails, and nobody looks.        *)
(***************************************************************************)
EXTENDS Naturals, FiniteSets, SequencesExt

CONSTANTS
  Dirs, Files,   \* the source tree: its directories and its files,
  Root,          \* argv[1], whose copy is argv[2] (its parent exists),
  Entries        \* and what readdir() lists in each directory, in order

CpDirAssumption ==
  /\ Root \in Dirs /\ Dirs \intersect Files = {}
  /\ Entries \in [Dirs -> Seq((Dirs \ {Root}) \union Files)]
  /\ \A e \in (Dirs \ {Root}) \union Files :
       \E d \in Dirs : \E k \in DOMAIN Entries[d] :
         /\ Entries[d][k] = e
         /\ \A g \in Dirs : \A m \in DOMAIN Entries[g] : Entries[g][m] = e => g = d /\ m = k
  /\ IsFiniteSet(Dirs)  \* and no directory is inside itself:
  /\ \E height \in [Dirs -> 0 .. Cardinality(Dirs)] :
       \A d \in Dirs : \A k \in DOMAIN Entries[d] :
         Entries[d][k] \in Dirs => height[Entries[d][k]] < height[d]

VARIABLES
  main,      \* where main() stands
  i,         \* the number of threads it has created in this phase
  at,        \* at[t]: where the thread of directory or file t stands
  made,      \* the directories whose copy exists
  content    \* content[f]: what is in the copy of file f

cpdirVars == <<main, i, at, made, content>>

Parent(t) == CHOOSE d \in Dirs : \E k \in DOMAIN Entries[d] : Entries[d][k] = t

(* What traverseDirectory adds to the two lists: a directory before what is *)
(* in it.                                                                   *)
traverseDirectory[d \in Dirs] ==
  LET Found(e) == IF e \in Dirs THEN traverseDirectory[e] ELSE [dirs |-> <<>>, files |-> <<e>>]
  IN  [dirs  |-> <<d>> \o FlattenSeq([k \in DOMAIN Entries[d] |-> Found(Entries[d][k]).dirs]),
       files |-> FlattenSeq([k \in DOMAIN Entries[d] |-> Found(Entries[d][k]).files])]

dirList  == traverseDirectory[Root].dirs
fileList == traverseDirectory[Root].files

TypeOK ==
  /\ main \in {"mkdirs", "joindirs", "copies", "joincopies", "done"}
  /\ i \in 0 .. Len(dirList) + Len(fileList)
  /\ at \in [Dirs \union Files -> {"uncreated", "starts", "copies", "ended"}]
  /\ made \subseteq Dirs
  /\ content \in [Files -> {"none", "empty", "whole", "old"}]

(* A directory exists only inside one that exists.                          *)
Rooted(D) == \A d \in D \ {Root} : Parent(d) \in D

(* The target may hold an earlier copy.                                     *)
Init ==
  /\ main = "mkdirs" /\ i = 0
  /\ at = [t \in Dirs \union Files |-> "uncreated"]
  /\ made \in {D \in SUBSET Dirs : Rooted(D) /\ (D # {} => Root \in D)}
  /\ \E old \in {"none", "old"} :
       content = [f \in Files |-> IF Parent(f) \in made THEN old ELSE "none"]

-----------------------------------------------------------------------------
Advance(t, from, to) == at[t] = from /\ at' = [at EXCEPT ![t] = to]

(* createDirThread *)
MakeDirectory(d) ==
  /\ d \in Dirs
  /\ Advance(d, "starts", "ended")
  /\ made' = IF d = Root \/ Parent(d) \in made THEN made \union {d} ELSE made
  /\ UNCHANGED <<main, i, content>>

(* copyFileThread: the copy cannot be opened where its directory is missing *)
OpenFails(f) ==
  /\ f \in Files
  /\ Advance(f, "starts", "ended")
  /\ Parent(f) \notin made
  /\ UNCHANGED <<main, i, made, content>>

OpenCopy(f) ==
  /\ f \in Files
  /\ Advance(f, "starts", "copies")
  /\ Parent(f) \in made
  /\ content' = [content EXCEPT ![f] = "empty"]
  /\ UNCHANGED <<main, i, made>>

CopyContent(f) ==
  /\ Advance(f, "copies", "ended")
  /\ content' = [content EXCEPT ![f] = "whole"]
  /\ UNCHANGED <<main, i, made>>

thread(t) == MakeDirectory(t) \/ OpenFails(t) \/ OpenCopy(t) \/ CopyContent(t)

-----------------------------------------------------------------------------
(* A pass of the loops that create a thread per element of list.            *)
CreateThread(phase, list) ==
  /\ main = phase /\ i < Len(list)
  /\ Advance(list[i + 1], "uncreated", "starts")
  /\ i' = i + 1
  /\ UNCHANGED <<main, made, content>>

(* ... and of the join loop behind them.                                    *)
CreatedAll(phase, list, next) ==
  /\ main = phase /\ i = Len(list)
  /\ main' = next /\ i' = 0
  /\ UNCHANGED <<at, made, content>>

JoinAll(phase, T, next) ==
  /\ main = phase
  /\ \A t \in T : at[t] = "ended"
  /\ main' = next
  /\ UNCHANGED <<i, at, made, content>>

(* Mutant: the files do not wait for the directories.                       *)
createAllDirectories_NoJoin ==
  \/ CreateThread("mkdirs", dirList)
  \/ CreatedAll("mkdirs", dirList, "joindirs")
  \/ JoinAll("joindirs", {}, "copies")

createAllDirectories ==
  \/ CreateThread("mkdirs", dirList)
  \/ CreatedAll("mkdirs", dirList, "joindirs")
  \/ JoinAll("joindirs", Dirs, "copies")

copyAllFiles ==
  \/ CreateThread("copies", fileList)
  \/ CreatedAll("copies", fileList, "joincopies")
  \/ JoinAll("joincopies", Files, "done")

Next == createAllDirectories \/ copyAllFiles \/ \E t \in Dirs \union Files : thread(t)

Spec == Init /\ [][Next]_cpdirVars

-----------------------------------------------------------------------------
(***************************************************************************)
(* Properties.                                                             *)
(***************************************************************************)
Ended(t) == at[t] \in {"uncreated", "ended"}
AtRest   == main = "done" /\ \A t \in Dirs \union Files : Ended(t)

(* All that is lost is lost for want of a directory: in the end a file has  *)
(* its whole content where its directory was made, and no copy elsewhere;   *)
(* what was made is a tree from the root on.                                *)
LossIsWholeSubtrees ==
  main = "done" =>
    /\ Root \in made /\ Rooted(made)
    /\ \A f \in Files : content[f] = (IF Parent(f) \in made THEN "whole" ELSE "none")

(* The report of the program, "Directory And File Creation": "Creates all   *)
(* required directories in parallel", "Ensures directory structure exists   *)
(* before file copying".                                                    *)
DocStructureFirst == main \in {"copies", "joincopies"} => made = Dirs

=============================================================================
