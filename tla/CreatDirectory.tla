--------------------------- MODULE CreatDirectory ---------------------------
(***************************************************************************)
(* utill::file::creat_dircetory, as several threads or processes run it    *)
(* when they construct the sinks of their loggers: for each ancestor of    *)
(* the directory, first a look whether it exists, then mkdir, whose result *)
(* is ignored, whatever the reason it failed for.  A directory is the      *)
(* sequence of its components.                                             *)
(***************************************************************************)
EXTENDS Naturals, Sequences

CONSTANTS Creator,   \* those who create directories
          Target     \* [Creator -> sequence of components]: the paths, each
                     \* ending in a slash, as utill::file::path returns them
                     \* (or ".", which is always there)

ASSUME DirectoryAssumption == Target \in [Creator -> Seq(STRING)]

VARIABLES
  dirs,   \* the directories that exist; the root always does
  depth,  \* each creator: the components up to idx
  dirPc,  \* each creator: "look", "mkdir" or "return"
  refused \* history: the creators that the system refused a directory it
          \* could have made: no permission, no space, a read-only file
          \* system, a file of that name

dirVars == <<dirs, depth, dirPc, refused>>

(* The directories on the way, and the trees made of some of them. *)
Ancestors(c) == {SubSeq(Target[c], 1, n) : n \in 0..Len(Target[c])}
Trees == {D \in SUBSET UNION {Ancestors(c) : c \in Creator} :
            <<>> \in D /\ \A d \in D : d # <<>> => SubSeq(d, 1, Len(d) - 1) \in D}

(* Part of the way may be there already. *)
DirInit == /\ dirs \in Trees
           /\ depth = [c \in Creator |-> 0]
           /\ dirPc = [c \in Creator |-> "look"]
           /\ refused = {}

DirIdle == /\ dirs = {<<>>}
           /\ depth = [c \in Creator |-> 0]
           /\ dirPc = [c \in Creator |-> "idle"]
           /\ refused = {}

Parent(c) == SubSeq(Target[c], 1, depth[c])

(* The next slash: the part of the path up to it. *)
Deeper(c) == SubSeq(Target[c], 1, depth[c] + 1)

GotoDir(c, label) == dirPc' = [dirPc EXCEPT ![c] = label]

(* exits() finds the ancestor: on to the next. *)
Exits(c) ==
  /\ dirPc[c] = "look" /\ depth[c] < Len(Target[c])
  /\ Deeper(c) \in dirs
  /\ depth' = [depth EXCEPT ![c] = @ + 1]
  /\ UNCHANGED <<dirs, dirPc, refused>>

(* It does not, or stat() fails for another reason, which is taken for     *)
(* that: it is to be created.                                              *)
Missing(c) ==
  /\ dirPc[c] = "look" /\ depth[c] < Len(Target[c])
  /\ GotoDir(c, "mkdir")
  /\ UNCHANGED <<dirs, depth, refused>>

(* mkdir makes the directory, is refused it, or cannot make it: it exists  *)
(* by now (EEXIST), or its parent does not (ENOENT).                       *)
Creatable(c) == Parent(c) \in dirs /\ Deeper(c) \notin dirs
Created(c) == Creatable(c) /\ dirs' = dirs \cup {Deeper(c)} /\ UNCHANGED refused
Refused(c) == Creatable(c) /\ refused' = refused \cup {c} /\ UNCHANGED dirs
NotMade(c) == ~Creatable(c) /\ UNCHANGED <<dirs, refused>>

(* Variant with a fault: an error of mkdir ends the call. *)
MkdirOrReturn(c) ==
  /\ dirPc[c] = "mkdir"
  /\ \/ Created(c) /\ GotoDir(c, "look")
     \/ (Refused(c) \/ NotMade(c)) /\ GotoDir(c, "return")
  /\ depth' = [depth EXCEPT ![c] = @ + 1]

(* Variant with a fault: only the last component is created. *)
MkdirOnce(c) ==
  /\ dirPc[c] = "mkdir"
  /\ IF depth[c] + 1 < Len(Target[c]) THEN UNCHANGED <<dirs, refused>>
     ELSE Created(c) \/ Refused(c) \/ NotMade(c)
  /\ depth' = [depth EXCEPT ![c] = @ + 1]
  /\ GotoDir(c, "look")

(* Nobody looks at the result. *)
Mkdir(c) ==
  /\ dirPc[c] = "mkdir"
  /\ Created(c) \/ Refused(c) \/ NotMade(c)
  /\ depth' = [depth EXCEPT ![c] = @ + 1]
  /\ GotoDir(c, "look")

ReturnDir(c) ==
  /\ dirPc[c] = "look" /\ depth[c] = Len(Target[c])
  /\ GotoDir(c, "return")
  /\ UNCHANGED <<dirs, depth, refused>>

DirNext == \E c \in Creator : Exits(c) \/ Missing(c) \/ Mkdir(c) \/ ReturnDir(c)

DirSpec == DirInit /\ [][DirNext]_dirVars

-----------------------------------------------------------------------------
(* Properties *)

(* When creat_dircetory returns, the file that is opened next has a        *)
(* directory to be created in, unless the system refused the caller itself *)
(* a directory on the way: that another creates part of the path between   *)
(* the look and the mkdir, or is refused it, does no harm.                 *)
DirectoryReady ==
  \A c \in Creator : dirPc[c] = "return" => Target[c] \in dirs \/ c \in refused

(* The parts of the inductive invariant.  A creator is never beyond its    *)
(* path, and at its end when it returns.                                   *)
DirTypeOK ==
  /\ dirs \subseteq Seq(STRING) /\ depth \in [Creator -> Nat]
  /\ refused \subseteq Creator
  /\ dirPc \in [Creator -> {"idle", "look", "mkdir", "return"}]
  /\ \A c \in Creator :
       /\ depth[c] \in 0..Len(Target[c])
       /\ dirPc[c] = "mkdir" => depth[c] < Len(Target[c])
       /\ dirPc[c] = "return" => depth[c] = Len(Target[c])

(* The directory a creator has come to is there, whoever made it, unless   *)
(* this creator was refused one: for the others mkdir never lacks a parent. *)
ParentReady ==
  \A c \in Creator : dirPc[c] # "idle" => Parent(c) \in dirs \/ c \in refused

DirIInv == DirTypeOK /\ ParentReady
=============================================================================
