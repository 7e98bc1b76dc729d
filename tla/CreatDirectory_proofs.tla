----------------------- MODULE CreatDirectory_proofs -----------------------
(***************************************************************************)
(* Whoever returns from creat_dircetory has its directory, unless a mkdir  *)
(* of its own was refused, for any number of callers, any paths and        *)
(* whatever part of them exists before.                                    *)
(***************************************************************************)
EXTENDS CreatDirectory, TLAPS

(* The way to a directory: nothing at first, one component more at a time, *)
(* and at last the directory itself.                                       *)
LEMMA Way ==
  ASSUME NEW c \in Creator
  PROVE  /\ Target[c] \in Seq(STRING) /\ Len(Target[c]) \in Nat
         /\ SubSeq(Target[c], 1, 0) = <<>>
         /\ SubSeq(Target[c], 1, Len(Target[c])) = Target[c]
         /\ \A n \in 0..Len(Target[c]) : SubSeq(Target[c], 1, n) \in Seq(STRING)
<1>1. Target[c] \in Seq(STRING)
  BY DirectoryAssumption
<1> DEFINE t == Target[c]
           S == STRING
<1>2. t \in Seq(S)
  BY <1>1
<1> HIDE DEF t, S
<1>3. Len(t) \in Nat /\ SubSeq(t, 1, 0) = <<>> /\ SubSeq(t, 1, Len(t)) = t
  BY <1>2
<1>4. \A n \in 0..Len(t) : SubSeq(t, 1, n) \in Seq(S)
  BY <1>2
<1> QED BY <1>2, <1>3, <1>4 DEF t, S

LEMMA InitDirIInv == DirInit => DirIInv
<1> SUFFICES ASSUME DirInit
             PROVE  DirIInv
  OBVIOUS
<1>1. dirs \in Trees
  BY DEF DirInit
<1>2. <<>> \in dirs /\ dirs \subseteq UNION {Ancestors(c) : c \in Creator}
  BY <1>1 DEF Trees
<1>3. \A c \in Creator : Ancestors(c) \subseteq Seq(STRING)
  BY Way DEF Ancestors
<1>4. dirs \subseteq Seq(STRING)
  BY <1>2, <1>3
<1>5. /\ depth = [c \in Creator |-> 0] /\ dirPc = [c \in Creator |-> "look"]
      /\ refused = {} /\ \A c \in Creator : depth[c] = 0 /\ dirPc[c] = "look"
  BY DEF DirInit
<1>6. DirTypeOK /\ depth \in [Creator -> Nat]
  BY <1>4, <1>5, Way DEF DirTypeOK
<1>7. ParentReady
  BY <1>2, <1>5, Way DEF ParentReady, Parent
<1> QED BY <1>6, <1>7 DEF DirIInv

(* One creator goes on, to a place whose directory is there, or it was     *)
(* refused one; no directory is removed, and what was refused stays so.    *)
LEMMA OneGoesOn ==
  ASSUME DirIInv, NEW c \in Creator, NEW n \in 0..Len(Target[c]),
         NEW l \in {"look", "mkdir", "return"},
         depth' = [depth EXCEPT ![c] = n], dirPc' = [dirPc EXCEPT ![c] = l],
         l = "mkdir" => n < Len(Target[c]), l = "return" => n = Len(Target[c]),
         dirs \subseteq dirs', dirs' \subseteq Seq(STRING),
         refused \subseteq refused', refused' \subseteq Creator,
         SubSeq(Target[c], 1, n) \in dirs' \/ c \in refused'
  PROVE  DirIInv'
<1>1. /\ dirPc \in [Creator -> {"idle", "look", "mkdir", "return"}]
      /\ depth \in [Creator -> Nat] /\ Len(Target[c]) \in Nat
  BY Way DEF DirIInv, DirTypeOK
<1>2. /\ depth'[c] = n /\ dirPc'[c] = l
      /\ \A d \in Creator \ {c} : depth'[d] = depth[d] /\ dirPc'[d] = dirPc[d]
      /\ depth' \in [Creator -> Nat]
      /\ dirPc' \in [Creator -> {"idle", "look", "mkdir", "return"}]
  BY <1>1
<1>3. DirTypeOK'
  <2>1. ASSUME NEW d \in Creator
        PROVE  /\ depth'[d] \in 0..Len(Target[d])
               /\ dirPc'[d] = "mkdir" => depth'[d] < Len(Target[d])
               /\ dirPc'[d] = "return" => depth'[d] = Len(Target[d])
    BY <1>2 DEF DirIInv, DirTypeOK
  <2> QED BY <1>2, <2>1 DEF DirTypeOK
<1>4. ParentReady'
  <2>1. ASSUME NEW d \in Creator, dirPc'[d] # "idle"
        PROVE  SubSeq(Target[d], 1, depth'[d]) \in dirs' \/ d \in refused'
    BY <1>2, <2>1 DEF DirIInv, ParentReady, Parent
  <2> QED BY <2>1 DEF ParentReady, Parent
<1> QED BY <1>2, <1>3, <1>4 DEF DirIInv

LEMMA NextDirIInv == DirIInv /\ [DirNext]_dirVars => DirIInv'
<1> SUFFICES ASSUME DirIInv, [DirNext]_dirVars
             PROVE  DirIInv'
  OBVIOUS
<1>1. CASE UNCHANGED dirVars
  BY <1>1 DEF dirVars, DirIInv, DirTypeOK, ParentReady, Parent
<1>2. ASSUME NEW c \in Creator, Exits(c) \/ Missing(c) \/ Mkdir(c) \/ ReturnDir(c)
      PROVE  DirIInv'
  <2>1. /\ depth[c] \in 0..Len(Target[c]) /\ Len(Target[c]) \in Nat
        /\ depth \in [Creator -> Nat] /\ DOMAIN dirPc = Creator
        /\ dirs \subseteq Seq(STRING) /\ ParentReady /\ refused \subseteq Creator
        /\ dirPc \in [Creator -> {"idle", "look", "mkdir", "return"}]
        /\ dirPc[c] = "mkdir" => depth[c] < Len(Target[c])
    BY Way DEF DirIInv, DirTypeOK
  <2>2. dirPc[c] # "idle"
    BY <1>2 DEF Exits, Missing, Mkdir, ReturnDir
  <2>3. SubSeq(Target[c], 1, depth[c]) \in dirs \/ c \in refused
    BY <2>1, <2>2 DEF ParentReady, Parent
  <2>4. depth = [depth EXCEPT ![c] = depth[c]]
    BY <2>1
  <2>5. CASE Exits(c)
    <3>1. /\ depth' = [depth EXCEPT ![c] = depth[c] + 1] /\ dirs' = dirs /\ refused' = refused
          /\ dirPc' = dirPc /\ dirPc[c] = "look"
          /\ SubSeq(Target[c], 1, depth[c] + 1) \in dirs
          /\ depth[c] + 1 \in 0..Len(Target[c])
      BY <2>1, <2>5 DEF Exits, Deeper
    <3>2. dirPc' = [dirPc EXCEPT ![c] = "look"]
      BY <2>1, <3>1
    <3> QED BY <2>1, <3>1, <3>2, OneGoesOn
  <2>6. CASE Missing(c)
    <3>1. /\ depth' = depth /\ dirs' = dirs /\ refused' = refused /\ depth[c] < Len(Target[c])
          /\ dirPc' = [dirPc EXCEPT ![c] = "mkdir"]
      BY <2>6 DEF Missing, GotoDir
    <3> QED BY <2>1, <2>3, <2>4, <3>1, OneGoesOn
  <2>7. CASE Mkdir(c)
    <3>1. /\ depth' = [depth EXCEPT ![c] = depth[c] + 1]
          /\ dirPc' = [dirPc EXCEPT ![c] = "look"]
          /\ Created(c) \/ Refused(c) \/ NotMade(c)
      BY <2>7 DEF Mkdir, GotoDir
    <3>2. depth[c] + 1 \in 0..Len(Target[c])
      BY <2>1, <2>7 DEF Mkdir
    <3>3. CASE Created(c)
      <4>1. dirs' = dirs \cup {SubSeq(Target[c], 1, depth[c] + 1)} /\ refused' = refused
        BY <3>3 DEF Created, Deeper
      <4>2. dirs' \subseteq Seq(STRING)
        BY <2>1, <3>2, <4>1, Way
      <4> QED BY <2>1, <3>1, <3>2, <4>1, <4>2, OneGoesOn
    <3>4. CASE Refused(c)
      <4>1. refused' = refused \cup {c} /\ dirs' = dirs
        BY <3>4 DEF Refused
      <4> QED BY <2>1, <3>1, <3>2, <4>1, OneGoesOn
    <3>5. CASE NotMade(c)
      <4>1. /\ SubSeq(Target[c], 1, depth[c] + 1) \in dirs \/ c \in refused
            /\ dirs' = dirs /\ refused' = refused
        BY <2>3, <3>5 DEF NotMade, Creatable, Parent, Deeper
      <4> QED BY <2>1, <3>1, <3>2, <4>1, OneGoesOn
    <3> QED BY <3>1, <3>3, <3>4, <3>5
  <2>8. CASE ReturnDir(c)
    <3>1. /\ depth' = depth /\ dirs' = dirs /\ refused' = refused /\ depth[c] = Len(Target[c])
          /\ dirPc' = [dirPc EXCEPT ![c] = "return"]
      BY <2>8 DEF ReturnDir, GotoDir
    <3> QED BY <2>1, <2>3, <2>4, <3>1, OneGoesOn
  <2> QED BY <1>2, <2>5, <2>6, <2>7, <2>8
<1> QED BY <1>1, <1>2 DEF DirNext

(* The inductive invariant of creat_dircetory. *)
THEOREM Invariance == DirSpec => []DirIInv
<1> QED BY InitDirIInv, NextDirIInv, PTL DEF DirSpec

(* utill.hpp:76: whoever returns has its directory, or was itself refused  *)
(* one on the way by the system, which the caller is not told; others that *)
(* create parts of the path meanwhile, or are refused them, are no reason. *)
THEOREM Ready == DirSpec => []DirectoryReady
<1>1. DirIInv => DirectoryReady
  <2> SUFFICES ASSUME DirIInv, NEW c \in Creator, dirPc[c] = "return"
               PROVE  Target[c] \in dirs \/ c \in refused
    BY DEF DirectoryReady
  <2>1. depth[c] = Len(Target[c]) /\ (SubSeq(Target[c], 1, depth[c]) \in dirs \/ c \in refused)
    BY DEF DirIInv, DirTypeOK, ParentReady, Parent
  <2> QED BY <2>1, Way
<1> QED BY <1>1, Invariance, PTL
=============================================================================
