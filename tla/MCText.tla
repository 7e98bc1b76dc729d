------------------------------- MODULE MCText --------------------------------
(* Small instances of the modules about text and paths.  They have nothing *)
(* in common, so each behaviour is one of one of them, the others idle.    *)
EXTENDS ReadLine, Formatter, CreatDirectory, CgiPrograms

CONSTANTS c1, c2

(* Two sinks below one directory that does not exist. *)
Targets == [c \in {c1, c2} |-> IF c = c1 THEN <<"logs", "a">> ELSE <<"logs", "a", "b">>]

ReadIdle == /\ sent = <<>> /\ closed = TRUE /\ pos = 0
            /\ pc = "done" /\ out = <<>> /\ lines = <<>>

TextInit == \/ Init /\ FmtIdle /\ DirIdle /\ ProgIdle
            \/ ReadIdle /\ FmtInit /\ DirIdle /\ ProgIdle
            \/ ReadIdle /\ FmtIdle /\ DirInit /\ ProgIdle
            \/ ReadIdle /\ FmtIdle /\ DirIdle /\ ProgInit

textVars == <<vars, fmtVars, dirVars, progVars>>

TextNext == \/ Next /\ UNCHANGED <<fmtVars, dirVars, progVars>>
            \/ FmtNext /\ UNCHANGED <<vars, dirVars, progVars>>
            \/ DirNext /\ UNCHANGED <<vars, fmtVars, progVars>>
            \/ ProgNext /\ UNCHANGED <<vars, fmtVars, dirVars>>

(* Fairness of the line reader only: the others are checked for safety. *)
TextSpec == TextInit /\ [][TextNext]_textVars
            /\ WF_textVars(Step /\ UNCHANGED <<fmtVars, dirVars, progVars>>)
=============================================================================
