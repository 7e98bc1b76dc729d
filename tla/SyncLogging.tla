---------------------------- MODULE SyncLogging -----------------------------
(***************************************************************************)
(* Threads that build global loggers, register them with LoggerManager     *)
(* under a name, fetch each other's by that name, and log through them to  *)
(* files; in a process that can die at any moment, or end, and be started  *)
(* again over the files it left.                                           *)
(*                                                                         *)
(* A step is what happens between two points where another thread or a     *)
(* crash can make a difference: the two looks at the registry are two      *)
(* steps, the closing of a file and the opening of the next are two.       *)
(***************************************************************************)
EXTENDS RollBySizeSink, FiniteSets

CONSTANTS Thread, None,
          Name,        \* names that loggers are registered under
          NameOf,      \* [Thread -> Name]: the logger a thread wants
          Kinds,       \* [Thread -> Seq(SinkKind)]: the sinks of the logger a
                       \* thread builds, in order
          LimitLevel,  \* _limit_level of every logger
          Work,        \* [Thread -> Seq([level, len])]: what threads log
          Times,       \* the local times the process may see, in order
          MaxRestarts  \* bound on how often the process is started again

ASSUME LoggingAssumption ==
  /\ IsFiniteSet(Thread) /\ None \notin Thread
  /\ NameOf \in [Thread -> Name]
  /\ Kinds \in [Thread -> Seq(SinkKind) \ {<<>>}]
  /\ LimitLevel \in 0..6
  /\ Work \in [Thread -> Seq([level : 1..5, len : Nat])]
  /\ Times \in Seq(Seq(Nat)) /\ Times # <<>> /\ MaxRestarts \in Nat

VARIABLES
  disk,      \* the files
  clock,     \* which of Times it is
  life,      \* how often the process has been started again
  pc,        \* where each thread is
  next,      \* each thread: the number of its next message
  mine,      \* each thread: the logger it uses, named by who built it
  at,        \* each thread: the sink of that logger it is at
  made,      \* each thread: the sinks of the logger it has built
  mutex,     \* each logger: who holds its mutex, or None
  registry,  \* LoggerManager::_loggers: each name's logger, or None
  sinks,     \* every sink ever constructed, with what it was told to write
  ended      \* each of these: "open", "closed" or "lost"

vars == <<disk, clock, life, pc, next, mine, at, made, mutex, registry, sinks, ended>>
files == <<disk, sinks, ended>>

(* start -> build -> has -> insert -> idle, or start -> idle by getLogger; *)
(* idle -> lock -> size -> write -> size ... -> idle, size -> open -> write*)
Pc == {"start", "build", "has", "insert", "idle", "lock", "size", "open", "write",
       "exit"}

Goto(t, label) == pc' = [pc EXCEPT ![t] = label]

(* A process that has just been started: the state of its threads, its     *)
(* mutexes and its registry.                                               *)
AtStart == [t \in Thread |-> "start"]
Nobody  == [t \in Thread |-> None]
NoNames == [n \in Name |-> None]

Init ==
  /\ disk = <<>> /\ clock = 1 /\ life = 0
  /\ pc = AtStart /\ next = [t \in Thread |-> 1]
  /\ mine = Nobody /\ at = [t \in Thread |-> 1] /\ made = [t \in Thread |-> <<>>]
  /\ mutex = Nobody /\ registry = NoNames
  /\ sinks = <<>> /\ ended = <<>>

Now == Times[clock]

Tick ==
  /\ clock < Len(Times)
  /\ clock' = clock + 1
  /\ UNCHANGED <<files, life, pc, next, mine, at, made, mutex, registry>>

-----------------------------------------------------------------------------
(* Getting a logger *)

(* The thread sets out to build one of its own. *)
StartBuild(t) ==
  /\ pc[t] = "start"
  /\ Goto(t, "build")
  /\ UNCHANGED <<files, clock, life, next, mine, at, made, mutex, registry>>

(* buildSink: the next sink of the logger opens its file. *)
BuildSink(t) ==
  /\ pc[t] = "build" /\ Len(made[t]) < Len(Kinds[t])
  /\ LET s == Construct(Kinds[t][Len(made[t]) + 1], Now)
     IN  /\ sinks' = Append(sinks, s)
         /\ disk' = OpenAppend(disk, CurrentFile(s))
  /\ ended' = Append(ended, "open")
  /\ made' = [made EXCEPT ![t] = Append(@, Len(sinks) + 1)]
  /\ UNCHANGED <<clock, life, pc, next, mine, at, mutex, registry>>

(* build(): the logger is made. *)
Build(t) ==
  /\ pc[t] = "build" /\ Len(made[t]) = Len(Kinds[t])
  /\ mine' = [mine EXCEPT ![t] = t]
  /\ Goto(t, "has")
  /\ UNCHANGED <<files, clock, life, next, at, made, mutex, registry>>

(* hasLogger, under a lock of its own. *)
HasLogger(t) ==
  /\ pc[t] = "has"
  /\ Goto(t, IF registry[NameOf[t]] = None THEN "insert" ELSE "idle")
  /\ UNCHANGED <<files, clock, life, next, mine, at, made, mutex, registry>>

(* Variant with a fault: the last one is kept. *)
InsertOverwrites(t) ==
  /\ pc[t] = "insert"
  /\ registry' = [registry EXCEPT ![NameOf[t]] = t]
  /\ Goto(t, "idle")
  /\ UNCHANGED <<files, clock, life, next, mine, at, made, mutex>>

(* unordered_map::insert leaves an existing entry alone. *)
Insert(t) ==
  /\ pc[t] = "insert"
  /\ registry' = [registry EXCEPT ![NameOf[t]] = IF @ = None THEN t ELSE @]
  /\ Goto(t, "idle")
  /\ UNCHANGED <<files, clock, life, next, mine, at, made, mutex>>

(* getLogger, when it returns one. *)
GetLogger(t) ==
  /\ pc[t] = "start"
  /\ registry[NameOf[t]] # None
  /\ mine' = [mine EXCEPT ![t] = registry[NameOf[t]]]
  /\ Goto(t, "idle")
  /\ UNCHANGED <<files, clock, life, next, at, made, mutex, registry>>

-----------------------------------------------------------------------------
(* Logging *)

(* debug() ... fatal(): a message below the logger's level ends here. *)
Say(t) ==
  /\ pc[t] = "idle" /\ next[t] <= Len(Work[t])
  /\ IF Work[t][next[t]].level < LimitLevel
     THEN next' = [next EXCEPT ![t] = @ + 1] /\ UNCHANGED pc
     ELSE Goto(t, "lock") /\ UNCHANGED next
  /\ UNCHANGED <<files, clock, life, mine, at, made, mutex, registry>>

(* Variant with a fault: the mutex is the thread's, not the logger's. *)
LockOwn(t) ==
  /\ pc[t] = "lock"
  /\ at' = [at EXCEPT ![t] = 1]
  /\ Goto(t, "size")
  /\ UNCHANGED <<files, clock, life, next, mine, made, mutex, registry>>

Lock(t) ==
  /\ pc[t] = "lock"
  /\ mutex[mine[t]] = None
  /\ mutex' = [mutex EXCEPT ![mine[t]] = t]
  /\ at' = [at EXCEPT ![t] = 1]
  /\ Goto(t, "size")
  /\ UNCHANGED <<files, clock, life, next, mine, made, registry>>

Sink(t) == made[mine[t]][at[t]]

SizeOk(t) ==
  /\ pc[t] = "size" /\ ~IsFull(sinks[Sink(t)])
  /\ Goto(t, "write")
  /\ UNCHANGED <<files, clock, life, next, mine, at, made, mutex, registry>>

(* Variant with a fault: what is unflushed goes to the next file. *)
LeaveUnflushed(t) ==
  /\ pc[t] = "size" /\ IsFull(sinks[Sink(t)])
  /\ Goto(t, "open")
  /\ UNCHANGED <<files, clock, life, next, mine, at, made, mutex, registry>>

(* Variant with a fault: what is unflushed is dropped though it could have *)
(* been written.                                                           *)
CloseUnflushed(t) ==
  /\ pc[t] = "size" /\ IsFull(sinks[Sink(t)])
  /\ sinks' = [sinks EXCEPT ![Sink(t)].unflushed = <<>>]
  /\ Goto(t, "open")
  /\ UNCHANGED <<disk, ended, clock, life, next, mine, at, made, mutex, registry>>

(* close() passes on what the stream still has.  If that fails after n     *)
(* bytes (no space, an I/O error) the rest is gone: nobody looks, and the  *)
(* next open() clears the mark that close() has left.                      *)
CloseFile(k) ==
  \E n \in 0..Len(sinks[k].unflushed) :
    /\ disk' = Flush(disk, sinks[k], n)
    /\ sinks' = [sinks EXCEPT ![k] = Closed(Flushed(@, n))]

(* A full file is closed. *)
CloseFull(t) ==
  /\ pc[t] = "size" /\ IsFull(sinks[Sink(t)])
  /\ CloseFile(Sink(t))
  /\ Goto(t, "open")
  /\ UNCHANGED <<ended, clock, life, next, mine, at, made, mutex, registry>>

(* The next one is opened, and its size counted from zero. *)
Open(t) ==
  /\ pc[t] = "open"
  /\ LET s == OpenNext(sinks[Sink(t)], Now)
     IN  /\ sinks' = [sinks EXCEPT ![Sink(t)] = s]
         /\ disk' = OpenAppend(disk, CurrentFile(s))
  /\ Goto(t, "write")
  /\ UNCHANGED <<ended, clock, life, next, mine, at, made, mutex, registry>>

Message(t) == [by |-> t, no |-> next[t]]

(* The message is written, of which any part may reach the file at once;   *)
(* then the next sink has its turn, or the mutex is released.              *)
Write(t) ==
  /\ pc[t] = "write"
  /\ LET k == Sink(t)
         s == Put(k, sinks[k], Message(t), Work[t][next[t]].len)
     IN  \E n \in 0..Len(s.unflushed) :
           /\ disk' = Flush(disk, s, n)
           /\ sinks' = [sinks EXCEPT ![k] = Flushed(s, n)]
  /\ IF at[t] < Len(made[mine[t]])
     THEN /\ at' = [at EXCEPT ![t] = @ + 1] /\ Goto(t, "size")
          /\ UNCHANGED <<next, mutex>>
     ELSE /\ next' = [next EXCEPT ![t] = @ + 1] /\ Goto(t, "idle")
          /\ mutex' = [mutex EXCEPT ![mine[t]] = None] /\ UNCHANGED at
  /\ UNCHANGED <<ended, clock, life, mine, made, registry>>

-----------------------------------------------------------------------------
(* The end of the process, and its next start *)

(* What was still open is lost, and a new process finds the files. *)
Restart ==
  /\ life < MaxRestarts
  /\ life' = life + 1
  /\ ended' = [k \in DOMAIN ended |-> IF ended[k] = "open" THEN "lost" ELSE ended[k]]
  /\ pc' = AtStart /\ mine' = Nobody /\ at' = [t \in Thread |-> 1]
  /\ made' = [t \in Thread |-> <<>>] /\ mutex' = Nobody /\ registry' = NoNames
  /\ UNCHANGED <<disk, sinks, clock>>

(* It dies: an assertion fails (a file cannot be opened or written), or it *)
(* is killed.  The message each thread was logging is not logged again.    *)
Crash ==
  /\ Restart
  /\ next' = [t \in Thread |-> IF pc[t] \in {"lock", "size", "open", "write"}
                               THEN next[t] + 1 ELSE next[t]]

(* It exits: no thread goes on, the loggers are destroyed and their        *)
(* streams closed one by one; then it can be started again.                *)
Exit ==
  /\ life < MaxRestarts
  /\ \A t \in Thread : pc[t] \in {"start", "idle"}
  /\ pc' = [t \in Thread |-> "exit"]
  /\ UNCHANGED <<files, clock, life, next, mine, at, made, mutex, registry>>

CloseStream(k) ==
  /\ \A t \in Thread : pc[t] = "exit"
  /\ ended[k] = "open"
  /\ CloseFile(k)
  /\ ended' = [ended EXCEPT ![k] = "closed"]
  /\ UNCHANGED <<clock, life, pc, next, mine, at, made, mutex, registry>>

StartAgain ==
  /\ \A t \in Thread : pc[t] = "exit"
  /\ \A k \in DOMAIN ended : ended[k] # "open"
  /\ Restart
  /\ UNCHANGED next

-----------------------------------------------------------------------------
Next ==
  \/ Tick \/ Crash \/ Exit \/ StartAgain
  \/ \E k \in DOMAIN sinks : CloseStream(k)
  \/ \E t \in Thread :
       \/ StartBuild(t) \/ BuildSink(t) \/ Build(t) \/ HasLogger(t) \/ Insert(t)
       \/ GetLogger(t)
       \/ Say(t) \/ Lock(t) \/ SizeOk(t) \/ CloseFull(t) \/ Open(t) \/ Write(t)

Spec == Init /\ [][Next]_vars

-----------------------------------------------------------------------------
(* Properties *)

FileName == [stamp : {<<>>} \cup {Stamp(Times[i]) : i \in 1..Len(Times)}, count : Nat]
Byte     == [sink : Nat, pos : Nat]
MessageType == [by : Thread, no : Nat]
SinkType == [kind : SinkKind, files : Seq(FileName), starts : Seq(Nat),
             name_count : Nat, cur_fsize : Nat, unflushed : Seq(Byte),
             said : Seq(MessageType), dropped : SUBSET Nat]

(* Every variable has its type, and the files of a sink exist. *)
TypeOK ==
  /\ disk \in [DOMAIN disk -> Seq(Byte)] /\ DOMAIN disk \subseteq FileName
  /\ clock \in 1..Len(Times) /\ life \in 0..MaxRestarts
  /\ pc \in [Thread -> Pc] /\ next \in [Thread -> Nat \ {0}]
  /\ mine \in [Thread -> Thread \cup {None}] /\ at \in [Thread -> Nat \ {0}]
  /\ made \in [Thread -> Seq(Nat)]
  /\ mutex \in [Thread -> Thread \cup {None}]
  /\ registry \in [Name -> Thread \cup {None}]
  /\ sinks \in Seq(SinkType)
  /\ \A k \in DOMAIN sinks : \A i \in DOMAIN sinks[k].files :
       sinks[k].files[i] \in DOMAIN disk
  /\ ended \in Seq({"open", "closed", "lost"}) /\ Len(ended) = Len(sinks)

(* The places of the bytes of sink k in the i-th of its files, which byte  *)
(* each is, and of which message.                                          *)
Contents(k, i) == disk[sinks[k].files[i]]
Held(k, i) == {n \in DOMAIN Contents(k, i) : Contents(k, i)[n].sink = k}
Pos(k, i, n) == Contents(k, i)[n].pos
Said(k, i, n) == sinks[k].said[Pos(k, i, n)]

(* What is in the files of a sink is what it was told to write, in that    *)
(* order and nothing twice, whoever else appends to them.  What is missing *)
(* is what a crash has caught unflushed, and what a close() has failed to  *)
(* write: the end of a file that was full, or of the last one.             *)
LostOnlyByCrashOrClose ==
  \A k \in DOMAIN sinks :
    LET s   == sinks[k]
        All == DOMAIN s.files
    IN  /\ \A i, j \in All : \A m \in Held(k, i) : \A n \in Held(k, j) :
             i < j \/ (i = j /\ m < n) => Pos(k, i, m) < Pos(k, j, n)
        /\ UNION {{Pos(k, i, n) : n \in Held(k, i)} : i \in All}
             = (1..(Len(s.said) - Len(s.unflushed))) \ s.dropped
        /\ ended[k] = "closed" => s.unflushed = <<>>
        /\ \A p \in s.dropped : \A i \in All : \A n \in Held(k, i) :
             s.starts[i] < p => Pos(k, i, n) < p
        /\ \A p \in s.dropped : p > s.starts[Len(s.starts)]
                                  => ended[k] = "closed" \/ IsFull(s)

(* No message is divided between two files: sink.hpp checks the size only  *)
(* before it writes, and a file is closed before the next is opened.       *)
OneFilePerMessage ==
  \A k \in DOMAIN sinks : \A i, j \in DOMAIN sinks[k].files :
    i # j => \A m \in Held(k, i) : \A n \in Held(k, j) : Said(k, i, m) # Said(k, j, n)

(* No other sink, of this process or one before, has had the file. *)
Alone(k, i) == \A j \in DOMAIN sinks \ {k} : \A h \in DOMAIN sinks[j].files :
                 sinks[j].files[h] # sinks[k].files[i]

(* A rolling sink leaves a file when, and only when, that is full: the     *)
(* files it has left are of MaxSize bytes or more, if their close() lost   *)
(* none, and a file that is its own never has that many bytes before any   *)
(* message in it.  (SizeLimited of MCSyncLogging is about the others.)     *)
RollsInTime ==
  \A k \in DOMAIN sinks : sinks[k].kind = "roll" =>
    \A i \in DOMAIN sinks[k].files :
      /\ i < Len(sinks[k].files) =>
           \/ Len(Contents(k, i)) >= MaxSize
           \/ \E p \in sinks[k].dropped : /\ sinks[k].starts[i] < p
                                          /\ p <= sinks[k].starts[i + 1]
      /\ Alone(k, i) => \A n \in DOMAIN Contents(k, i) :
           Cardinality({m \in 1..(n - 1) : Said(k, i, m) # Said(k, i, n)}) < MaxSize

(* A sink never comes back to a file it has left, in whatever second it    *)
(* rolls and whichever times print alike.                                  *)
NoFileTwice ==
  \A k \in DOMAIN sinks : \A i, j \in DOMAIN sinks[k].files :
    i # j => sinks[k].files[i] # sinks[k].files[j]

(* As long as the process lives a name stands for the logger that was      *)
(* registered under it first, although the check and the insertion are     *)
(* under two locks.                                                        *)
NameIsStable ==
  [][\A n \in Name : registry[n] # None /\ life' = life => registry'[n] = registry[n]]_vars

(* The parts of the inductive invariant.  A thread that uses a logger uses *)
(* one that was built to the end; its sinks are its own, and open as long  *)
(* as the process does not exit, which all threads do together.            *)
Writing == {"size", "open", "write"}
Built(t) == Len(made[t]) = Len(Kinds[t])
MadeInv ==
  \A t \in Thread :
    /\ Len(made[t]) <= Len(Kinds[t])
    /\ \A i \in DOMAIN made[t] : /\ made[t][i] \in DOMAIN sinks
                                 /\ pc[t] # "exit" => ended[made[t][i]] = "open"
    /\ \A u \in Thread : \A i \in DOMAIN made[t] : \A j \in DOMAIN made[u] :
         made[t][i] = made[u][j] => t = u /\ i = j
    /\ \A u \in Thread : pc[t] = "exit" => pc[u] = "exit"
LoggerInv ==
  /\ \A n \in Name : registry[n] # None => Built(registry[n])
  /\ \A t \in Thread :
       /\ mine[t] # None => Built(mine[t])
       /\ pc[t] \notin {"start", "build", "exit"} => mine[t] # None
       /\ pc[t] \in {"has", "insert"} => mine[t] = t
       /\ pc[t] \in Writing \cup {"lock"} => next[t] <= Len(Work[t])
       /\ pc[t] \in Writing => at[t] <= Len(made[mine[t]])

(* Whoever is at a sink holds the mutex of its logger, and finds the sink  *)
(* as it left it.                                                          *)
MutexInv == \A t \in Thread : pc[t] \in Writing => mutex[mine[t]] = t
SizeInv ==
  \A t \in Thread :
    /\ pc[t] = "open" => IsFull(sinks[Sink(t)]) /\ sinks[Sink(t)].unflushed = <<>>
    /\ pc[t] = "write" => ~IsFull(sinks[Sink(t)])

(* A sink has not been told yet to write the message that is next, unless  *)
(* it has had its turn.                                                    *)
HadTurn(t, k) == pc[t] \in Writing /\ \E j \in 1..(at[t] - 1) : made[mine[t]][j] = k
FreshInv ==
  \A k \in DOMAIN sinks : \A p \in DOMAIN sinks[k].said : \A t \in Thread :
    LET m == sinks[k].said[p]
    IN  m.by = t => m.no < next[t] \/ (m.no = next[t] /\ HadTurn(t, k))

(* The books of a sink: its files one after the other, with whole messages *)
(* in each, and each left as soon as it was full.                          *)
EndOf(s, i) == IF i = Len(s.files) THEN Len(s.said) ELSE s.starts[i + 1]
NamesOk(s) ==
  /\ Len(s.files) >= 1 /\ Len(s.starts) = Len(s.files)
  /\ s.kind = "file" => Len(s.files) = 1
  /\ s.kind = "roll" => /\ s.name_count = Len(s.files)
                        /\ \A i \in DOMAIN s.files : s.files[i].count = i - 1
StartsOk(s) ==
  /\ \A i, j \in DOMAIN s.starts : i <= j => s.starts[i] <= s.starts[j]
  /\ s.starts[Len(s.starts)] <= PassedOn(s)
  /\ s.cur_fsize = Len(s.said) - s.starts[Len(s.starts)]
WholeOk(s) ==
  \A i \in DOMAIN s.starts : \A p, q \in DOMAIN s.said :
    p <= s.starts[i] /\ s.starts[i] < q => s.said[p] # s.said[q]
RollsOk(s) ==
  s.kind = "roll" =>
    \A i \in DOMAIN s.starts :
      /\ i < Len(s.starts) => s.starts[i + 1] - s.starts[i] >= MaxSize
      /\ \A p, q \in DOMAIN s.said :
           /\ s.starts[i] < p /\ p < q /\ q <= EndOf(s, i)
           /\ s.said[p] # s.said[q]
           => p - s.starts[i] < MaxSize
(* What close() has dropped is the end of a file; nothing of the current   *)
(* one, unless there is nothing left to write to it.                       *)
Intact(s) == \A p \in s.dropped : p <= s.starts[Len(s.starts)]
DropsOk(s) ==
  /\ s.dropped \subseteq 1..PassedOn(s)
  /\ \A p \in s.dropped : \A i \in DOMAIN s.starts : \A q \in 1..PassedOn(s) :
       s.starts[i] < p /\ p < q /\ q <= EndOf(s, i) => q \in s.dropped
  /\ Intact(s) \/ s.unflushed = <<>>
SinkOk(s) == NamesOk(s) /\ StartsOk(s) /\ WholeOk(s) /\ RollsOk(s) /\ DropsOk(s)

(* The disk d has, of each of the sinks ss, the bytes that it has passed   *)
(* on and that were not dropped, each in its file and behind those before. *)
OnDisk(s) == (1..PassedOn(s)) \ s.dropped
InPlace(b, f, ss) ==
  /\ b.sink \in DOMAIN ss
  /\ b.pos \in OnDisk(ss[b.sink])
  /\ \E i \in DOMAIN ss[b.sink].files :
       /\ ss[b.sink].files[i] = f
       /\ ss[b.sink].starts[i] < b.pos /\ b.pos <= EndOf(ss[b.sink], i)
DiskOk(d, ss) ==
  /\ \A f \in DOMAIN d : \A n \in DOMAIN d[f] :
       /\ InPlace(d[f][n], f, ss)
       /\ \A m \in 1..(n - 1) : d[f][m].sink = d[f][n].sink => d[f][m].pos < d[f][n].pos
  /\ \A k \in DOMAIN ss :
       /\ \A p \in OnDisk(ss[k]) :
            \E f \in DOMAIN d : \E n \in DOMAIN d[f] : d[f][n] = ByteOf(k, p)
       /\ \A i \in DOMAIN ss[k].unflushed :
            ss[k].unflushed[i] = ByteOf(k, PassedOn(ss[k]) + i)

BooksInv ==
  /\ \A k \in DOMAIN sinks : /\ SinkOk(sinks[k])
                             /\ ended[k] = "closed" => sinks[k].unflushed = <<>>
                             /\ Intact(sinks[k]) \/ ended[k] = "closed" \/ IsFull(sinks[k])
  /\ DiskOk(disk, sinks)

IInv == /\ TypeOK /\ MadeInv /\ LoggerInv /\ MutexInv /\ SizeInv /\ FreshInv
        /\ BooksInv
=============================================================================
