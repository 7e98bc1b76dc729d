---------------------------- MODULE MCSyncLogging ----------------------------
(* Small instances of SyncLogging: files of two bytes, and two times of    *)
(* one day that print alike.                                               *)
EXTENDS SyncLogging

CONSTANTS t1, t2, name

TwoThreads == {t1, t2}
SameName   == [t \in TwoThreads |-> name]
Messages   == [t \in TwoThreads |->
                 IF t = t1 THEN <<[level |-> 2, len |-> 2], [level |-> 1, len |-> 1],
                                  [level |-> 3, len |-> 1]>>
                 ELSE <<[level |-> 5, len |-> 1]>>]
TwoLoggers == [t \in TwoThreads |-> IF t = t1 THEN <<"roll">> ELSE <<"roll", "file">>]

(* 1:11:05 and 11:01:05 of the same day. *)
Alike == << <<2024, 5, 1, 1, 11, 5>>, <<2024, 5, 1, 11, 1, 5>> >>

(* "The maximal size of a single file; beyond it, it goes on to a new      *)
(* file": whatever sinks write to the file of a rolling sink, it has less  *)
(* than that before any message in it (sink.hpp:127).                      *)
MessageOf(b) == <<b.sink, sinks[b.sink].said[b.pos]>>
SizeLimited ==
  \A k \in DOMAIN sinks : sinks[k].kind = "roll" =>
    \A i \in DOMAIN sinks[k].files : \A n \in DOMAIN Contents(k, i) :
      Cardinality({m \in 1..(n - 1) :
                     MessageOf(Contents(k, i)[m]) # MessageOf(Contents(k, i)[n])}) < MaxSize
=============================================================================
