---------------------------- MODULE MCCgiExchange ----------------------------
(* Small instances of CgiExchange: pipes of one byte, bodies and outputs   *)
(* of at most two, so that writers block, and requests for the ways a      *)
(* program can treat its input and end.                                    *)
EXTENDS CgiExchange

(* test_cgi with both operands in the body. *)
PostForm == [method |-> "POST", len |-> 2, exec |-> TRUE, reads |-> TRUE,
             out |-> 2, end |-> "exit0"]

(* A program that leaves its body unread, prints and crashes. *)
PostLoudCrash == [method |-> "POST", len |-> 2, exec |-> TRUE, reads |-> FALSE,
                  out |-> 2, end |-> "signal"]

(* POST for a file that is not executable: nobody reads the body.          *)
PostPage == [method |-> "POST", len |-> 2, exec |-> FALSE, reads |-> FALSE,
             out |-> 0, end |-> "exit1"]

(* A negative Content-Length, after the long way round to zero in          *)
(* RecvHttpRequestBody.                                                    *)
PostNegative == [method |-> "POST", len |-> -1, exec |-> TRUE, reads |-> TRUE,
                 out |-> 1, end |-> "exit0"]

(* GET with a query for a file that is not executable, such as index.html. *)
GetPage == [method |-> "GET", len |-> 0, exec |-> FALSE, reads |-> FALSE,
            out |-> 0, end |-> "exit1"]

(* shell_cgi.sh: prints, and leaves its input unread. *)
GetScript == [method |-> "GET", len |-> 0, exec |-> TRUE, reads |-> FALSE,
              out |-> 1, end |-> "exit0"]

Requests      == {PostForm, PostLoudCrash, PostPage, PostNegative, GetPage}
PlainRequests == {PostForm, GetScript}
=============================================================================
