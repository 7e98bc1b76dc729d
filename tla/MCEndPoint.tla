----------------------------- MODULE MCEndPoint -----------------------------
(* Small instances of EndPoint: a site with a page, a program, a directory *)
(* with its index page and one without, and requests for each of them.     *)
EXTENDS EndPoint, TLC

CONSTANTS page, prog, dir, bare, index, noindex, err404

MCPath == {page, prog, dir, bare, index, noindex, err404}
MCIndexOf == [p \in MCPath |-> CASE p = dir -> index [] OTHER -> noindex]

None    == [kind |-> "none", exec |-> FALSE, size |-> 0]
Page(n) == [kind |-> "file", exec |-> FALSE, size |-> n]
Program == [kind |-> "file", exec |-> TRUE, size |-> 3]
Folder  == [kind |-> "dir", exec |-> TRUE, size |-> 2]

FullSite == [p \in MCPath |-> CASE p = page -> Page(2) [] p = prog -> Program
               [] p \in {dir, bare} -> Folder [] p = index -> Page(3)
               [] p = noindex -> None [] p = err404 -> Page(1)]

(* Without the page, the index page and the error page; and with larger    *)
(* ones, and a directory for an index page: Replace turns one tree into    *)
(* another name by name.                                                   *)
BareSite  == [FullSite EXCEPT ![page] = None, ![index] = None, ![err404] = None]
GrownSite == [FullSite EXCEPT ![page] = Page(3), ![index] = Page(1),
                ![err404] = Page(2), ![noindex] = [Folder EXCEPT !.exec = FALSE]]
LargeSite == [FullSite EXCEPT ![page] = Page(5)]

Get(p, query) == [method |-> "GET", path |-> p, slash |-> FALSE, query |-> query,
                  lengths |-> <<>>, body |-> 0]
Post(p, lengths, n) == [method |-> "POST", path |-> p, slash |-> FALSE,
                        query |-> FALSE, lengths |-> lengths, body |-> n]

(* GET of each kind of name; a path with a slash; bodies that are whole,   *)
(* short, longer than announced, unannounced, announced twice, announced   *)
(* with a negative length, or with one that is no int: the least int, and  *)
(* 6, which is -2, have bodies on which the count gets round to zero; and  *)
(* a method that is refused.                                               *)
Gets  == {Get(p, FALSE) : p \in {page, prog, dir, bare, noindex}}
           \cup {Get(page, TRUE), [Get(dir, FALSE) EXCEPT !.slash = TRUE]}
Posts == {Post(prog, <<2>>, 2), Post(page, <<2>>, 1), Post(prog, <<1>>, 2),
          Post(prog, <<>>, 1), Post(prog, <<2, 1>>, 2), Post(prog, <<-1>>, 2),
          Post(prog, <<-4>>, 4), Post(page, <<-4>>, 3), Post(prog, <<6>>, 6)}
Other == {[Get(page, FALSE) EXCEPT !.method = "OTHER"]}

AllRequests  == Gets \cup Posts \cup Other
PageRequests == {Get(page, FALSE)}

AllSites   == {FullSite, BareSite, GrownSite}
OneSite    == {FullSite}
LargeSites == {LargeSite}
Outputs    == {0, 2}
=============================================================================
