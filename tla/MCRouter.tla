------------------------------ MODULE MCRouter ------------------------------
(* Instances of Router for TLC.                                            *)
EXTENDS Router, Functions

Entry(method, path, type, status) ==
  [key |-> <<method, path>>, type |-> type, status |-> status, typed |-> TRUE]
File(entries) == [found |-> TRUE, json |-> TRUE, array |-> TRUE, entries |-> entries]

\* config/routes.json of the repository, without the paths that behave alike.
Shipped ==
  << Entry("GET", "/hello", "json", 200), Entry("GET", "/page", "html", 200),
     Entry("GET", "/data", "xml", 200), Entry("GET", "/simulate/error500", "plain", 500) >>

\* Keys that other sources also use, one key twice, an entry without members.
Colliding ==
  << Entry("GET", "/secure/admin", "HTML", 200), Entry("GET", "/json", "HTML", 500),
     Entry("GET", "/dbhello", "XML", 404), Entry("GET", "/hello", "JSON", 500),
     Entry("POST", "/submit", "JSON", 200), Entry("POST", "/secure/qa", "JSON", 200),
     Entry("", "", "", 200), Entry("GET", "/hello", "JSON", 404) >>

\* A value of the wrong type in the middle and at the end.
Wrong(entry) == [entry EXCEPT !.typed = FALSE]
AllFiles ==
  { File(Shipped), File(Colliding), File(<<>>),
    File(<<Shipped[1], Wrong(Shipped[2]), Shipped[3]>>), File(<<Shipped[1], Wrong(Shipped[4])>>),
    [File(<<>>) EXCEPT !.found = FALSE], [File(<<>>) EXCEPT !.json = FALSE],
    [File(Shipped) EXCEPT !.array = FALSE] }
ShippedOnly == {File(Shipped)}

\* The rows of a complete seeding, of one that was interrupted after the second
\* route, and of one that has not begun.
AllRows ==
  LET Get(p) == <<"GET", p>>
      complete == [k \in {Get("/dbhello"), Get("/dbtest"), Get("/banner"), Get("/logo")} |->
                     IF k = Get("/dbtest") THEN "body" ELSE "file"] IN
    { complete, Restrict(complete, {Get("/dbhello"), Get("/dbtest")}), Restrict(complete, {}) }

Auth(present, scheme, signed, role) ==
  [present |-> present, scheme |-> scheme, signed |-> signed, role |-> role]
NoAuth == Auth(FALSE, "", FALSE, "")
Auths ==
  {NoAuth, Auth(TRUE, "Basic ", TRUE, "Admin"), Auth(TRUE, "", TRUE, "Admin")}
    \cup {Auth(TRUE, "Bearer ", signed, role) : signed \in BOOLEAN, role \in Roles \cup {"admin", ""}}

\* The body of a POST as JSON; "invalid" is what a client that left too early
\* leaves of it.
Bodies == {"none", "data", "no data", "null", "number", "invalid"}

SecurePaths == {"/secure/admin", "/secure/qa", "/secure/viewer"}
OpenPaths ==
  {"/hello", "/data", "/json", "/namaskar", "/dbhello", "/dbtest", "/banner", "/index.html",
   "/simulate/error500"}
AllRequests ==
  {[key |-> <<"GET", p>>, auth |-> a, body |-> "none"] : p \in SecurePaths, a \in Auths}
    \cup {[key |-> <<"GET", p>>, auth |-> NoAuth, body |-> "none"] : p \in OpenPaths}
    \cup {[key |-> <<"POST", "/submit">>, auth |-> NoAuth, body |-> b] : b \in Bodies}
    \cup {[key |-> <<"POST", "/secure/qa">>, auth |-> NoAuth, body |-> "none"],
          [key |-> <<"", "">>, auth |-> NoAuth, body |-> "none"]}

Suffixes ==
  [p \in SecurePaths \cup OpenPaths \cup {"/submit", ""} |-> IF p = "/index.html" THEN "HTML" ELSE "PLAIN"]
=============================================================================
