------------------------------- MODULE Router -------------------------------
(***************************************************************************)
(* Which answer a request gets: the tables that main fills from the        *)
(* configuration file, from MOCKROUTE and from its own code before it runs *)
(* the server, and Router, SecurityManager, FileHandler and HttpResponse   *)
(* working from them.                                                      *)
(*                                                                         *)
(* A route's key is the pair of its method and path.  A handler is a       *)
(* record: where it comes from, the status and format it sets, and the     *)
(* Content-Type it puts into mHeaders (or NoType).  The handlers of a      *)
(* file and of /submit set theirs when they run.                           *)
(***************************************************************************)
EXTENDS Integers, Sequences

CONSTANTS
  ConfigFiles,  \* what routes.json may be: [found, json, array, entries]
  RowSets,      \* what MOCKROUTE may hold: functions from keys to "file" or "body"
  Requests,     \* what clients ask: [key, auth, body]
  Extension     \* of the paths looked up as files

VARIABLES
  config, rows,            \* on disk
  stage,                   \* how far main has come
  vRoutes, loaded,         \* ConfigLoader's entries; how many are in the table
  mRoutes, mSecureRoutes,  \* Router's tables
  request, response        \* the last exchange

diskVars == <<config, rows>>
tableVars == <<vRoutes, loaded, mRoutes, mSecureRoutes>>
exchangeVars == <<request, response>>
vars == <<diskVars, stage, tableVars, exchangeVars>>

Nothing == [from |-> "nowhere", status |-> 0, types |-> <<>>]
Empty == [k \in {} |-> Nothing]
Roles == {"Admin", "QA", "Viewer"}
Formats == {"HTML", "PLAIN", "JSON", "XML"}
MimeTypes == {"text/html", "text/plain", "application/json", "application/xml"}
NoType == ""
Origins == {"config", "row", "file", "code", "submit", "secure", "router", "nowhere"}

\* The array "routes" is a sequence, and a file's suffix stands for a format.
ASSUME RouterAssumption ==
  /\ \A c \in ConfigFiles : c.entries \in Seq({c.entries[i] : i \in DOMAIN c.entries})
  /\ \A r \in Requests : Extension[r.key[2]] \in Formats

IsHandler(h) == h.from \in Origins /\ h.format \in Formats /\ h.type \in MimeTypes \cup {NoType}

TypeOK ==
  /\ config \in ConfigFiles /\ rows \in RowSets
  /\ stage \in {"config", "routes", "database", "code", "secure", "tls", "serving", "exited"}
  /\ vRoutes \in Seq({config.entries[i] : i \in DOMAIN config.entries})
  /\ loaded \in 0 .. Len(vRoutes)
  /\ \A k \in DOMAIN mRoutes : IsHandler(mRoutes[k])
  /\ \A k \in DOMAIN mSecureRoutes :
       mSecureRoutes[k].role \in Roles /\ IsHandler(mSecureRoutes[k].handler)
  /\ response.from \in Origins /\ response.types \in Seq(MimeTypes)
  /\ response.from = "nowhere" \/ (request \in Requests /\ Len(response.types) = 2)

Init ==
  /\ config \in ConfigFiles /\ rows \in RowSets
  /\ stage = "config"
  /\ vRoutes = <<>> /\ loaded = 0 /\ mRoutes = Empty /\ mSecureRoutes = Empty
  /\ request = "none" /\ response = Nothing

-----------------------------------------------------------------------------
(* Starting.                                                               *)

\* Names are compared as they are: upper case only.
StringToFormat(type) == IF type \in {"JSON", "HTML", "XML"} THEN type ELSE "PLAIN"

Handler(from, status, format, type) ==
  [from |-> from, status |-> status, format |-> format, type |-> type]

\* Variant: the first handler for a key stays.
AddRouteOnce(table, key, handler) ==
  [k \in DOMAIN table \cup {key} |-> IF k \in DOMAIN table THEN table[k] ELSE handler]

\* mRoutes[key] = handler: the last one stays.
AddRoute(table, key, handler) ==
  [k \in DOMAIN table \cup {key} |-> IF k = key THEN handler ELSE table[k]]

\* routes.json can be opened and is an object with an array "routes".
HasRoutes == config.found /\ config.json /\ config.array

\* The entries before the first with a value of the wrong type.
GoodEntries ==
  LET bad == {i \in DOMAIN config.entries : ~config.entries[i].typed} IN
    IF bad = {} THEN config.entries
    ELSE SubSeq(config.entries, 1, (CHOOSE i \in bad : \A j \in bad : i <= j) - 1)

\* ConfigLoader::LoadConfig; main returns if it fails in any way.
LoadConfig ==
  /\ stage = "config"
  /\ vRoutes' = IF HasRoutes THEN GoodEntries ELSE <<>>
  /\ stage' = IF HasRoutes /\ \A i \in DOMAIN config.entries : config.entries[i].typed
              THEN "routes" ELSE "exited"
  /\ UNCHANGED <<diskVars, loaded, mRoutes, mSecureRoutes, exchangeVars>>

\* Router::LoadRoutes, one turn of its loop.
LoadRoute ==
  /\ stage = "routes" /\ loaded < Len(vRoutes)
  /\ loaded' = loaded + 1
  /\ LET e == vRoutes[loaded + 1] IN
       mRoutes' = AddRoute(mRoutes, e.key, Handler("config", e.status, StringToFormat(e.type), NoType))
  /\ UNCHANGED <<diskVars, stage, vRoutes, mSecureRoutes, exchangeVars>>

OpenDatabase ==
  /\ stage = "routes" /\ loaded = Len(vRoutes)
  /\ stage' = "database"
  /\ UNCHANGED <<diskVars, tableVars, exchangeVars>>

\* The database does not open, or an exception reaches main's catch (GetConfig
\* returned no number), or TLSContext::Init finds no certificate.
StartFails ==
  /\ stage \in {"database", "tls"}
  /\ stage' = "exited"
  /\ UNCHANGED <<diskVars, tableVars, exchangeVars>>

\* The loop over GetRoutes; keys are unique in the table, so in any order.
LoadRows ==
  /\ stage = "database"
  /\ mRoutes' = [k \in DOMAIN mRoutes \cup DOMAIN rows |->
                   IF k \notin DOMAIN rows THEN mRoutes[k]
                   ELSE IF rows[k] = "file" THEN Handler("file", 200, "HTML", NoType)
                   ELSE Handler("row", 200, "PLAIN", "text/html")]
  /\ stage' = "code"
  /\ UNCHANGED <<diskVars, vRoutes, loaded, mSecureRoutes, exchangeVars>>

\* The three AddRoute calls of main.
RegisterRoutes ==
  /\ stage = "code"
  /\ mRoutes' =
       AddRoute(AddRoute(AddRoute(mRoutes,
         <<"GET", "/namaskar">>, Handler("code", 200, "PLAIN", "text/html")),
         <<"GET", "/json">>, Handler("code", 200, "PLAIN", "application/json")),
         <<"POST", "/submit">>, Handler("submit", 0, "PLAIN", "application/json"))
  /\ stage' = "secure"
  /\ UNCHANGED <<diskVars, vRoutes, loaded, mSecureRoutes, exchangeVars>>

\* The three AddSecureRoute calls of main: a table of its own.
Secured(role) == [handler |-> Handler("secure", 200, "PLAIN", "text/plain"), role |-> role]

SecureRoutes ==
  AddRoute(AddRoute(AddRoute(Empty,
    <<"GET", "/secure/admin">>, Secured("Admin")),
    <<"GET", "/secure/qa">>, Secured("QA")),
    <<"GET", "/secure/viewer">>, Secured("Viewer"))

RegisterSecureRoutes ==
  /\ stage = "secure"
  /\ mSecureRoutes' = SecureRoutes
  /\ stage' = "tls"
  /\ UNCHANGED <<diskVars, vRoutes, loaded, mRoutes, exchangeVars>>

\* TLSContext::Init, and Run.
StartServing ==
  /\ stage = "tls"
  /\ stage' = "serving"
  /\ UNCHANGED <<diskVars, tableVars, exchangeVars>>

-----------------------------------------------------------------------------
(* Serving.                                                                *)

\* JWTVerifier::Verify (jwt-cpp): our issuer, our secret, HS256, not expired.
\* A token with any other text before it does not decode.
Verify(auth) == auth.scheme \in {"", "Bearer "} /\ auth.signed

ExtractRole(auth) == IF auth.role \in Roles THEN auth.role ELSE "Unknown"

\* SecurityManager::Authorize: a header spelt "Authorization" that is not
\* empty, a token that verifies, and exactly the role of the route.
Authorize(auth, requiredRole) ==
  auth.present /\ Verify(auth) /\ ExtractRole(auth) = requiredRole

\* FileHandler::ServeFile: what the file system makes of it, and the suffix.
ServeFile(format) ==
  {Handler("file", 200, format, NoType), Handler("router", 404, "PLAIN", NoType),
   Handler("router", 500, "PLAIN", NoType)}

\* The handler of POST /submit, by what its body is as JSON: "data" that is no
\* string makes get<std::string> throw, which is caught.
Submit(body) == IF body = "data" THEN 200 ELSE 400

\* What a handler may answer.
Run(handler, r) ==
  IF handler.from = "file" THEN ServeFile(handler.format)
  ELSE IF handler.from = "submit" THEN {[handler EXCEPT !.status = Submit(r.body)]}
  ELSE {handler}

\* Router::RouteRequest without and with a SecurityManager.
RouteOpen(r) ==
  IF r.key \in DOMAIN mRoutes THEN Run(mRoutes[r.key], r)
  ELSE ServeFile(Extension[r.key[2]])

\* Variant: the open table is asked first.
RouteOpenFirst(r) ==
  IF r.key \in DOMAIN mRoutes \/ r.key \notin DOMAIN mSecureRoutes THEN RouteOpen(r)
  ELSE IF Authorize(r.auth, mSecureRoutes[r.key].role) THEN {mSecureRoutes[r.key].handler}
  ELSE {Handler("router", 403, "PLAIN", NoType)}

RouteRequest(r) ==
  IF r.key \notin DOMAIN mSecureRoutes THEN RouteOpen(r)
  ELSE IF Authorize(r.auth, mSecureRoutes[r.key].role) THEN {mSecureRoutes[r.key].handler}
  ELSE {Handler("router", 403, "PLAIN", NoType)}

FormatType ==
  [HTML |-> "text/html", JSON |-> "application/json", XML |-> "application/xml",
   PLAIN |-> "text/plain"]

\* Variant: HandleClient reads mHeaders["Content-Type"], which creates it.
ContentTypesEmpty(h) == <<FormatType[h.format], h.type>>

\* ToString writes a Content-Type for the format and then those of mHeaders,
\* into which HandleClient has put one if there was none.
ContentTypes(h) == <<FormatType[h.format], IF h.type = NoType THEN "text/html" ELSE h.type>>

\* HandleClient from Parse to SendResponse.  Handlers run side by side; nobody
\* writes the tables any more, so that one at a time shows all there is.
Serve(r) ==
  /\ stage = "serving"
  /\ request' = r
  /\ \E h \in RouteRequest(r) :
       response' = [from |-> h.from, status |-> h.status, types |-> ContentTypes(h)]
  /\ UNCHANGED <<diskVars, stage, tableVars>>

Next ==
  \/ LoadConfig \/ LoadRoute \/ OpenDatabase \/ StartFails \/ LoadRows
  \/ RegisterRoutes \/ RegisterSecureRoutes \/ StartServing
  \/ \E r \in Requests : Serve(r)
  \/ stage = "exited" /\ UNCHANGED vars

Spec == Init /\ [][Next]_vars

-----------------------------------------------------------------------------
(* Safety.                                                                 *)

\* The promise of the tables, read off the sources of routes and not off the
\* order of registration: built in before stored before configured, and of
\* several entries for a key the last.  Nothing else is ever registered.
BuiltIn == {<<"GET", "/namaskar">>, <<"GET", "/json">>, <<"POST", "/submit">>}
EntriesFor(k) == {i \in DOMAIN config.entries : config.entries[i].key = k}
LastEntry(k) == config.entries[CHOOSE i \in EntriesFor(k) : \A j \in EntriesFor(k) : j <= i]

TablesFollowTheirSources ==
  stage = "serving" =>
    /\ DOMAIN mRoutes = BuiltIn \cup DOMAIN rows \cup {config.entries[i].key : i \in DOMAIN config.entries}
    /\ \A k \in DOMAIN mRoutes :
         IF k \in BuiltIn THEN mRoutes[k].from \in {"code", "submit"}
         ELSE IF k \in DOMAIN rows THEN mRoutes[k].from = (IF rows[k] = "file" THEN "file" ELSE "row")
         ELSE mRoutes[k].from = "config" /\ mRoutes[k].status = LastEntry(k).status

\* Whatever the configuration registers under the same key, secured content
\* goes to the bearer of a valid token with the route's own role, and to
\* nobody else; no role includes another (test_routes.py:92-102).
Owner == << <<<<"GET", "/secure/admin">>, "Admin">>, <<<<"GET", "/secure/qa">>, "QA">>,
            <<<<"GET", "/secure/viewer">>, "Viewer">> >>
Entitled(r, i) ==
  /\ r.auth.present /\ r.auth.signed
  /\ r.auth.scheme \in {"", "Bearer "}
  /\ r.auth.role = Owner[i][2]

SecureContentIsGuarded ==
  response.from # "nowhere" =>
    /\ \A i \in 1 .. 3 : request.key = Owner[i][1] =>
         IF Entitled(request, i) THEN response.from = "secure" /\ response.status = 200
         ELSE response.from = "router" /\ response.status = 403
    /\ response.from = "secure" => \E i \in 1 .. 3 : request.key = Owner[i][1]

-----------------------------------------------------------------------------
(* The inductive invariant behind the safety properties: what is in the    *)
(* tables at each stage of main.                                           *)

TablesInv ==
  /\ stage \in {"tls", "serving"} => mSecureRoutes = SecureRoutes
  /\ \A k \in DOMAIN mRoutes : mRoutes[k].from \notin {"secure", "nowhere"}

GuardInv == TablesInv /\ SecureContentIsGuarded

\* The first n entries of the file have been registered: their keys, and what
\* the last of them for a key left in the table.
KeysOf(n) == {config.entries[i].key : i \in 1 .. n}
Configured(k, n) ==
  \E i \in 1 .. n :
    /\ config.entries[i].key = k
    /\ \A j \in 1 .. n : config.entries[j].key = k => j <= i
    /\ mRoutes[k].from = "config" /\ mRoutes[k].status = config.entries[i].status
Stored(k) == mRoutes[k].from = (IF rows[k] = "file" THEN "file" ELSE "row")

SourcesInv ==
  /\ stage = "config" => loaded = 0 /\ vRoutes = <<>> /\ mRoutes = Empty
  /\ stage \notin {"config", "exited"} => vRoutes = config.entries
  /\ stage \notin {"config", "routes", "exited"} => loaded = Len(config.entries)
  /\ stage \in {"routes", "database"} =>
       /\ DOMAIN mRoutes = KeysOf(loaded)
       /\ \A k \in DOMAIN mRoutes : Configured(k, loaded)
  /\ stage = "code" =>
       /\ DOMAIN mRoutes = DOMAIN rows \cup KeysOf(loaded)
       /\ \A k \in DOMAIN mRoutes : IF k \in DOMAIN rows THEN Stored(k) ELSE Configured(k, loaded)
  /\ stage \in {"secure", "tls", "serving"} =>
       /\ DOMAIN mRoutes = BuiltIn \cup DOMAIN rows \cup KeysOf(loaded)
       /\ \A k \in DOMAIN mRoutes :
            IF k \in BuiltIn THEN mRoutes[k].from = (IF k[1] = "POST" THEN "submit" ELSE "code")
            ELSE IF k \in DOMAIN rows THEN Stored(k) ELSE Configured(k, loaded)

IInv == TypeOK /\ GuardInv /\ SourcesInv

-----------------------------------------------------------------------------
\* config_loader.hpp:13, sResponseType is "json", "xml", "html" or "plain", as
\* in the routes.json of the repository: what is configured is what is sent.
ConfiguredTypeIsServed ==
  response.from = "config" =>
    LET type == LastEntry(request.key).type IN
      /\ type = "json" => \E i \in 1 .. 2 : response.types[i] = "application/json"
      /\ type = "xml" => \E i \in 1 .. 2 : response.types[i] = "application/xml"
=============================================================================
