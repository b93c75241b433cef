---------------------------- MODULE RouterProofs ----------------------------
(***************************************************************************)
(* Theorems of Router, for every configuration file, every content of the  *)
(* database and every set of requests.                                     *)
(***************************************************************************)
EXTENDS Router, IndexFacts, SequenceTheorems

USE DEF diskVars, tableVars, exchangeVars

\* What main registers for the three secured paths, one at a time.
LEMMA SecureRouteFacts ==
  /\ DOMAIN SecureRoutes = {Owner[1][1], Owner[2][1], Owner[3][1]}
  /\ \A i \in 1 .. 3 :
       /\ SecureRoutes[Owner[i][1]].handler = Handler("secure", 200, "PLAIN", "text/plain")
       /\ SecureRoutes[Owner[i][1]].role = Owner[i][2]
       /\ Owner[i][2] \in Roles
<1> DEFINE admin == <<"GET", "/secure/admin">>
           qa == <<"GET", "/secure/qa">>
           viewer == <<"GET", "/secure/viewer">>
           One == AddRoute(Empty, admin, Secured("Admin"))
           Two == AddRoute(One, qa, Secured("QA"))
<1>1. \A i \in 1 .. 3 : i = 1 \/ i = 2 \/ i = 3
  OBVIOUS
<1>2. /\ Owner[1] = <<admin, "Admin">>
      /\ Owner[2] = <<qa, "QA">>
      /\ Owner[3] = <<viewer, "Viewer">>
  BY DEF Owner
<1>3. admin # qa /\ admin # viewer /\ qa # viewer
  OBVIOUS
<1>4. SecureRoutes = AddRoute(Two, viewer, Secured("Viewer"))
  BY DEF SecureRoutes
<1> HIDE DEF admin, qa, viewer
<1>5. DOMAIN One = {admin} /\ One[admin] = Secured("Admin")
  BY DEF AddRoute, Empty
<1> HIDE DEF One
<1>6. DOMAIN Two = {admin, qa} /\ Two[admin] = Secured("Admin") /\ Two[qa] = Secured("QA")
  BY <1>3, <1>5 DEF AddRoute
<1> HIDE DEF Two
<1>7. /\ DOMAIN SecureRoutes = {admin, qa, viewer}
      /\ SecureRoutes[admin] = Secured("Admin")
      /\ SecureRoutes[qa] = Secured("QA")
      /\ SecureRoutes[viewer] = Secured("Viewer")
  BY <1>3, <1>4, <1>6 DEF AddRoute
<1>8. ASSUME NEW role
      PROVE  /\ Secured(role).handler = Handler("secure", 200, "PLAIN", "text/plain")
             /\ Secured(role).role = role
  BY DEF Secured
<1> QED
  BY <1>1, <1>2, <1>7, <1>8 DEF Roles

\* The file handler answers with a file or with an error of its own.
LEMMA FileAnswers ==
  \A format : \A g \in ServeFile(format) : g.from \in {"file", "router"}
<1> TAKE format
<1> TAKE g \in ServeFile(format)
<1>1. \/ g = Handler("file", 200, format, NoType)
      \/ g = Handler("router", 404, "PLAIN", NoType)
      \/ g = Handler("router", 500, "PLAIN", NoType)
  BY Zenon DEF ServeFile
<1>2. CASE g = Handler("file", 200, format, NoType)
  BY <1>2 DEF Handler
<1>3. CASE g = Handler("router", 404, "PLAIN", NoType)
  BY <1>3 DEF Handler
<1>4. CASE g = Handler("router", 500, "PLAIN", NoType)
  BY <1>4 DEF Handler
<1> QED
  BY <1>1, <1>2, <1>3, <1>4

\* Neither the open table nor the file handler answers with secured content.
LEMMA OpenAnswers ==
  ASSUME TablesInv, NEW r
  PROVE  \A h \in RouteOpen(r) : h.from \notin {"secure", "nowhere"}
<1> SUFFICES ASSUME NEW h \in RouteOpen(r) PROVE h.from \notin {"secure", "nowhere"}
  OBVIOUS
<1>2. CASE r.key \notin DOMAIN mRoutes
  BY <1>2, FileAnswers DEF RouteOpen
<1>3. CASE r.key \in DOMAIN mRoutes
  <2> DEFINE handler == mRoutes[r.key]
  <2>1. handler.from \notin {"secure", "nowhere"} /\ h \in Run(handler, r)
    BY <1>3 DEF TablesInv, RouteOpen
  <2>2. CASE handler.from = "file"
    BY <2>1, <2>2, FileAnswers DEF Run
  <2>3. CASE handler.from = "submit"
    <3>1. h = [handler EXCEPT !.status = Submit(r.body)]
      BY <2>1, <2>3 DEF Run
    <3>2. handler.from = h.from
      BY <3>1
    <3> QED
      BY <2>1, <3>2
  <2>4. CASE handler.from \notin {"file", "submit"}
    BY <2>1, <2>4 DEF Run
  <2> QED
    BY <2>2, <2>3, <2>4
<1> QED
  BY <1>2, <1>3

\* What does not change keeps what is said of it.
LEMMA Frame ==
  UNCHANGED <<request, response>> => (SecureContentIsGuarded => SecureContentIsGuarded')
<1> SUFFICES ASSUME UNCHANGED <<request, response>>, SecureContentIsGuarded
             PROVE  SecureContentIsGuarded'
  OBVIOUS
<1>1. \A i \in 1 .. 3 : Entitled(request, i)' <=> Entitled(request, i)
  BY Zenon DEF Entitled, Owner
<1> QED
  BY <1>1, Zenon DEF SecureContentIsGuarded, Owner

\* An answer is given while serving, from tables that are complete.
LEMMA ServeGuardInv ==
  ASSUME GuardInv, NEW r \in Requests, Serve(r)
  PROVE  GuardInv'
<1> USE DEF GuardInv
<1>1. /\ stage = "serving" /\ request' = r
      /\ mSecureRoutes = SecureRoutes
      /\ UNCHANGED <<config, rows, stage, vRoutes, loaded, mRoutes, mSecureRoutes>>
  BY DEF Serve, TablesInv
<1>2. PICK h \in RouteRequest(r) : response'.from = h.from /\ response'.status = h.status
  BY DEF Serve
<1>3. TablesInv'
  BY <1>1 DEF TablesInv
<1>4. CASE r.key \notin DOMAIN SecureRoutes
  <2>1. h.from # "secure"
    BY <1>1, <1>2, <1>4, OpenAnswers DEF RouteRequest
  <2>2. \A i \in 1 .. 3 : r.key # Owner[i][1]
    BY <1>4, SecureRouteFacts
  <2> QED
    BY <1>1, <1>2, <1>3, <2>1, <2>2 DEF SecureContentIsGuarded
<1>5. CASE r.key \in DOMAIN SecureRoutes
  <2>1. PICK j \in 1 .. 3 : r.key = Owner[j][1]
    BY <1>5, SecureRouteFacts
  <2>2. Authorize(r.auth, SecureRoutes[r.key].role) <=> Entitled(r, j)
    BY <2>1, SecureRouteFacts DEF Authorize, Verify, ExtractRole, Entitled, Roles
  <2>3. \A i \in 1 .. 3 : r.key = Owner[i][1] => i = j
    <3>1. \A i \in 1 .. 3 : i = 1 \/ i = 2 \/ i = 3
      OBVIOUS
    <3>2. Owner[1][1] # Owner[2][1] /\ Owner[1][1] # Owner[3][1] /\ Owner[2][1] # Owner[3][1]
      BY DEF Owner
    <3> QED
      BY <2>1, <3>1, <3>2
  <2>4. \A i \in 1 .. 3 : Entitled(request, i)' <=> Entitled(r, i)
    BY <1>1, Zenon DEF Entitled, Owner
  <2>5. CASE Entitled(r, j)
    <3>1. h = SecureRoutes[r.key].handler
      BY <1>1, <1>2, <1>5, <2>2, <2>5, Zenon DEF RouteRequest
    <3>2. h.from = "secure" /\ h.status = 200
      BY <2>1, <3>1, SecureRouteFacts DEF Handler
    <3>3. response'.from = "secure" /\ response'.status = 200
      BY <1>2, <3>2
    <3>4. \A i \in 1 .. 3 : request'.key = Owner[i][1] => Entitled(request, i)'
      BY <1>1, <2>3, <2>4, <2>5, Zenon
    <3>5. \E i \in 1 .. 3 : request'.key = Owner[i][1]
      BY <1>1, <2>1
    <3> QED
      BY <1>3, <3>3, <3>4, <3>5, Zenon DEF SecureContentIsGuarded, Owner
  <2>6. CASE ~Entitled(r, j)
    <3>1. h = Handler("router", 403, "PLAIN", NoType)
      BY <1>1, <1>2, <1>5, <2>2, <2>6, Zenon DEF RouteRequest
    <3>2. h.from = "router" /\ h.status = 403
      BY <3>1 DEF Handler
    <3>3. response'.from = "router" /\ response'.status = 403 /\ "router" # "secure"
      BY <1>2, <3>2
    <3>4. \A i \in 1 .. 3 : request'.key = Owner[i][1] => ~Entitled(request, i)'
      BY <1>1, <2>3, <2>4, <2>6, Zenon
    <3> QED
      BY <1>3, <3>3, <3>4, Zenon DEF SecureContentIsGuarded, Owner
  <2> QED
    BY <2>5, <2>6
<1> QED
  BY <1>4, <1>5

\* While main fills the tables no answer is given.
LEMMA StartGuardInv ==
  ASSUME GuardInv,
         \/ LoadConfig \/ LoadRoute \/ OpenDatabase \/ StartFails \/ LoadRows
         \/ RegisterRoutes \/ RegisterSecureRoutes \/ StartServing
  PROVE  GuardInv'
<1> USE DEF GuardInv
<1>1. UNCHANGED <<config, request, response>>
  BY DEF LoadConfig, LoadRoute, OpenDatabase, StartFails, LoadRows, RegisterRoutes,
         RegisterSecureRoutes, StartServing
<1>2. SecureContentIsGuarded'
  BY <1>1, Frame
<1>3. (stage \in {"tls", "serving"} => mSecureRoutes = SecureRoutes)'
  BY DEF TablesInv, LoadConfig, LoadRoute, OpenDatabase, StartFails, LoadRows,
         RegisterRoutes, RegisterSecureRoutes, StartServing, SecureRoutes, Handler
<1>4. (\A k \in DOMAIN mRoutes : mRoutes[k].from \notin {"secure", "nowhere"})'
  <2>1. ASSUME NEW table, \A k \in DOMAIN table : table[k].from \notin {"secure", "nowhere"},
               NEW key, NEW handler, handler.from \notin {"secure", "nowhere"}
        PROVE  \A k \in DOMAIN AddRoute(table, key, handler) :
                 AddRoute(table, key, handler)[k].from \notin {"secure", "nowhere"}
    BY <2>1 DEF AddRoute
  <2>2. CASE LoadRoute
    BY <2>1, <2>2 DEF LoadRoute, Handler, TablesInv
  <2>3. CASE LoadRows
    BY <2>3 DEF LoadRows, Handler, TablesInv
  <2>4. CASE RegisterRoutes
    <3> DEFINE One == AddRoute(mRoutes, <<"GET", "/namaskar">>, Handler("code", 200, "PLAIN", "text/html"))
               Two == AddRoute(One, <<"GET", "/json">>, Handler("code", 200, "PLAIN", "application/json"))
               Three == AddRoute(Two, <<"POST", "/submit">>,
                                 Handler("submit", 0, "PLAIN", "application/json"))
    <3>1. \A from, status, format, type : Handler(from, status, format, type).from = from
      BY DEF Handler
    <3>2. \A k \in DOMAIN One : One[k].from \notin {"secure", "nowhere"}
      <4> HIDE DEF Handler
      <4> QED
        BY <2>1, <3>1 DEF TablesInv
    <3>3. \A k \in DOMAIN Two : Two[k].from \notin {"secure", "nowhere"}
      <4> HIDE DEF One
      <4> QED
        BY <2>1, <3>1, <3>2
    <3>4. \A k \in DOMAIN Three : Three[k].from \notin {"secure", "nowhere"}
      <4> HIDE DEF Two
      <4> QED
        BY <2>1, <3>1, <3>3
    <3> QED
      BY <2>4, <3>4 DEF RegisterRoutes
  <2>5. CASE ~(LoadRoute \/ LoadRows \/ RegisterRoutes)
    BY <2>5 DEF TablesInv, LoadConfig, OpenDatabase, StartFails, RegisterSecureRoutes, StartServing
  <2> QED
    BY <2>2, <2>3, <2>4, <2>5
<1> QED
  BY <1>2, <1>3, <1>4 DEF TablesInv

-----------------------------------------------------------------------------
(* The tables and the entries they are filled from.                        *)

\* The good entries are a beginning of the array, and all of it if none is bad.
LEMMA GoodEntriesFacts ==
  ASSUME config \in ConfigFiles
  PROVE  /\ config.entries \in Seq({config.entries[i] : i \in DOMAIN config.entries})
         /\ GoodEntries \in Seq({config.entries[i] : i \in DOMAIN config.entries})
         /\ (\A i \in DOMAIN config.entries : config.entries[i].typed) => GoodEntries = config.entries
<1> DEFINE E == config.entries
           S == {E[i] : i \in DOMAIN E}
           bad == {i \in DOMAIN E : ~E[i].typed}
<1>1. E \in Seq(S)
  BY RouterAssumption
<1>2. GoodEntries = IF bad = {} THEN E ELSE SubSeq(E, 1, (CHOOSE i \in bad : \A j \in bad : i <= j) - 1)
  BY DEF GoodEntries
<1>3. (\A i \in DOMAIN E : E[i].typed) => bad = {}
  BY Zenon
<1>4. bad \subseteq 1 .. Len(E)
  BY <1>1
<1> HIDE DEF S, bad, E
<1>5. CASE bad = {}
  BY <1>1, <1>2, <1>5 DEF E, S
<1>6. CASE bad # {}
  <2> DEFINE first == CHOOSE i \in bad : \A j \in bad : i <= j
  <2>1. bad \in SUBSET Nat
    BY <1>1, <1>4
  <2>2. \E i \in bad : \A j \in bad : i <= j
    BY <1>6, <2>1, LeastIndex, Zenon
  <2>3. first \in bad
    BY <2>2
  <2> HIDE DEF first
  <2>4. first \in 1 .. Len(E) /\ Len(E) \in Nat
    BY <1>1, <1>4, <2>3
  <2>5. \A i \in 1 .. first - 1 : E[i] \in S
    BY <1>1, <2>4
  <2>6. SubSeq(E, 1, first - 1) \in Seq(S)
    BY <1>1, <2>4, <2>5, SubSeqProperties
  <2>7. GoodEntries = SubSeq(E, 1, first - 1)
    BY <1>2, <1>6 DEF first
  <2> QED
    BY <1>1, <1>3, <1>6, <2>6, <2>7 DEF S, E
<1> QED
  BY <1>3, <1>5, <1>6 DEF E, S

\* What main's three AddRoute calls leave in the table.
LEMMA RegisteredFacts ==
  ASSUME RegisterRoutes
  PROVE  /\ DOMAIN mRoutes' = DOMAIN mRoutes \cup BuiltIn
         /\ mRoutes'[<<"GET", "/namaskar">>] = Handler("code", 200, "PLAIN", "text/html")
         /\ mRoutes'[<<"GET", "/json">>] = Handler("code", 200, "PLAIN", "application/json")
         /\ mRoutes'[<<"POST", "/submit">>] = Handler("submit", 0, "PLAIN", "application/json")
         /\ \A k \in DOMAIN mRoutes \ BuiltIn : mRoutes'[k] = mRoutes[k]
<1> DEFINE namaskar == <<"GET", "/namaskar">>
           json == <<"GET", "/json">>
           submit == <<"POST", "/submit">>
           h1 == Handler("code", 200, "PLAIN", "text/html")
           h2 == Handler("code", 200, "PLAIN", "application/json")
           h3 == Handler("submit", 0, "PLAIN", "application/json")
           One == AddRoute(mRoutes, namaskar, h1)
           Two == AddRoute(One, json, h2)
<1>1. namaskar # json /\ namaskar # submit /\ json # submit
  OBVIOUS
<1>2. BuiltIn = {namaskar, json, submit}
  BY DEF BuiltIn
<1>3. mRoutes' = AddRoute(Two, submit, h3)
  BY DEF RegisterRoutes
<1> HIDE DEF namaskar, json, submit, h1, h2, h3
<1>4. /\ DOMAIN One = DOMAIN mRoutes \cup {namaskar}
      /\ One[namaskar] = h1
      /\ \A k \in DOMAIN mRoutes : k # namaskar => One[k] = mRoutes[k]
  BY DEF AddRoute
<1> HIDE DEF One
<1>5. /\ DOMAIN Two = DOMAIN One \cup {json}
      /\ Two[json] = h2
      /\ \A k \in DOMAIN One : k # json => Two[k] = One[k]
  BY DEF AddRoute
<1> HIDE DEF Two
<1>6. /\ DOMAIN mRoutes' = DOMAIN Two \cup {submit}
      /\ mRoutes'[submit] = h3
      /\ \A k \in DOMAIN Two : k # submit => mRoutes'[k] = Two[k]
  BY <1>3 DEF AddRoute
<1>7. /\ mRoutes'[namaskar] = h1
      /\ mRoutes'[json] = h2
      /\ \A k \in DOMAIN mRoutes \ BuiltIn : mRoutes'[k] = mRoutes[k]
      /\ DOMAIN mRoutes' = DOMAIN mRoutes \cup BuiltIn
  BY <1>1, <1>2, <1>4, <1>5, <1>6
<1> QED
  BY <1>6, <1>7 DEF namaskar, json, submit, h1, h2, h3

\* What the loop over MOCKROUTE leaves in the table.
LEMMA StoredFacts ==
  ASSUME LoadRows
  PROVE  /\ DOMAIN mRoutes' = DOMAIN mRoutes \cup DOMAIN rows
         /\ \A k \in DOMAIN rows :
              mRoutes'[k] = IF rows[k] = "file" THEN Handler("file", 200, "HTML", NoType)
                            ELSE Handler("row", 200, "PLAIN", "text/html")
         /\ \A k \in DOMAIN mRoutes \ DOMAIN rows : mRoutes'[k] = mRoutes[k]
BY DEF LoadRows

-----------------------------------------------------------------------------
(* Types.                                                                  *)

\* The handlers main makes have a known origin, format and type.
LEMMA HandlerTypes ==
  ASSUME NEW from \in Origins, NEW status, NEW format \in Formats,
         NEW type \in MimeTypes \cup {NoType}
  PROVE  IsHandler(Handler(from, status, format, type))
BY DEF IsHandler, Handler

LEMMA SecureRouteTypes ==
  \A k \in DOMAIN SecureRoutes :
    SecureRoutes[k].role \in Roles /\ IsHandler(SecureRoutes[k].handler)
<1>1. "secure" \in Origins /\ "PLAIN" \in Formats /\ "text/plain" \in MimeTypes \cup {NoType}
  BY DEF Origins, Formats, MimeTypes
<1>2. IsHandler(Handler("secure", 200, "PLAIN", "text/plain"))
  BY <1>1, HandlerTypes
<1> QED
  BY <1>2, SecureRouteFacts

\* Start-up keeps the types, whatever the file and the database hold.
LEMMA StartTypeOK ==
  ASSUME TypeOK, SourcesInv,
         \/ LoadConfig \/ LoadRoute \/ OpenDatabase \/ StartFails \/ LoadRows
         \/ RegisterRoutes \/ RegisterSecureRoutes \/ StartServing
  PROVE  TypeOK'
<1>1. UNCHANGED <<config, rows, request, response>>
  BY DEF LoadConfig, LoadRoute, OpenDatabase, StartFails, LoadRows, RegisterRoutes,
         RegisterSecureRoutes, StartServing
<1>2. (stage \in {"config", "routes", "database", "code", "secure", "tls", "serving", "exited"})'
  BY DEF TypeOK, LoadConfig, LoadRoute, OpenDatabase, StartFails, LoadRows, RegisterRoutes,
         RegisterSecureRoutes, StartServing
<1>3. /\ vRoutes' \in Seq({config.entries[i] : i \in DOMAIN config.entries})
      /\ loaded' \in 0 .. Len(vRoutes')
  <2>1. CASE LoadConfig
    <3>1. vRoutes' \in Seq({config.entries[i] : i \in DOMAIN config.entries}) /\ loaded' = 0
      BY <2>1, GoodEntriesFacts DEF LoadConfig, TypeOK, SourcesInv
    <3> QED
      BY <3>1
  <2>2. CASE LoadRoute
    BY <2>2 DEF LoadRoute, TypeOK
  <2>3. CASE ~(LoadConfig \/ LoadRoute)
    BY <2>3 DEF TypeOK, OpenDatabase, StartFails, LoadRows, RegisterRoutes,
                RegisterSecureRoutes, StartServing
  <2> QED
    BY <2>1, <2>2, <2>3
<1>4. \A k \in DOMAIN mRoutes' : IsHandler(mRoutes'[k])
  <2>1. \A k \in DOMAIN mRoutes : IsHandler(mRoutes[k])
    BY DEF TypeOK
  <2>2. CASE LoadRoute
    <3> DEFINE e == vRoutes[loaded + 1]
               h == Handler("config", e.status, StringToFormat(e.type), NoType)
    <3>1. StringToFormat(e.type) \in Formats /\ "config" \in Origins /\ NoType \in MimeTypes \cup {NoType}
      BY DEF StringToFormat, Formats, Origins
    <3>2. IsHandler(h)
      BY <3>1, HandlerTypes
    <3>3. mRoutes' = AddRoute(mRoutes, e.key, h)
      BY <2>2 DEF LoadRoute
    <3> HIDE DEF h
    <3> QED
      BY <2>1, <3>2, <3>3 DEF AddRoute
  <2>3. CASE LoadRows
    <3>1. /\ {"file", "row"} \subseteq Origins /\ {"HTML", "PLAIN"} \subseteq Formats
          /\ {NoType, "text/html"} \subseteq MimeTypes \cup {NoType}
      BY DEF Formats, Origins, MimeTypes
    <3>2. /\ IsHandler(Handler("file", 200, "HTML", NoType))
          /\ IsHandler(Handler("row", 200, "PLAIN", "text/html"))
      BY <3>1, HandlerTypes
    <3> QED
      BY <2>1, <2>3, <3>2, StoredFacts
  <2>4. CASE RegisterRoutes
    <3>1. /\ {"code", "submit"} \subseteq Origins /\ "PLAIN" \in Formats
          /\ {"text/html", "application/json"} \subseteq MimeTypes \cup {NoType}
      BY DEF Formats, Origins, MimeTypes
    <3>2. /\ IsHandler(Handler("code", 200, "PLAIN", "text/html"))
          /\ IsHandler(Handler("code", 200, "PLAIN", "application/json"))
          /\ IsHandler(Handler("submit", 0, "PLAIN", "application/json"))
      BY <3>1, HandlerTypes
    <3>3. \A k \in BuiltIn : k = <<"GET", "/namaskar">> \/ k = <<"GET", "/json">> \/ k = <<"POST", "/submit">>
      BY DEF BuiltIn
    <3> QED
      BY <2>1, <2>4, <3>2, <3>3, RegisteredFacts
  <2>5. CASE ~(LoadRoute \/ LoadRows \/ RegisterRoutes)
    BY <2>1, <2>5 DEF LoadConfig, OpenDatabase, StartFails, RegisterSecureRoutes, StartServing
  <2> QED
    BY <2>2, <2>3, <2>4, <2>5
<1>5. \A k \in DOMAIN mSecureRoutes' :
        mSecureRoutes'[k].role \in Roles /\ IsHandler(mSecureRoutes'[k].handler)
  <2>1. mSecureRoutes' = mSecureRoutes \/ mSecureRoutes' = SecureRoutes
    BY DEF LoadConfig, LoadRoute, OpenDatabase, StartFails, LoadRows, RegisterRoutes,
           RegisterSecureRoutes, StartServing
  <2> QED
    BY <2>1, SecureRouteTypes DEF TypeOK
<1> QED
  BY <1>1, <1>2, <1>3, <1>4, <1>5 DEF TypeOK, IsHandler

\* Whatever answers, its format and type are known.
LEMMA AnswerTypes ==
  ASSUME TypeOK, NEW r \in Requests, NEW h \in RouteRequest(r)
  PROVE  IsHandler(h)
<1>1. /\ "router" \in Origins /\ "file" \in Origins /\ "PLAIN" \in Formats
      /\ NoType \in MimeTypes \cup {NoType}
  BY DEF Origins, Formats
<1>2. ASSUME NEW format \in Formats, NEW g \in ServeFile(format)
      PROVE  IsHandler(g)
  <2>1. \/ g = Handler("file", 200, format, NoType)
        \/ g = Handler("router", 404, "PLAIN", NoType)
        \/ g = Handler("router", 500, "PLAIN", NoType)
    BY <1>2, Zenon DEF ServeFile
  <2>2. /\ IsHandler(Handler("file", 200, format, NoType))
        /\ IsHandler(Handler("router", 404, "PLAIN", NoType))
        /\ IsHandler(Handler("router", 500, "PLAIN", NoType))
    BY <1>1, HandlerTypes
  <2> QED
    BY <2>1, <2>2
<1>3. ASSUME NEW g \in RouteOpen(r)
      PROVE  IsHandler(g)
  <2>1. CASE r.key \notin DOMAIN mRoutes
    BY <1>2, <1>3, <2>1, RouterAssumption DEF RouteOpen
  <2>2. CASE r.key \in DOMAIN mRoutes
    <3> DEFINE handler == mRoutes[r.key]
    <3>1. IsHandler(handler) /\ g \in Run(handler, r)
      BY <1>3, <2>2 DEF RouteOpen, TypeOK
    <3>2. CASE handler.from = "file"
      BY <1>2, <3>1, <3>2 DEF Run, IsHandler
    <3>3. CASE handler.from = "submit"
      <4>1. g = [handler EXCEPT !.status = Submit(r.body)]
        BY <3>1, <3>3 DEF Run
      <4>2. g.from = handler.from /\ g.format = handler.format /\ g.type = handler.type
        BY <4>1
      <4> QED
        BY <3>1, <4>2 DEF IsHandler
    <3>4. CASE handler.from \notin {"file", "submit"}
      BY <3>1, <3>4 DEF Run
    <3> QED
      BY <3>2, <3>3, <3>4
  <2> QED
    BY <2>1, <2>2
<1>4. \/ h \in RouteOpen(r)
      \/ r.key \in DOMAIN mSecureRoutes /\ h = mSecureRoutes[r.key].handler
      \/ h = Handler("router", 403, "PLAIN", NoType)
  BY Zenon DEF RouteRequest
<1>5. IsHandler(Handler("router", 403, "PLAIN", NoType))
  BY <1>1, HandlerTypes
<1> QED
  BY <1>3, <1>4, <1>5 DEF TypeOK

LEMMA ServeTypeOK ==
  ASSUME TypeOK, NEW r \in Requests, Serve(r)
  PROVE  TypeOK'
<1>1. UNCHANGED <<config, rows, stage, vRoutes, loaded, mRoutes, mSecureRoutes>> /\ request' = r
  BY DEF Serve
<1>2. PICK h \in RouteRequest(r) :
        response' = [from |-> h.from, status |-> h.status, types |-> ContentTypes(h)]
  BY DEF Serve
<1>3. IsHandler(h)
  BY AnswerTypes
<1>4. ContentTypes(h) \in Seq(MimeTypes) /\ Len(ContentTypes(h)) = 2
  <2>1. FormatType[h.format] \in MimeTypes
    <3>1. h.format = "HTML" \/ h.format = "PLAIN" \/ h.format = "JSON" \/ h.format = "XML"
      BY <1>3 DEF IsHandler, Formats
    <3>2. /\ FormatType["HTML"] = "text/html" /\ FormatType["PLAIN"] = "text/plain"
          /\ FormatType["JSON"] = "application/json" /\ FormatType["XML"] = "application/xml"
      BY DEF FormatType
    <3> QED
      BY <3>1, <3>2 DEF MimeTypes
  <2>2. (IF h.type = NoType THEN "text/html" ELSE h.type) \in MimeTypes
    BY <1>3 DEF IsHandler, MimeTypes
  <2> QED
    BY <2>1, <2>2 DEF ContentTypes
<1> QED
  BY <1>1, <1>2, <1>3, <1>4 DEF TypeOK, IsHandler

-----------------------------------------------------------------------------
(* The tables and their sources.                                           *)

\* What is said of an entry or of a row holds as long as its handler stays.
LEMMA SourcesFrame ==
  ASSUME config' = config, rows' = rows
  PROVE  /\ BuiltIn' = BuiltIn
         /\ loaded' = loaded => KeysOf(loaded)' = KeysOf(loaded)
         /\ \A k : (mRoutes'[k] = mRoutes[k] /\ loaded' = loaded) =>
              (Configured(k, loaded) => Configured(k, loaded)')
         /\ \A k : mRoutes'[k] = mRoutes[k] => (Stored(k) => Stored(k)')
<1>1. BuiltIn' = BuiltIn
  BY DEF BuiltIn
<1>2. loaded' = loaded => KeysOf(loaded)' = KeysOf(loaded)
  BY DEF KeysOf
<1>3. ASSUME NEW k, mRoutes'[k] = mRoutes[k], loaded' = loaded, Configured(k, loaded)
      PROVE  Configured(k, loaded)'
  BY <1>3, Zenon DEF Configured
<1>4. ASSUME NEW k, mRoutes'[k] = mRoutes[k], Stored(k)
      PROVE  Stored(k)'
  BY <1>4, Zenon DEF Stored
<1> QED
  BY <1>1, <1>2, <1>3, <1>4

\* The file is read as a whole, into an empty table.
LEMMA LoadConfigSources == ASSUME TypeOK, SourcesInv, LoadConfig PROVE SourcesInv'
<1>1. /\ stage = "config" /\ stage' \in {"routes", "exited"}
      /\ loaded' = 0 /\ mRoutes' = Empty /\ config' = config
  BY DEF LoadConfig, SourcesInv
<1>2. stage' = "routes" => vRoutes' = config.entries
  <2> SUFFICES ASSUME stage' = "routes" PROVE vRoutes' = config.entries
    OBVIOUS
  <2>1. HasRoutes /\ \A i \in DOMAIN config.entries : config.entries[i].typed
    BY Zenon DEF LoadConfig
  <2> QED
    BY <2>1, GoodEntriesFacts DEF LoadConfig, TypeOK
<1>3. DOMAIN mRoutes' = {} /\ KeysOf(loaded)' = {}
  BY <1>1 DEF Empty, KeysOf
<1> QED
  BY <1>1, <1>2, <1>3 DEF SourcesInv

\* One more entry: its handler replaces the one an earlier entry left.
LEMMA LoadRouteSources == ASSUME TypeOK, SourcesInv, LoadRoute PROVE SourcesInv'
<1> DEFINE e == config.entries[loaded + 1]
           h == Handler("config", e.status, StringToFormat(e.type), NoType)
<1>1. /\ stage = "routes" /\ stage' = "routes"
      /\ config' = config /\ vRoutes' = vRoutes /\ vRoutes = config.entries
      /\ loaded \in Nat /\ loaded' = loaded + 1
      /\ mRoutes' = AddRoute(mRoutes, e.key, h)
  BY DEF LoadRoute, SourcesInv, TypeOK
<1>2. DOMAIN mRoutes = KeysOf(loaded) /\ \A k \in DOMAIN mRoutes : Configured(k, loaded)
  BY <1>1 DEF SourcesInv
<1>3. h.from = "config" /\ h.status = e.status
  BY DEF Handler
<1> HIDE DEF h
<1>4. /\ DOMAIN mRoutes' = DOMAIN mRoutes \cup {e.key}
      /\ mRoutes'[e.key] = h
      /\ \A k \in DOMAIN mRoutes : k # e.key => mRoutes'[k] = mRoutes[k]
  BY <1>1 DEF AddRoute
<1>5. DOMAIN mRoutes' = KeysOf(loaded)'
  <2>1. 1 .. loaded' = 1 .. loaded \cup {loaded + 1}
    BY <1>1
  <2> QED
    BY <1>1, <1>2, <1>4, <2>1 DEF KeysOf
<1>6. ASSUME NEW k \in DOMAIN mRoutes'
      PROVE  Configured(k, loaded)'
  <2>1. CASE k = e.key
    <3>1. /\ loaded + 1 \in 1 .. loaded'
          /\ config'.entries[loaded + 1].key = k
          /\ \A j \in 1 .. loaded' : j <= loaded + 1
          /\ mRoutes'[k].from = "config" /\ mRoutes'[k].status = config'.entries[loaded + 1].status
      BY <1>1, <1>3, <1>4, <2>1
    <3> QED
      BY <3>1 DEF Configured
  <2>2. CASE k # e.key
    <3>1. k \in DOMAIN mRoutes /\ mRoutes'[k] = mRoutes[k] /\ Configured(k, loaded)
      BY <1>2, <1>4, <1>6, <2>2
    <3>2. PICK i \in 1 .. loaded :
            /\ config.entries[i].key = k
            /\ \A j \in 1 .. loaded : config.entries[j].key = k => j <= i
            /\ mRoutes[k].from = "config" /\ mRoutes[k].status = config.entries[i].status
      BY <3>1 DEF Configured
    <3>3. \A j \in 1 .. loaded' : j \in 1 .. loaded \/ j = loaded + 1
      BY <1>1
    <3>4. i \in 1 .. loaded'
      BY <1>1
    <3>5. \A j \in 1 .. loaded' : config'.entries[j].key = k => j <= i
      BY <1>1, <2>2, <3>2, <3>3
    <3> QED
      BY <1>1, <3>1, <3>2, <3>4, <3>5 DEF Configured
  <2> QED
    BY <2>1, <2>2
<1> QED
  BY <1>1, <1>5, <1>6 DEF SourcesInv

\* The rows go over what was configured.
LEMMA LoadRowsSources == ASSUME TypeOK, SourcesInv, LoadRows PROVE SourcesInv'
<1>1. /\ stage = "database" /\ stage' = "code"
      /\ UNCHANGED <<config, rows, vRoutes, loaded>>
      /\ vRoutes = config.entries /\ loaded = Len(config.entries)
      /\ DOMAIN mRoutes = KeysOf(loaded) /\ \A k \in DOMAIN mRoutes : Configured(k, loaded)
  BY DEF LoadRows, SourcesInv
<1>2. DOMAIN mRoutes' = DOMAIN rows' \cup KeysOf(loaded)'
  BY <1>1, StoredFacts, SourcesFrame
<1>3. ASSUME NEW k \in DOMAIN mRoutes'
      PROVE  IF k \in DOMAIN rows' THEN Stored(k)' ELSE Configured(k, loaded)'
  <2>1. CASE k \in DOMAIN rows
    <3>1. mRoutes'[k].from = IF rows[k] = "file" THEN "file" ELSE "row"
      BY <2>1, StoredFacts DEF Handler
    <3> QED
      BY <1>1, <2>1, <3>1 DEF Stored
  <2>2. CASE k \notin DOMAIN rows
    <3>1. k \in DOMAIN mRoutes /\ mRoutes'[k] = mRoutes[k]
      BY <1>3, <2>2, StoredFacts
    <3> QED
      BY <1>1, <2>2, <3>1, SourcesFrame
  <2> QED
    BY <2>1, <2>2
<1> QED
  BY <1>1, <1>2, <1>3 DEF SourcesInv

\* The routes of the code go over both.
LEMMA RegisterRoutesSources == ASSUME TypeOK, SourcesInv, RegisterRoutes PROVE SourcesInv'
<1>1. /\ stage = "code" /\ stage' = "secure"
      /\ UNCHANGED <<config, rows, vRoutes, loaded>>
      /\ vRoutes = config.entries /\ loaded = Len(config.entries)
      /\ DOMAIN mRoutes = DOMAIN rows \cup KeysOf(loaded)
      /\ \A k \in DOMAIN mRoutes : IF k \in DOMAIN rows THEN Stored(k) ELSE Configured(k, loaded)
  BY DEF RegisterRoutes, SourcesInv
<1>2. DOMAIN mRoutes' = BuiltIn \cup DOMAIN rows' \cup KeysOf(loaded)'
  BY <1>1, RegisteredFacts, SourcesFrame
<1>3. ASSUME NEW k \in BuiltIn
      PROVE  mRoutes'[k].from = (IF k[1] = "POST" THEN "submit" ELSE "code")
  <2>1. k = <<"GET", "/namaskar">> \/ k = <<"GET", "/json">> \/ k = <<"POST", "/submit">>
    BY DEF BuiltIn
  <2>2. CASE k = <<"GET", "/namaskar">>
    <3>1. mRoutes'[k].from = "code"
      BY <2>2, RegisteredFacts DEF Handler
    <3> QED
      BY <2>2, <3>1
  <2>3. CASE k = <<"GET", "/json">>
    <3>1. mRoutes'[k].from = "code"
      BY <2>3, RegisteredFacts DEF Handler
    <3> QED
      BY <2>3, <3>1
  <2>4. CASE k = <<"POST", "/submit">>
    <3>1. mRoutes'[k].from = "submit"
      BY <2>4, RegisteredFacts DEF Handler
    <3> QED
      BY <2>4, <3>1
  <2> QED
    BY <2>1, <2>2, <2>3, <2>4
<1>4. ASSUME NEW k \in DOMAIN mRoutes', k \notin BuiltIn
      PROVE  IF k \in DOMAIN rows' THEN Stored(k)' ELSE Configured(k, loaded)'
  <2>1. k \in DOMAIN mRoutes /\ mRoutes'[k] = mRoutes[k]
    BY <1>4, RegisteredFacts
  <2> QED
    BY <1>1, <2>1, SourcesFrame
<1> QED
  BY <1>1, <1>2, <1>3, <1>4, SourcesFrame DEF SourcesInv

\* The other steps leave the open table alone.
LEMMA QuietSources ==
  ASSUME TypeOK, SourcesInv,
         UNCHANGED <<config, rows, vRoutes, loaded, mRoutes>>,
         \/ UNCHANGED stage \/ stage' = "exited"
         \/ stage = "routes" /\ loaded = Len(vRoutes) /\ stage' = "database"
         \/ stage = "secure" /\ stage' = "tls"
         \/ stage = "tls" /\ stage' = "serving"
  PROVE  SourcesInv'
<1>1. /\ BuiltIn' = BuiltIn /\ KeysOf(loaded)' = KeysOf(loaded)
      /\ \A k : Configured(k, loaded) => Configured(k, loaded)'
      /\ \A k : Stored(k) => Stored(k)'
  BY SourcesFrame
<1>2. /\ (stage = "config" => loaded = 0 /\ vRoutes = <<>> /\ mRoutes = Empty)'
      /\ (stage \notin {"config", "exited"} => vRoutes = config.entries)'
      /\ (stage \notin {"config", "routes", "exited"} => loaded = Len(config.entries))'
  BY DEF SourcesInv, TypeOK
<1>3. (stage \in {"routes", "database"} =>
         DOMAIN mRoutes = KeysOf(loaded) /\ \A k \in DOMAIN mRoutes : Configured(k, loaded))'
  BY <1>1 DEF SourcesInv
<1>4. (stage = "code" =>
         /\ DOMAIN mRoutes = DOMAIN rows \cup KeysOf(loaded)
         /\ \A k \in DOMAIN mRoutes : IF k \in DOMAIN rows THEN Stored(k) ELSE Configured(k, loaded))'
  BY <1>1 DEF SourcesInv
<1>5. (stage \in {"secure", "tls", "serving"} =>
         /\ DOMAIN mRoutes = BuiltIn \cup DOMAIN rows \cup KeysOf(loaded)
         /\ \A k \in DOMAIN mRoutes :
              IF k \in BuiltIn THEN mRoutes[k].from = (IF k[1] = "POST" THEN "submit" ELSE "code")
              ELSE IF k \in DOMAIN rows THEN Stored(k) ELSE Configured(k, loaded))'
  BY <1>1 DEF SourcesInv
<1> QED
  BY <1>2, <1>3, <1>4, <1>5 DEF SourcesInv

LEMMA StartSources ==
  ASSUME TypeOK, SourcesInv,
         \/ LoadConfig \/ LoadRoute \/ OpenDatabase \/ StartFails \/ LoadRows
         \/ RegisterRoutes \/ RegisterSecureRoutes \/ StartServing
  PROVE  SourcesInv'
<1>1. CASE OpenDatabase \/ StartFails \/ RegisterSecureRoutes \/ StartServing
  BY <1>1, QuietSources DEF OpenDatabase, StartFails, RegisterSecureRoutes, StartServing
<1> QED
  BY <1>1, LoadConfigSources, LoadRouteSources, LoadRowsSources, RegisterRoutesSources

-----------------------------------------------------------------------------
(* The theorems.                                                           *)

LEMMA InitIInv == Init => IInv
<1> SUFFICES ASSUME Init PROVE IInv
  OBVIOUS
<1>1. /\ response.from = "nowhere" /\ response.types = <<>>
      /\ DOMAIN mRoutes = {} /\ DOMAIN mSecureRoutes = {}
  BY DEF Init, Nothing, Empty
<1>2. TypeOK
  BY <1>1 DEF Init, TypeOK, Origins
<1>3. GuardInv
  BY <1>1 DEF Init, GuardInv, TablesInv, SecureContentIsGuarded
<1>4. SourcesInv
  BY DEF Init, SourcesInv
<1> QED
  BY <1>2, <1>3, <1>4 DEF IInv

LEMMA NextIInv == IInv /\ [Next]_vars => IInv'
<1> SUFFICES ASSUME IInv, [Next]_vars PROVE IInv'
  OBVIOUS
<1>1. TypeOK /\ GuardInv /\ SourcesInv /\ TablesInv
  BY DEF IInv, GuardInv
<1>2. CASE UNCHANGED vars
  <2>1. TypeOK'
    BY <1>1, <1>2 DEF vars, TypeOK, IsHandler
  <2>2. GuardInv'
    BY <1>1, <1>2, Frame DEF vars, GuardInv, TablesInv
  <2>3. SourcesInv'
    BY <1>1, <1>2, QuietSources DEF vars
  <2> QED
    BY <2>1, <2>2, <2>3 DEF IInv
<1>3. CASE \/ LoadConfig \/ LoadRoute \/ OpenDatabase \/ StartFails \/ LoadRows
           \/ RegisterRoutes \/ RegisterSecureRoutes \/ StartServing
  BY <1>1, <1>3, StartTypeOK, StartGuardInv, StartSources DEF IInv
<1>4. ASSUME NEW r \in Requests, Serve(r)
      PROVE  IInv'
  <2>1. SourcesInv'
    BY <1>1, <1>4, QuietSources DEF Serve
  <2>2. TypeOK' /\ GuardInv'
    BY <1>1, <1>4, ServeTypeOK, ServeGuardInv
  <2> QED
    BY <2>1, <2>2 DEF IInv
<1> QED
  BY <1>2, <1>3, <1>4 DEF Next

\* The inductive invariant holds in every reachable state.
THEOREM Invariant == Spec => []IInv
BY InitIInv, NextIInv, PTL DEF Spec

\* Every handler in the tables and every answer has a known origin, format and
\* Content-Type, and an answer that was given carries two of those.
THEOREM TypeCorrectness == Spec => []TypeOK
<1>1. IInv => TypeOK
  BY DEF IInv
<1> QED
  BY <1>1, Invariant, PTL

\* Whatever routes.json and MOCKROUTE hold, secured content goes to the holders
\* of its role only, and to all of them (router.cpp:67-83,
\* SecurityManager.cpp:7-20).
THEOREM SecuredContent == Spec => []SecureContentIsGuarded
<1>1. IInv => SecureContentIsGuarded
  BY DEF IInv, GuardInv
<1> QED
  BY <1>1, Invariant, PTL

\* The last of the entries registered for a key is the last of the file.
LEMMA LastConfigured ==
  ASSUME NEW k, config.entries \in Seq({config.entries[i] : i \in DOMAIN config.entries}),
         Configured(k, Len(config.entries))
  PROVE  mRoutes[k].from = "config" /\ mRoutes[k].status = LastEntry(k).status
<1> DEFINE n == Len(config.entries)
           last == CHOOSE i \in EntriesFor(k) : \A j \in EntriesFor(k) : j <= i
<1>1. n \in Nat /\ DOMAIN config.entries = 1 .. n
  OBVIOUS
<1>2. PICK i \in 1 .. n :
        /\ config.entries[i].key = k
        /\ \A j \in 1 .. n : config.entries[j].key = k => j <= i
        /\ mRoutes[k].from = "config" /\ mRoutes[k].status = config.entries[i].status
  BY DEF Configured
<1>3. i \in EntriesFor(k) /\ \A j \in EntriesFor(k) : j <= i
  BY <1>1, <1>2 DEF EntriesFor
<1>4. last \in EntriesFor(k) /\ \A j \in EntriesFor(k) : j <= last
  BY <1>3
<1>5. EntriesFor(k) \subseteq Nat
  BY <1>1 DEF EntriesFor
<1> HIDE DEF last
<1>6. last = i
  BY <1>3, <1>4, <1>5
<1>7. LastEntry(k) = config.entries[last]
  BY DEF LastEntry, last
<1> QED
  BY <1>2, <1>6, <1>7

\* While serving, the table holds exactly the routes of its sources: built in
\* before stored before configured, and of several entries for a key the last
\* (InfraLite-MockServer.cpp:54 and 101-178, router.cpp:8-13 and 23-47).
THEOREM TablesMatchTheirSources == Spec => []TablesFollowTheirSources
<1>1. ASSUME IInv, stage = "serving"
      PROVE  TablesFollowTheirSources
  <2>1. config.entries \in Seq({config.entries[i] : i \in DOMAIN config.entries})
    BY <1>1, GoodEntriesFacts DEF IInv, TypeOK
  <2>2. loaded = Len(config.entries)
    BY <1>1 DEF IInv, SourcesInv
  <2>3. DOMAIN mRoutes = BuiltIn \cup DOMAIN rows \cup KeysOf(loaded)
    BY <1>1 DEF IInv, SourcesInv
  <2>4. KeysOf(loaded) = {config.entries[i].key : i \in DOMAIN config.entries}
    BY <2>1, <2>2 DEF KeysOf
  <2>5. ASSUME NEW k \in DOMAIN mRoutes
        PROVE  IF k \in BuiltIn THEN mRoutes[k].from \in {"code", "submit"}
               ELSE IF k \in DOMAIN rows
                    THEN mRoutes[k].from = (IF rows[k] = "file" THEN "file" ELSE "row")
                    ELSE mRoutes[k].from = "config" /\ mRoutes[k].status = LastEntry(k).status
    <3>1. IF k \in BuiltIn THEN mRoutes[k].from = (IF k[1] = "POST" THEN "submit" ELSE "code")
          ELSE IF k \in DOMAIN rows THEN Stored(k) ELSE Configured(k, loaded)
      BY <1>1, <2>5 DEF IInv, SourcesInv
    <3>2. CASE k \in BuiltIn
      BY <3>1, <3>2
    <3>3. CASE k \notin BuiltIn /\ k \in DOMAIN rows
      BY <3>1, <3>3 DEF Stored
    <3>4. CASE k \notin BuiltIn /\ k \notin DOMAIN rows
      BY <2>1, <2>2, <3>1, <3>4, LastConfigured
    <3> QED
      BY <3>2, <3>3, <3>4
  <2> QED
    BY <2>3, <2>4, <2>5, Zenon DEF TablesFollowTheirSources
<1>2. IInv => TablesFollowTheirSources
  BY <1>1 DEF TablesFollowTheirSources
<1> QED
  BY <1>2, Invariant, PTL
=============================================================================
