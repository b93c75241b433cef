----------------------------- MODULE Bootstrap ------------------------------
(***************************************************************************)
(* What main does to the database each time the program starts             *)
(* (InfraLite-MockServer.cpp:59-126) through the repositories of src/db,   *)
(* and the routes it then serves from it.  The tables outlive the process, *)
(* which may die between any two statements: SQLite commits each one by    *)
(* itself, and main opens no transaction around them.                      *)
(*                                                                         *)
(* Any statement may fail: when it is prepared, which it does for certain  *)
(* if its table could not be created, or when it is executed.  main goes on*)
(* all the same.  An administrator's tool may replace the value of PORT    *)
(* over a connection of its own, at any moment (ServerConfigRepository).   *)
(*                                                                         *)
(* Of the other rows only ids and what they refer to are kept.  An id is an*)
(* AUTOINCREMENT key.  sqlite3_last_insert_rowid belongs to the connection *)
(* and to no table: it is the id of the last row inserted into any of them.*)
(***************************************************************************)
EXTENDS Integers, Sequences, FiniteSets

CONSTANTS
  OtherPorts, \* what the administrator may store for PORT, besides "words"
  MaxBoots,   \* bound: how often the program is started
  MaxFailed,  \* bound: how many statements fail, say with SQLITE_BUSY
  MaxEdits    \* bound: how often the administrator stores a value

ASSUME BoundsAssumption == MaxBoots \in Nat /\ MaxFailed \in Nat /\ MaxEdits \in Nat

ASSUME PortsAssumption == {"none", "8080", "words"} \cap OtherPorts = {}

VARIABLES
  \* on disk
  tables,      \* the tables that exist
  configSeq,   \* AUTOINCREMENT of SERVERCONFIG
  port,        \* ConfigValue of PORT in SERVERCONFIG, "none" if there is no row
  adminRow,    \* UserID of "admin" in USER, or NoRow
  routeRow,    \* RouteID of each path in MOCKROUTE, or NoRow
  creator,     \* CreatedBy of that row
  fileRows,    \* the RouteID column of STATICFILE
  fileSeq,     \* AUTOINCREMENT of STATICFILE
  \* in the process
  step,        \* the statement main has reached; 0 when no process runs
  lastRowid,   \* sqlite3_last_insert_rowid of its connection
  adminId,     \* main's local variable
  routeId,     \* what the last AddRoute returned (bannerID, logoID)
  served,      \* how the router answers each path that came from MOCKROUTE
  \* history and counters
  stored,      \* what the administrator stored last, if no start was under way
  edits, boots, failed, crashes

diskVars == <<tables, configSeq, port, adminRow, routeRow, creator, fileRows, fileSeq>>
localVars == <<adminId, routeId, served>>
countVars == <<stored, edits, boots, failed, crashes>>
vars == <<diskVars, step, lastRowid, localVars, countVars>>

NoRow == 0
Paths == {"/dbhello", "/dbtest", "/banner", "/logo"}

Ports == OtherPorts \cup {"8080"}

\* The paths main gives a file, by AddFile right after AddRoute.
FilePaths == Paths \ {"/dbtest"}

\* The statements of main that write, in order.
Seed ==
  << [op |-> "CreateTable", table |-> "SERVERCONFIG"],
     [op |-> "SetConfig", table |-> "SERVERCONFIG", key |-> "PORT"],
     [op |-> "SetConfig", table |-> "SERVERCONFIG", key |-> "STATIC_DIR"],
     [op |-> "SetConfig", table |-> "SERVERCONFIG", key |-> "LOG_LEVEL"],
     [op |-> "CreateTable", table |-> "USER"],
     [op |-> "AddUser", table |-> "USER"],
     [op |-> "CreateTable", table |-> "MOCKROUTE"],
     [op |-> "CreateTable", table |-> "STATICFILE"],
     [op |-> "AddRoute", table |-> "MOCKROUTE", path |-> "/dbhello"],
     [op |-> "AddFileToOne", table |-> "STATICFILE"],
     [op |-> "AddRoute", table |-> "MOCKROUTE", path |-> "/dbtest"],
     [op |-> "AddRoute", table |-> "MOCKROUTE", path |-> "/banner"],
     [op |-> "AddFile", table |-> "STATICFILE"],
     [op |-> "AddRoute", table |-> "MOCKROUTE", path |-> "/logo"],
     [op |-> "AddFile", table |-> "STATICFILE"] >>

Loading == Len(Seed) + 1
Starting == Len(Seed) + 2
Serving == Len(Seed) + 3

TypeOK ==
  /\ tables \in SUBSET {"SERVERCONFIG", "USER", "MOCKROUTE", "STATICFILE"}
  /\ configSeq \in Nat /\ fileSeq \in Nat /\ lastRowid \in Nat
  /\ port \in Ports \cup {"none", "words"}
  /\ adminRow \in {NoRow, 1}
  /\ routeRow \in [Paths -> Nat]
  /\ creator \in [Paths -> {-1, 0, 1}]
  /\ fileRows \in SUBSET (Nat \cup {-1})
  /\ step \in 0 .. Serving
  /\ adminId \in {-1, 0, 1}
  /\ routeId \in Nat \cup {-1}
  /\ served \in [Paths -> {"nothing", "file", "body"}]
  /\ stored \in OtherPorts \cup {"none", "words"}
  /\ edits \in 0 .. MaxEdits
  /\ boots \in 0 .. MaxBoots /\ failed \in 0 .. MaxFailed /\ crashes \in Nat

NoneServed == [p \in Paths |-> "nothing"]

\* The database file does not exist yet.
Init ==
  /\ tables = {}
  /\ configSeq = 0 /\ fileSeq = 0
  /\ port = "none" /\ stored = "none"
  /\ adminRow = NoRow
  /\ routeRow = [p \in Paths |-> NoRow]
  /\ creator = [p \in Paths |-> 0]
  /\ fileRows = {}
  /\ step = 0 /\ lastRowid = 0 /\ adminId = 0 /\ routeId = 0
  /\ served = NoneServed
  /\ edits = 0 /\ boots = 0 /\ failed = 0 /\ crashes = 0

-----------------------------------------------------------------------------
StoredRoutes == {p \in Paths : routeRow[p] # NoRow}

\* AUTOINCREMENT of MOCKROUTE: rows are never deleted, and an INSERT that
\* violates UNIQUE uses no id.
RouteCount == Cardinality(StoredRoutes)

\* main has reached a statement of this kind, and its table is there.
AtStatement(op) ==
  /\ step \in 1 .. Len(Seed)
  /\ Seed[step].op = op
  /\ op # "CreateTable" => Seed[step].table \in tables
  /\ step' = step + 1

\* DatabaseHandler::Open.
Boot ==
  /\ step = 0
  /\ boots < MaxBoots
  /\ boots' = boots + 1
  /\ step' = 1
  /\ lastRowid' = 0
  /\ UNCHANGED <<diskVars, localVars, stored, edits, failed, crashes>>

\* CREATE TABLE IF NOT EXISTS.
CreateTable ==
  /\ AtStatement("CreateTable")
  /\ tables' = tables \cup {Seed[step].table}
  /\ UNCHANGED <<configSeq, port, adminRow, routeRow, creator, fileRows, fileSeq, lastRowid,
                 localVars, countVars>>

\* INSERT OR REPLACE: the old row is deleted, the new one gets a new id.
SetConfig ==
  /\ AtStatement("SetConfig")
  /\ configSeq' = configSeq + 1 /\ lastRowid' = configSeq + 1
  /\ port' = IF Seed[step].key = "PORT" THEN "8080" ELSE port
  /\ UNCHANGED <<tables, adminRow, routeRow, creator, fileRows, fileSeq, localVars, countVars>>

\* Variant: the id is returned whether or not the row was inserted.
AddUserUnchecked ==
  /\ AtStatement("AddUser")
  /\ adminRow' = 1
  /\ lastRowid' = IF adminRow = NoRow THEN 1 ELSE lastRowid
  /\ adminId' = lastRowid'
  /\ UNCHANGED <<tables, configSeq, port, routeRow, creator, fileRows, fileSeq, routeId, served,
                 countVars>>

\* INSERT, with UserName UNIQUE: -1 from the second time on.
AddUser ==
  /\ AtStatement("AddUser")
  /\ \/ /\ adminRow = NoRow
        /\ adminRow' = 1 /\ lastRowid' = 1 /\ adminId' = 1
     \/ /\ adminRow # NoRow
        /\ adminId' = -1
        /\ UNCHANGED <<adminRow, lastRowid>>
  /\ UNCHANGED <<tables, configSeq, port, routeRow, creator, fileRows, fileSeq, routeId, served,
                 countVars>>

\* Variant: INSERT OR REPLACE, as in SetConfig.
AddRouteReplaces ==
  /\ AtStatement("AddRoute")
  /\ LET highest == CHOOSE n \in {routeRow[p] : p \in Paths} :
                      \A p \in Paths : routeRow[p] <= n IN
       /\ routeRow' = [routeRow EXCEPT ![Seed[step].path] = highest + 1]
       /\ creator' = [creator EXCEPT ![Seed[step].path] = adminId]
       /\ lastRowid' = highest + 1
  /\ routeId' = lastRowid'
  /\ UNCHANGED <<tables, configSeq, port, adminRow, fileRows, fileSeq, adminId, served, countVars>>

\* INSERT, with (Method, Path) UNIQUE.  The result of the statement is not
\* used: the id returned is that of the connection's last insertion.
AddRoute ==
  /\ AtStatement("AddRoute")
  /\ LET p == Seed[step].path IN
       \/ /\ routeRow[p] = NoRow
          /\ routeRow' = [routeRow EXCEPT ![p] = RouteCount + 1]
          /\ creator' = [creator EXCEPT ![p] = adminId]
          /\ lastRowid' = RouteCount + 1
       \/ /\ routeRow[p] # NoRow
          /\ UNCHANGED <<routeRow, creator, lastRowid>>
  /\ routeId' = lastRowid'
  /\ UNCHANGED <<tables, configSeq, port, adminRow, fileRows, fileSeq, adminId, served, countVars>>

\* INSERT OR IGNORE, with RouteID UNIQUE.  An ignored row has used an id all
\* the same.  The foreign key is not enforced (no PRAGMA foreign_keys).
InsertFile(id) ==
  /\ fileSeq' = fileSeq + 1
  /\ fileRows' = fileRows \cup {id}
  /\ lastRowid' = IF id \in fileRows THEN lastRowid ELSE fileSeq + 1
  /\ UNCHANGED <<tables, configSeq, port, adminRow, routeRow, creator, localVars, countVars>>

\* Variant: the id that AddRoute returned instead of the literal 1.
AddFileToReturned == AtStatement("AddFileToOne") /\ InsertFile(routeId)

\* AddFile(1, ...) for /dbhello.
AddFileToOne == AtStatement("AddFileToOne") /\ InsertFile(1)

\* AddFile(bannerID, ...) and AddFile(logoID, ...).
AddFile == AtStatement("AddFile") /\ InsertFile(routeId)

\* A failure that is not the model's own doing, such as SQLITE_BUSY.
Fails == failed < MaxFailed /\ failed' = failed + 1

\* A statement that cannot be prepared changes nothing; AddUser and AddRoute
\* return -1.  CREATE TABLE, by sqlite3_exec, may fail at any point.
PrepareFails ==
  /\ step \in 1 .. Len(Seed)
  /\ step' = step + 1
  /\ \/ Seed[step].op # "CreateTable" /\ Seed[step].table \notin tables /\ UNCHANGED failed
     \/ Fails
  /\ adminId' = IF Seed[step].op = "AddUser" THEN -1 ELSE adminId
  /\ routeId' = IF Seed[step].op = "AddRoute" THEN -1 ELSE routeId
  /\ UNCHANGED <<diskVars, lastRowid, served, stored, edits, boots, crashes>>

\* The id of the row which the statement's own COMMIT may have taken back, if
\* it inserts one at all.
InsertedIds ==
  CASE Seed[step].op = "SetConfig" -> {configSeq + 1}
    [] Seed[step].op = "AddUser" -> IF adminRow = NoRow THEN {1} ELSE {}
    [] Seed[step].op = "AddRoute" ->
         IF routeRow[Seed[step].path] = NoRow THEN {RouteCount + 1} ELSE {}
    [] Seed[step].op = "AddFileToOne" -> IF 1 \in fileRows THEN {} ELSE {fileSeq + 1}
    [] OTHER -> IF routeId \in fileRows THEN {} ELSE {fileSeq + 1}

\* sqlite3_step fails.  The tables are as before, the connection's last id is so
\* only if the row was not inserted before; AddUser returns -1, AddRoute that id.
StepFails ==
  /\ step \in 1 .. Len(Seed)
  /\ Seed[step].op # "CreateTable" /\ AtStatement(Seed[step].op)
  /\ Fails
  /\ lastRowid' \in {lastRowid} \cup InsertedIds
  /\ adminId' = IF Seed[step].op = "AddUser" THEN -1 ELSE adminId
  /\ routeId' = IF Seed[step].op = "AddRoute" THEN lastRowid' ELSE routeId
  /\ UNCHANGED <<diskVars, served, stored, edits, boots, crashes>>

\* One handler per row of MOCKROUTE that was read: for its file if a row of
\* STATICFILE that was read has its id, for its own body otherwise.
Handlers(routes, files) ==
  [p \in Paths |-> IF p \notin routes THEN "nothing"
                   ELSE IF routeRow[p] \in files THEN "file"
                   ELSE "body"]

Answers == Handlers(StoredRoutes, fileRows)

\* GetRoutes, GetFiles, and Router::AddRoute for each.  A SELECT that fails
\* returns the rows it had got to, which come by their ids; or none.
LoadRoutes ==
  /\ step = Loading
  /\ step' = Starting
  /\ \/ served' = Answers /\ UNCHANGED failed
     \/ /\ Fails
        /\ \/ \E n \in 0 .. RouteCount :
                served' = Handlers({p \in StoredRoutes : routeRow[p] <= n}, fileRows)
           \/ \E files \in SUBSET fileRows : served' = Handlers(StoredRoutes, files)
  /\ UNCHANGED <<diskVars, lastRowid, adminId, routeId, stored, edits, boots, crashes>>

\* The process ends, and with it the connection, the locals and the router.
ProcessEnds ==
  /\ step' = 0 /\ lastRowid' = 0 /\ adminId' = 0 /\ routeId' = 0
  /\ served' = NoneServed
  /\ UNCHANGED <<diskVars, stored, edits, boots>>

\* GetConfig("PORT") and std::stoi, which throws without a number: main catches
\* that and returns.  There is none without a row, or when the SELECT fails.
StartServer ==
  /\ step = Starting
  /\ \/ /\ port \in Ports
        /\ step' = Serving
        /\ UNCHANGED <<diskVars, lastRowid, localVars, countVars>>
     \/ port \notin Ports /\ ProcessEnds /\ UNCHANGED <<failed, crashes>>
     \/ Fails /\ ProcessEnds /\ UNCHANGED crashes

Shutdown ==
  /\ step = Serving
  /\ ProcessEnds
  /\ UNCHANGED <<failed, crashes>>

\* The process dies before it serves anything.
Crash ==
  /\ step \in 1 .. Starting
  /\ ProcessEnds
  /\ crashes' = crashes + 1 /\ UNCHANGED failed

\* SetConfig("PORT", value) by the administrator's tool: the row gets a new id,
\* but this connection's last insert is its own.
StorePort(value) ==
  /\ "SERVERCONFIG" \in tables /\ edits < MaxEdits
  /\ edits' = edits + 1
  /\ port' = value /\ configSeq' = configSeq + 1
  /\ stored' = IF step \in {0, Serving} THEN value ELSE "none"
  /\ UNCHANGED <<tables, adminRow, routeRow, creator, fileRows, fileSeq, step, lastRowid, localVars,
                 boots, failed, crashes>>

Done == step = 0 /\ boots = MaxBoots /\ UNCHANGED vars

Next ==
  \/ Boot
  \/ CreateTable \/ SetConfig \/ AddUser \/ AddRoute \/ AddFileToOne \/ AddFile
  \/ PrepareFails \/ StepFails
  \/ LoadRoutes \/ StartServer
  \/ Shutdown \/ Crash
  \/ \E value \in OtherPorts \cup {"words"} : StorePort(value)
  \/ Done

Spec == Init /\ [][Next]_vars

-----------------------------------------------------------------------------
(* Safety.                                                                 *)

\* Whatever the interruptions, /dbhello has the id main's AddFile(1) counts
\* on (main:86-87), and the route that has a body of its own is never given
\* a file, although AddRoute returns ids of other tables on every later boot.
FilesGoToTheirRoutes ==
  failed = 0 =>
    /\ routeRow["/dbhello"] \in {NoRow, 1}
    /\ \A p \in Paths : routeRow[p] # NoRow /\ routeRow[p] \in fileRows => p \in FilePaths

\* A restart repairs /dbhello: it is served from its file even if an earlier
\* process died between its AddRoute and its AddFile.
HelloIsServedFromFile ==
  failed = 0 /\ step = Serving => served["/dbhello"] = "file"

\* Nor does a crash ever cost more than one route its file, and none of them
\* the route (main:90-94): the others are served as seeded, through any number
\* of restarts that get other tables' ids from AddRoute.
CrashesCostOneFileEach ==
  failed = 0 /\ step = Serving =>
    /\ \A p \in FilePaths : served[p] \in {"file", "body"}
    /\ served["/dbtest"] = "body"
    /\ Cardinality({p \in FilePaths : served[p] # "file"}) <= crashes

\* AddUser returns -1 to every start but the one that stores the user
\* (user_repository.cpp:40-46).  The routes that start has inserted are the
\* user's; only after a crash are there others, and those come last.
RoutesHaveTheirCreator ==
  failed = 0 =>
    \A p \in StoredRoutes :
      /\ adminRow = 1 /\ creator[p] \in {1, -1}
      /\ creator[p] = -1 =>
           crashes > 0 /\ \A q \in StoredRoutes : routeRow[q] > routeRow[p] => creator[q] = -1

-----------------------------------------------------------------------------
(* The inductive invariant behind them.                                    *)

\* Each table is created before the first statement about it.
TablesInv ==
  /\ step > 1 \/ configSeq # 0 => "SERVERCONFIG" \in tables
  /\ step > 5 => "USER" \in tables
  /\ step > 7 => "MOCKROUTE" \in tables
  /\ step > 8 => "STATICFILE" \in tables

\* Routes get the ids 1 to 4, in the order of main, in as many starts as it
\* takes: an interrupted start has inserted a prefix of them.
RoutesInv ==
  /\ routeRow["/dbhello"] \in {NoRow, 1} /\ routeRow["/dbtest"] \in {NoRow, 2}
  /\ routeRow["/banner"] \in {NoRow, 3} /\ routeRow["/logo"] \in {NoRow, 4}
  /\ step > 9 \/ routeRow["/dbtest"] # NoRow => routeRow["/dbhello"] # NoRow
  /\ step > 11 \/ routeRow["/banner"] # NoRow => routeRow["/dbtest"] # NoRow
  /\ step > 12 \/ routeRow["/logo"] # NoRow => routeRow["/banner"] # NoRow
  /\ step > 14 => routeRow["/logo"] # NoRow

\* The file of /dbhello is the first row; no file is given to the id 2.
FilesInv ==
  /\ 2 \notin fileRows
  /\ 1 \in fileRows <=> fileSeq # 0
  /\ step > 10 \/ routeRow["/dbtest"] # NoRow => 1 \in fileRows
  /\ step > 13 \/ routeRow["/logo"] # NoRow => fileSeq >= 2

\* A process died after it had inserted the route and before its file.
BannerLost == routeRow["/banner"] # NoRow /\ 3 \notin fileRows /\ ~(step = 13 /\ routeId = 3)
LogoLost == routeRow["/logo"] # NoRow /\ 4 \notin fileRows /\ ~(step = 15 /\ routeId = 4)

LossInv ==
  /\ BannerLost \/ LogoLost => crashes >= 1
  /\ BannerLost /\ LogoLost => crashes >= 2

\* The connection's last id is 2 only where the route that asks for it is
\* about to be inserted, so that AddRoute does not return it.
RowidInv ==
  /\ step > 2 => configSeq >= 1
  /\ step > 3 => configSeq >= 2
  /\ step > 4 => configSeq >= 3
  /\ step \in 5 .. 15 /\ lastRowid = 2 =>
       \/ step = 12 /\ routeRow["/banner"] = NoRow
       \/ step = 14 /\ routeRow["/logo"] = NoRow
  /\ step \in {13, 15} => routeId # 2

\* No route is there before the user.  A start that has stored the user finds no
\* other's route; without a crash, one that has not finds them all.
CreatorInv ==
  /\ step > 6 => adminRow = 1 /\ adminId \in {1, -1}
  /\ adminRow = NoRow => StoredRoutes = {}
  /\ step > 6 /\ adminId = 1 => \A p \in StoredRoutes : creator[p] = 1
  /\ crashes = 0 =>
       /\ step > 6 /\ adminId = -1 => routeRow["/logo"] # NoRow
       /\ step <= 6 /\ adminRow # NoRow => routeRow["/logo"] # NoRow

IInv ==
  /\ TypeOK
  /\ failed = 0 =>
       /\ TablesInv /\ RoutesInv /\ FilesInv /\ LossInv /\ RowidInv
       /\ CreatorInv /\ RoutesHaveTheirCreator
       /\ step > Loading => served = Answers

-----------------------------------------------------------------------------
\* README.md:14, "Configure server behavior without code changes": the port the
\* administrator has stored is there when main reads it, at the next start.
StoredPortIsUsed == step = Starting /\ stored # "none" => port = stored

\* static_file_repository.cpp:18, FOREIGN KEY(RouteID) REFERENCES
\* MOCKROUTE(RouteID); README.md:172, "File metadata linked to routes".
FilesReferToRoutes ==
  step = Serving => \A id \in fileRows : \E p \in Paths : routeRow[p] = id
=============================================================================
