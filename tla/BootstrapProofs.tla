--------------------------- MODULE BootstrapProofs --------------------------
(***************************************************************************)
(* Theorems of Bootstrap, for any number of starts, each of which may be   *)
(* interrupted after any statement.                                        *)
(***************************************************************************)
EXTENDS Bootstrap, FiniteSetTheorems, TLAPS

\* What the list of statements says, one operation at a time.
LEMMA SeedFacts ==
  /\ Len(Seed) = 15 /\ Loading = 16 /\ Starting = 17 /\ Serving = 18
  /\ \A i \in 1 .. 15 :
       /\ Seed[i].op = "CreateTable" <=> i \in {1, 5, 7, 8}
       /\ Seed[i].op = "SetConfig" <=> i \in 2 .. 4
       /\ Seed[i].op = "AddUser" <=> i = 6
       /\ Seed[i].op = "AddRoute" <=> i \in {9, 11, 12, 14}
       /\ Seed[i].op = "AddFileToOne" <=> i = 10
       /\ Seed[i].op = "AddFile" <=> i \in {13, 15}
  /\ Seed[9].path = "/dbhello" /\ Seed[11].path = "/dbtest"
  /\ Seed[12].path = "/banner" /\ Seed[14].path = "/logo"
<1>1. Len(Seed) = 15
  BY DEF Seed
<1>2. /\ Seed[1].op = "CreateTable"
      /\ Seed[2].op = "SetConfig" /\ Seed[3].op = "SetConfig" /\ Seed[4].op = "SetConfig"
      /\ Seed[5].op = "CreateTable" /\ Seed[6].op = "AddUser"
      /\ Seed[7].op = "CreateTable" /\ Seed[8].op = "CreateTable"
  BY DEF Seed
<1>3. /\ Seed[9].op = "AddRoute" /\ Seed[10].op = "AddFileToOne"
      /\ Seed[11].op = "AddRoute" /\ Seed[12].op = "AddRoute" /\ Seed[13].op = "AddFile"
      /\ Seed[14].op = "AddRoute" /\ Seed[15].op = "AddFile"
  BY DEF Seed
<1>4. /\ Seed[9].path = "/dbhello" /\ Seed[11].path = "/dbtest"
      /\ Seed[12].path = "/banner" /\ Seed[14].path = "/logo"
  BY DEF Seed
<1>5. \A i \in 1 .. 15 : i \in {1, 2, 3, 4, 5, 6, 7, 8, 9, 10, 11, 12, 13, 14, 15}
  OBVIOUS
<1> QED
  BY <1>1, <1>2, <1>3, <1>4, <1>5 DEF Loading, Starting, Serving

\* Which table each statement is about.
LEMMA SeedTables ==
  \A i \in 1 .. 15 :
    Seed[i].table = IF i < 5 THEN "SERVERCONFIG" ELSE IF i < 7 THEN "USER"
                    ELSE IF i \in {7, 9, 11, 12, 14} THEN "MOCKROUTE" ELSE "STATICFILE"
<1>1. /\ Seed[1].table = "SERVERCONFIG" /\ Seed[2].table = "SERVERCONFIG"
      /\ Seed[3].table = "SERVERCONFIG" /\ Seed[4].table = "SERVERCONFIG"
      /\ Seed[5].table = "USER" /\ Seed[6].table = "USER"
      /\ Seed[7].table = "MOCKROUTE" /\ Seed[8].table = "STATICFILE"
  BY DEF Seed
<1>2. /\ Seed[9].table = "MOCKROUTE" /\ Seed[10].table = "STATICFILE"
      /\ Seed[11].table = "MOCKROUTE" /\ Seed[12].table = "MOCKROUTE"
      /\ Seed[13].table = "STATICFILE" /\ Seed[14].table = "MOCKROUTE"
      /\ Seed[15].table = "STATICFILE"
  BY DEF Seed
<1>3. \A i \in 1 .. 15 : i \in {1, 2, 3, 4, 5, 6, 7, 8, 9, 10, 11, 12, 13, 14, 15}
  OBVIOUS
<1> QED
  BY <1>1, <1>2, <1>3

\* How many routes there are, when they are a prefix of main's.
LEMMA RouteCounts ==
  /\ RouteCount \in Nat
  /\ RoutesInv =>
       /\ routeRow["/dbhello"] = NoRow => RouteCount = 0
       /\ routeRow["/dbhello"] # NoRow /\ routeRow["/dbtest"] = NoRow => RouteCount = 1
       /\ routeRow["/dbtest"] # NoRow /\ routeRow["/banner"] = NoRow => RouteCount = 2
       /\ routeRow["/banner"] # NoRow /\ routeRow["/logo"] = NoRow => RouteCount = 3
<1> DEFINE One == {"/dbhello"}
           Two == One \cup {"/dbtest"}
           Three == Two \cup {"/banner"}
<1>1. /\ IsFiniteSet(One) /\ Cardinality(One) = 1
      /\ IsFiniteSet(Two) /\ Cardinality(Two) = 2
      /\ IsFiniteSet(Three) /\ Cardinality(Three) = 3
  <2>1. IsFiniteSet(One) /\ Cardinality(One) = 1
    BY FS_Singleton
  <2>2. IsFiniteSet(Two) /\ Cardinality(Two) = 2
    BY <2>1, FS_AddElement
  <2>3. IsFiniteSet(Three) /\ Cardinality(Three) = 3
    BY <2>2, FS_AddElement
  <2> QED
    BY <2>1, <2>2, <2>3
<1>2. RouteCount \in Nat
  <2>1. IsFiniteSet(Paths)
    <3>1. Paths = Three \cup {"/logo"}
      BY DEF Paths
    <3>2. IsFiniteSet(Three \cup {"/logo"})
      BY <1>1, FS_AddElement
    <3> QED
      BY <3>1, <3>2
  <2>2. IsFiniteSet(StoredRoutes)
    BY <2>1, FS_Subset DEF StoredRoutes
  <2> QED
    BY <2>2, FS_CardinalityType DEF RouteCount
<1>3. ASSUME RoutesInv, routeRow["/dbhello"] = NoRow PROVE RouteCount = 0
  <2>1. StoredRoutes = {}
    BY <1>3 DEF RoutesInv, StoredRoutes, Paths, NoRow
  <2> QED
    BY <2>1, FS_EmptySet DEF RouteCount
<1>4. ASSUME RoutesInv, routeRow["/dbhello"] # NoRow, routeRow["/dbtest"] = NoRow
      PROVE  RouteCount = 1
  <2>1. StoredRoutes = One
    BY <1>4 DEF RoutesInv, StoredRoutes, Paths, NoRow
  <2> QED
    BY <1>1, <2>1 DEF RouteCount
<1>5. ASSUME RoutesInv, routeRow["/dbtest"] # NoRow, routeRow["/banner"] = NoRow
      PROVE  RouteCount = 2
  <2>1. StoredRoutes = Two
    BY <1>5 DEF RoutesInv, StoredRoutes, Paths, NoRow
  <2> QED
    BY <1>1, <2>1 DEF RouteCount
<1>6. ASSUME RoutesInv, routeRow["/banner"] # NoRow, routeRow["/logo"] = NoRow
      PROVE  RouteCount = 3
  <2>1. StoredRoutes = Three
    BY <1>6 DEF RoutesInv, StoredRoutes, Paths, NoRow
  <2> QED
    BY <1>1, <2>1 DEF RouteCount
<1> QED
  BY <1>2, <1>3, <1>4, <1>5, <1>6

-----------------------------------------------------------------------------
(* Type correctness.                                                       *)

LEMMA NoneServedType == NoneServed \in [Paths -> {"nothing", "file", "body"}]
BY DEF NoneServed

LEMMA InitTypeOK == Init => TypeOK
<1> SUFFICES ASSUME Init PROVE TypeOK
  OBVIOUS
<1>1. Serving = 18
  BY SeedFacts
<1>2. routeRow \in [Paths -> Nat] /\ creator \in [Paths -> {-1, 0, 1}]
  BY DEF Init, NoRow
<1>3. /\ fileRows \in SUBSET (Nat \cup {-1})
      /\ tables \in SUBSET {"SERVERCONFIG", "USER", "MOCKROUTE", "STATICFILE"}
  BY DEF Init
<1>4. boots \in 0 .. MaxBoots /\ failed \in 0 .. MaxFailed /\ edits \in 0 .. MaxEdits
  BY BoundsAssumption DEF Init
<1>5. served \in [Paths -> {"nothing", "file", "body"}]
  BY NoneServedType DEF Init
<1>6. step \in 0 .. Serving
  BY <1>1 DEF Init
<1>7. adminRow \in {NoRow, 1} /\ adminId \in {-1, 0, 1}
  BY DEF Init
<1>8. /\ configSeq \in Nat /\ fileSeq \in Nat /\ lastRowid \in Nat
      /\ routeId \in Nat \cup {-1} /\ crashes \in Nat
  BY DEF Init
<1>9. port \in Ports \cup {"none", "words"} /\ stored \in OtherPorts \cup {"none", "words"}
  BY DEF Init
<1> QED
  BY <1>2, <1>3, <1>4, <1>5, <1>6, <1>7, <1>8, <1>9 DEF TypeOK

LEMMA StatementTypeOK ==
  ASSUME TypeOK, CreateTable \/ SetConfig \/ AddUser \/ AddRoute \/ AddFileToOne \/ AddFile
  PROVE  TypeOK'
<1> USE DEF TypeOK, diskVars, localVars, countVars
<1>1. /\ step \in 1 .. 15 /\ step' \in 0 .. Serving
      /\ Serving = 18
  BY SeedFacts DEF CreateTable, SetConfig, AddUser, AddRoute, AddFileToOne, AddFile, AtStatement
<1>2. CASE CreateTable
  <2>1. tables' \in SUBSET {"SERVERCONFIG", "USER", "MOCKROUTE", "STATICFILE"}
    BY <1>1, <1>2, SeedTables DEF CreateTable
  <2> QED
    BY <1>1, <1>2, <2>1 DEF CreateTable
<1>3. CASE SetConfig
  <2>1. port' \in Ports \cup {"none", "words"}
    BY <1>3 DEF SetConfig, Ports
  <2> QED
    BY <1>1, <1>3, <2>1 DEF SetConfig
<1>4. CASE AddUser
  BY <1>1, <1>4 DEF AddUser, NoRow
<1>5. CASE AddRoute
  BY <1>1, <1>5, RouteCounts DEF AddRoute, NoRow
<1>6. ASSUME NEW id \in Nat \cup {-1}, InsertFile(id) PROVE TypeOK'
  <2>1. fileRows' \in SUBSET (Nat \cup {-1})
    BY <1>6 DEF InsertFile
  <2>2. fileSeq' \in Nat /\ lastRowid' \in Nat
    BY <1>6 DEF InsertFile
  <2> QED
    BY <1>1, <1>6, <2>1, <2>2 DEF InsertFile
<1>7. CASE AddFileToOne \/ AddFile
  BY <1>6, <1>7 DEF AddFileToOne, AddFile
<1> QED
  BY <1>2, <1>3, <1>4, <1>5, <1>7

\* A statement that fails leaves ids and -1 behind, whichever way it fails.
LEMMA FailureTypeOK ==
  ASSUME TypeOK, PrepareFails \/ StepFails
  PROVE  TypeOK'
<1> USE DEF TypeOK, diskVars
<1>1. step \in 1 .. 15 /\ step' \in 0 .. Serving
  BY SeedFacts DEF PrepareFails, StepFails, AtStatement
<1>2. failed' \in 0 .. MaxFailed
  BY BoundsAssumption DEF PrepareFails, StepFails, Fails
<1>3. CASE PrepareFails
  BY <1>1, <1>2, <1>3 DEF PrepareFails
<1>4. CASE StepFails
  <2>1. InsertedIds \subseteq Nat
    <3>1. configSeq + 1 \in Nat /\ fileSeq + 1 \in Nat /\ RouteCount + 1 \in Nat
      BY RouteCounts
    <3> QED
      BY <3>1 DEF InsertedIds
  <2>2. lastRowid' \in Nat
    BY <1>4, <2>1 DEF StepFails
  <2> QED
    BY <1>1, <1>2, <1>4, <2>2 DEF StepFails
<1> QED
  BY <1>3, <1>4

LEMMA StorePortTypeOK ==
  ASSUME TypeOK, NEW value \in OtherPorts \cup {"words"}, StorePort(value)
  PROVE  TypeOK'
<1>1. port' \in Ports \cup {"none", "words"} /\ stored' \in OtherPorts \cup {"none", "words"}
  BY DEF StorePort, Ports, TypeOK
<1> QED
  BY <1>1, BoundsAssumption DEF StorePort, TypeOK, localVars

LEMMA HandlersType ==
  ASSUME NEW routes, NEW files
  PROVE  Handlers(routes, files) \in [Paths -> {"nothing", "file", "body"}]
BY DEF Handlers

LEMMA ProcessTypeOK ==
  ASSUME TypeOK, Boot \/ LoadRoutes \/ StartServer \/ Shutdown \/ Crash
  PROVE  TypeOK'
<1> USE DEF TypeOK, diskVars, localVars, countVars
<1>1. Serving = 18 /\ Starting = 17 /\ Loading = 16
  BY SeedFacts
<1>2. CASE Boot
  BY <1>1, <1>2, BoundsAssumption DEF Boot
<1>3. CASE LoadRoutes
  <2>1. served' \in [Paths -> {"nothing", "file", "body"}]
    <3>1. \E routes, files : served' = Handlers(routes, files)
      BY <1>3 DEF LoadRoutes, Answers
    <3> QED
      BY <3>1, HandlersType
  <2>2. failed' \in 0 .. MaxFailed
    BY <1>3, BoundsAssumption DEF LoadRoutes, Fails
  <2> QED
    BY <1>1, <1>3, <2>1, <2>2 DEF LoadRoutes
<1>4. ASSUME ProcessEnds, crashes' \in Nat, failed' \in 0 .. MaxFailed PROVE TypeOK'
  BY <1>1, <1>4, NoneServedType DEF ProcessEnds
<1>5. CASE StartServer
  <2>1. CASE ProcessEnds
    <3>1. crashes' \in Nat /\ failed' \in 0 .. MaxFailed
      BY <1>5, BoundsAssumption DEF StartServer, Fails
    <3> QED
      BY <1>4, <2>1, <3>1
  <2>2. CASE ~ProcessEnds
    <3>1. step' = Serving /\ UNCHANGED <<diskVars, lastRowid, localVars, countVars>>
      BY <1>5, <2>2 DEF StartServer
    <3> QED
      BY <1>1, <3>1
  <2> QED
    BY <2>1, <2>2
<1>6. CASE Shutdown \/ Crash
  BY <1>4, <1>6 DEF Shutdown, Crash
<1> QED
  BY <1>2, <1>3, <1>5, <1>6

\* The part of TypeOK that the steps of the invariant need.
LEMMA NumbersOK ==
  TypeOK => /\ step \in 0 .. 18 /\ configSeq \in Nat /\ fileSeq \in Nat /\ lastRowid \in Nat
            /\ routeId \in Nat \cup {-1} /\ crashes \in Nat /\ failed \in Nat
            /\ routeRow \in [Paths -> Nat] /\ creator \in [Paths -> {-1, 0, 1}]
            /\ fileRows \in SUBSET (Nat \cup {-1})
            /\ adminRow \in {0, 1} /\ adminId \in {-1, 0, 1}
<1> SUFFICES ASSUME TypeOK
             PROVE  /\ step \in 0 .. 18 /\ configSeq \in Nat /\ fileSeq \in Nat
                    /\ lastRowid \in Nat
                    /\ routeId \in Nat \cup {-1} /\ crashes \in Nat /\ failed \in Nat
                    /\ routeRow \in [Paths -> Nat] /\ creator \in [Paths -> {-1, 0, 1}]
                    /\ fileRows \in SUBSET (Nat \cup {-1})
                    /\ adminRow \in {0, 1} /\ adminId \in {-1, 0, 1}
  OBVIOUS
<1>1. failed \in 0 .. MaxFailed /\ step \in 0 .. Serving
  BY DEF TypeOK
<1>2. failed \in Nat /\ step \in 0 .. 18
  BY <1>1, SeedFacts
<1> QED
  BY <1>2 DEF TypeOK, NoRow

-----------------------------------------------------------------------------
(* What the tables and the connection hold when no statement has failed.   *)

SeedInv == RoutesInv /\ FilesInv /\ LossInv /\ RowidInv

\* The router answers as the tables say, which do not change once it is set.
ServedInv == step > Loading => served = Answers

UserInv == CreatorInv /\ RoutesHaveTheirCreator

\* With its table there, a statement fails only if a failure is counted.
LEMMA NothingFails ==
  ASSUME TypeOK, TablesInv, failed' = failed, Next
  PROVE  ~PrepareFails /\ ~StepFails /\ (LoadRoutes => served' = Answers)
<1>1. ~Fails
  BY NumbersOK DEF Fails
<1>2. ~PrepareFails
  <2> SUFFICES ASSUME PrepareFails PROVE FALSE
    OBVIOUS
  <2>1. step \in 1 .. 15 /\ Seed[step].op # "CreateTable" /\ Seed[step].table \notin tables
    BY <1>1, SeedFacts DEF PrepareFails
  <2>2. step \in 2 .. 15 /\ step # 5 /\ step # 7 /\ step # 8
    BY <2>1, SeedFacts
  <2> QED
    BY <2>1, <2>2, SeedTables DEF TablesInv
<1> QED
  BY <1>1, <1>2 DEF StepFails, LoadRoutes

LEMMA TablesInvStep ==
  ASSUME TypeOK, TablesInv, failed' = failed, Next
  PROVE  TablesInv'
<1> USE SeedFacts, NumbersOK DEF TablesInv
<1>1. CASE CreateTable
  <2>1. step \in {1, 5, 7, 8} /\ step' = step + 1 /\ configSeq' = configSeq
    BY <1>1 DEF CreateTable, AtStatement
  <2>2. tables' = tables \cup {Seed[step].table}
    BY <1>1 DEF CreateTable
  <2>3. /\ step = 1 => Seed[step].table = "SERVERCONFIG"
        /\ step = 5 => Seed[step].table = "USER"
        /\ step = 7 => Seed[step].table = "MOCKROUTE"
        /\ step = 8 => Seed[step].table = "STATICFILE"
    BY <2>1, SeedTables
  <2> QED
    BY <2>1, <2>2, <2>3
<1>2. CASE SetConfig \/ AddUser \/ AddRoute \/ AddFileToOne \/ AddFile
  <2>1. tables' = tables
    BY <1>2 DEF SetConfig, AddUser, AddRoute, AddFileToOne, AddFile, InsertFile
  <2>2. step \in 1 .. 15 /\ step \notin {1, 5, 7, 8} /\ step' = step + 1
    BY <1>2 DEF SetConfig, AddUser, AddRoute, AddFileToOne, AddFile, AtStatement
  <2> QED
    BY <2>1, <2>2
<1>3. CASE Boot \/ LoadRoutes \/ StartServer \/ Shutdown \/ Crash
  <2>1. tables' = tables /\ configSeq' = configSeq
    BY <1>3 DEF Boot, LoadRoutes, StartServer, Shutdown, Crash, ProcessEnds, diskVars
  <2>2. step' \in {0, 1} \/ (step >= 16 /\ step' \in 16 .. 18)
    BY <1>3 DEF Boot, LoadRoutes, StartServer, Shutdown, Crash, ProcessEnds
  <2> QED
    BY <2>1, <2>2
<1>4. ASSUME NEW value, StorePort(value) PROVE TablesInv'
  BY <1>4 DEF StorePort
<1>5. CASE Done
  BY <1>5 DEF Done, vars, diskVars
<1> QED
  BY <1>1, <1>2, <1>3, <1>4, <1>5, NothingFails DEF Next

LEMMA SetConfigSeedInv ==
  ASSUME TypeOK, SeedInv, SetConfig
  PROVE  SeedInv'
<1>1. step \in 2 .. 4 /\ step' = step + 1 /\ configSeq' = configSeq + 1 /\ lastRowid' = configSeq + 1
  BY SeedFacts DEF SetConfig, AtStatement
<1>2. UNCHANGED <<routeRow, fileRows, fileSeq, routeId, crashes>>
  BY DEF SetConfig, localVars, countVars
<1> QED
  BY <1>1, <1>2, NumbersOK
  DEF SeedInv, RoutesInv, FilesInv, LossInv, BannerLost, LogoLost, RowidInv

LEMMA CreateTableSeedInv ==
  ASSUME TypeOK, SeedInv, CreateTable
  PROVE  SeedInv'
<1>1. step \in {1, 5, 7, 8} /\ step' = step + 1
  BY SeedFacts DEF CreateTable, AtStatement
<1>2. UNCHANGED <<configSeq, lastRowid, routeRow, fileRows, fileSeq, routeId, crashes>>
  BY DEF CreateTable, localVars, countVars
<1> QED
  BY <1>1, <1>2, NumbersOK
  DEF SeedInv, RoutesInv, FilesInv, LossInv, BannerLost, LogoLost, RowidInv

LEMMA AddUserSeedInv ==
  ASSUME TypeOK, SeedInv, AddUser
  PROVE  SeedInv'
<1>1. step = 6 /\ step' = 7 /\ (lastRowid' = 1 \/ lastRowid' = lastRowid)
  BY SeedFacts DEF AddUser, AtStatement
<1>2. UNCHANGED <<configSeq, routeRow, fileRows, fileSeq, routeId, crashes>>
  BY DEF AddUser, countVars
<1> QED
  BY <1>1, <1>2, NumbersOK
  DEF SeedInv, RoutesInv, FilesInv, LossInv, BannerLost, LogoLost, RowidInv

\* The id AddRoute hands to AddFile is that of a new route, or a stale one
\* that is not 2.
LEMMA AddRouteSeedInv ==
  ASSUME TypeOK, SeedInv, AddRoute
  PROVE  SeedInv'
<1>1. UNCHANGED <<configSeq, fileRows, fileSeq, crashes>>
  BY DEF AddRoute, countVars
<1>2. step \in {9, 11, 12, 14} /\ step' = step + 1
  BY SeedFacts DEF AddRoute, AtStatement
<1> DEFINE p == Seed[step].path
<1>3. /\ routeId' = lastRowid'
      /\ \/ /\ routeRow[p] = NoRow
            /\ routeRow' = [routeRow EXCEPT ![p] = RouteCount + 1]
            /\ lastRowid' = RouteCount + 1
         \/ routeRow[p] # NoRow /\ routeRow' = routeRow /\ lastRowid' = lastRowid
  BY DEF AddRoute
<1> HIDE DEF p
<1> USE NumbersOK DEF SeedInv, NoRow, Paths
<1>4. CASE step = 9
  <2>1. p = "/dbhello" /\ (routeRow[p] = NoRow => RouteCount = 0)
    BY <1>4, SeedFacts, RouteCounts DEF p
  <2>2. RoutesInv' /\ FilesInv' /\ RowidInv'
    BY <1>1, <1>2, <1>3, <1>4, <2>1 DEF RoutesInv, FilesInv, RowidInv
  <2>3. LossInv'
    BY <1>1, <1>2, <1>3, <1>4, <2>1 DEF LossInv, BannerLost, LogoLost
  <2> QED
    BY <2>2, <2>3
<1>5. CASE step = 11
  <2>1. p = "/dbtest" /\ (routeRow[p] = NoRow => RouteCount = 1)
    BY <1>5, SeedFacts, RouteCounts DEF p, RoutesInv
  <2>2. RoutesInv' /\ FilesInv' /\ RowidInv'
    BY <1>1, <1>2, <1>3, <1>5, <2>1 DEF RoutesInv, FilesInv, RowidInv
  <2>3. LossInv'
    BY <1>1, <1>2, <1>3, <1>5, <2>1 DEF LossInv, BannerLost, LogoLost
  <2> QED
    BY <2>2, <2>3
<1>6. CASE step = 12
  <2>1. p = "/banner" /\ (routeRow[p] = NoRow => RouteCount = 2)
    BY <1>6, SeedFacts, RouteCounts DEF p, RoutesInv
  <2>2. RoutesInv' /\ FilesInv' /\ RowidInv'
    BY <1>1, <1>2, <1>3, <1>6, <2>1 DEF RoutesInv, FilesInv, RowidInv
  <2>3. LossInv'
    BY <1>1, <1>2, <1>3, <1>6, <2>1 DEF LossInv, BannerLost, LogoLost
  <2> QED
    BY <2>2, <2>3
<1>7. CASE step = 14
  <2>1. p = "/logo" /\ (routeRow[p] = NoRow => RouteCount = 3)
    BY <1>7, SeedFacts, RouteCounts DEF p, RoutesInv
  <2>2. RoutesInv' /\ FilesInv' /\ RowidInv'
    BY <1>1, <1>2, <1>3, <1>7, <2>1 DEF RoutesInv, FilesInv, RowidInv
  <2>3. LossInv'
    BY <1>1, <1>2, <1>3, <1>7, <2>1 DEF LossInv, BannerLost, LogoLost
  <2> QED
    BY <2>2, <2>3
<1> QED
  BY <1>2, <1>4, <1>5, <1>6, <1>7

LEMMA AddFileSeedInv ==
  ASSUME TypeOK, SeedInv, AddFileToOne \/ AddFile
  PROVE  SeedInv'
<1>1. UNCHANGED <<configSeq, routeRow, routeId, crashes>> /\ step' = step + 1
  BY DEF AddFileToOne, AddFile, InsertFile, localVars, countVars, AtStatement
<1>2. (step = 10 /\ InsertFile(1)) \/ (step \in {13, 15} /\ InsertFile(routeId))
  BY SeedFacts DEF AddFileToOne, AddFile, AtStatement
<1> DEFINE id == IF step = 10 THEN 1 ELSE routeId
<1>3. /\ step = 10 \/ (step \in {13, 15} /\ id = routeId)
      /\ id \in Nat \cup {-1}
      /\ fileSeq' = fileSeq + 1 /\ fileRows' = fileRows \cup {id}
      /\ lastRowid' = IF id \in fileRows THEN lastRowid ELSE fileSeq + 1
  BY <1>2, NumbersOK DEF InsertFile
<1>4. RoutesInv'
  BY <1>1, <1>3, NumbersOK DEF SeedInv, RoutesInv
<1>5. FilesInv'
  BY <1>1, <1>3, NumbersOK DEF SeedInv, RoutesInv, FilesInv, RowidInv
<1>6. LossInv'
  BY <1>1, <1>3, NumbersOK DEF SeedInv, LossInv, BannerLost, LogoLost
<1>7. RowidInv'
  BY <1>1, <1>3, NumbersOK DEF SeedInv, RoutesInv, FilesInv, RowidInv
<1> QED
  BY <1>4, <1>5, <1>6, <1>7 DEF SeedInv

\* Starting, loading, and ending in whatever way: the tables stay as they are,
\* and a crash leaves at most the route behind whose file was next.
LEMMA ProcessSeedInv ==
  ASSUME TypeOK, SeedInv, Boot \/ LoadRoutes \/ StartServer \/ Shutdown \/ Crash
  PROVE  SeedInv'
<1>1. UNCHANGED diskVars
  BY DEF Boot, LoadRoutes, StartServer, Shutdown, Crash, ProcessEnds, diskVars
<1>2. \/ step = 0 /\ step' = 1 /\ crashes' = crashes
      \/ step >= 16 /\ step' \in {0, 17, 18} /\ crashes' = crashes
      \/ step' = 0 /\ crashes' = crashes + 1
  <2>1. CASE Boot
    BY <2>1 DEF Boot
  <2>2. CASE LoadRoutes
    BY <2>2, SeedFacts DEF LoadRoutes
  <2>3. CASE StartServer
    <3>1. step = 17 /\ crashes' = crashes /\ (step' = 18 \/ step' = 0)
      BY <2>3, SeedFacts DEF StartServer, ProcessEnds, countVars
    <3> QED
      BY <3>1
  <2>4. CASE Shutdown
    BY <2>4, SeedFacts DEF Shutdown, ProcessEnds
  <2>5. CASE Crash
    BY <2>5 DEF Crash, ProcessEnds
  <2> QED
    BY <2>1, <2>2, <2>3, <2>4, <2>5
<1>3. RoutesInv' /\ FilesInv' /\ RowidInv'
  BY <1>1, <1>2, NumbersOK DEF diskVars, SeedInv, RoutesInv, FilesInv, RowidInv
<1>4. LossInv'
  BY <1>1, <1>2, NumbersOK DEF diskVars, SeedInv, LossInv, BannerLost, LogoLost
<1> QED
  BY <1>3, <1>4 DEF SeedInv

LEMMA StorePortSeedInv ==
  ASSUME TypeOK, SeedInv, NEW value, StorePort(value)
  PROVE  SeedInv'
<1>1. configSeq' = configSeq + 1
  BY DEF StorePort
<1>2. UNCHANGED <<step, lastRowid, routeRow, fileRows, fileSeq, routeId, crashes>>
  BY DEF StorePort, localVars
<1> QED
  BY <1>1, <1>2, NumbersOK
  DEF SeedInv, RoutesInv, FilesInv, LossInv, BannerLost, LogoLost, RowidInv

LEMMA SeedInvStep ==
  ASSUME TypeOK, TablesInv, SeedInv, failed' = failed, Next
  PROVE  SeedInv'
<1>1. CASE CreateTable \/ SetConfig \/ AddUser
  BY <1>1, CreateTableSeedInv, SetConfigSeedInv, AddUserSeedInv
<1>2. CASE AddRoute \/ AddFileToOne \/ AddFile
  BY <1>2, AddRouteSeedInv, AddFileSeedInv
<1>3. CASE Boot \/ LoadRoutes \/ StartServer \/ Shutdown \/ Crash
  BY <1>3, ProcessSeedInv
<1>4. ASSUME NEW value, StorePort(value) PROVE SeedInv'
  BY <1>4, StorePortSeedInv
<1>5. CASE Done
  BY <1>5
  DEF Done, vars, diskVars, localVars, countVars, SeedInv, RoutesInv, FilesInv, LossInv, BannerLost,
      LogoLost, RowidInv
<1> QED
  BY <1>1, <1>2, <1>3, <1>4, <1>5, NothingFails DEF Next

\* Until the router is loaded nothing is claimed of it, and afterwards no
\* statement is left that could change a table.
LEMMA ServedInvStep ==
  ASSUME TypeOK, TablesInv, ServedInv, failed' = failed, Next
  PROVE  ServedInv'
<1> USE SeedFacts
<1>0. UNCHANGED <<routeRow, fileRows>> => Answers' = Answers
  BY DEF Answers, Handlers, StoredRoutes
<1>1. CASE CreateTable \/ SetConfig \/ AddUser \/ AddRoute \/ AddFileToOne \/ AddFile
  <2>1. step \in 1 .. 15 /\ step' = step + 1
    BY <1>1
    DEF CreateTable, SetConfig, AddUser, AddRoute, AddFileToOne, AddFile, AtStatement
  <2> QED
    BY <2>1 DEF ServedInv
<1>2. CASE Boot \/ Shutdown \/ Crash
  BY <1>2 DEF Boot, Shutdown, Crash, ProcessEnds, ServedInv
<1>3. CASE LoadRoutes
  BY <1>0, <1>3, NothingFails DEF LoadRoutes, ServedInv, diskVars
<1>4. CASE StartServer
  <2>1. CASE ProcessEnds
    BY <2>1 DEF ProcessEnds, ServedInv
  <2>2. CASE ~ProcessEnds
    BY <1>0, <1>4, <2>2 DEF StartServer, ServedInv, diskVars, localVars
  <2> QED
    BY <2>1, <2>2
<1>5. ASSUME NEW value, StorePort(value) PROVE ServedInv'
  BY <1>0, <1>5 DEF StorePort, localVars, ServedInv
<1>6. CASE Done
  BY <1>0, <1>6 DEF Done, vars, diskVars, localVars, ServedInv
<1> QED
  BY <1>1, <1>2, <1>3, <1>4, <1>5, <1>6, NothingFails DEF Next

-----------------------------------------------------------------------------
(* Who has created the routes.                                             *)

\* The new route comes last.  A start that has stored the user has only its own
\* routes around it; one that has not adds a route only after a crash.
LEMMA AddRouteUserInv ==
  ASSUME TypeOK, SeedInv, UserInv, AddRoute
  PROVE  UserInv'
<1>1. /\ step \in {9, 11, 12, 14} /\ step' = step + 1
      /\ UNCHANGED <<adminRow, adminId, crashes, failed>>
  BY SeedFacts DEF AddRoute, AtStatement, countVars
<1> DEFINE p == Seed[step].path
<1>2. /\ p \in Paths
      /\ routeRow["/logo"] # NoRow => routeRow[p] # NoRow
      /\ routeRow[p] = NoRow => \A q \in Paths : routeRow[q] < RouteCount + 1
  <2> USE NumbersOK DEF SeedInv, RoutesInv, Paths, NoRow
  <2>1. CASE step = 9
    BY <2>1, SeedFacts, RouteCounts
  <2>2. CASE step = 11
    BY <2>2, SeedFacts, RouteCounts
  <2>3. CASE step = 12
    BY <2>3, SeedFacts, RouteCounts
  <2>4. CASE step = 14
    BY <2>4, SeedFacts, RouteCounts
  <2> QED
    BY <1>1, <2>1, <2>2, <2>3, <2>4
<1>3. adminRow = 1 /\ adminId \in {1, -1}
  BY <1>1 DEF UserInv, CreatorInv
<1>4. CASE routeRow[p] = NoRow
  <2>1. /\ routeRow' = [routeRow EXCEPT ![p] = RouteCount + 1]
        /\ creator' = [creator EXCEPT ![p] = adminId]
    BY <1>4 DEF AddRoute
  <2>2. crashes \in Nat /\ (adminId = -1 => crashes > 0)
    BY <1>1, <1>2, <1>4, NumbersOK DEF UserInv, CreatorInv
  <2>3. RouteCount \in Nat
    BY RouteCounts
  <2>4. /\ StoredRoutes' = StoredRoutes \cup {p} /\ p \notin StoredRoutes
        /\ \A q \in Paths : q # p => routeRow'[q] = routeRow[q] /\ creator'[q] = creator[q]
        /\ routeRow'[p] = RouteCount + 1 /\ creator'[p] = adminId
    <3> HIDE DEF p
    <3> QED
      BY <1>2, <1>4, <2>1, <2>3, NumbersOK DEF StoredRoutes, NoRow
  <2> HIDE DEF p
  <2>5. adminId = 1 => \A q \in StoredRoutes' : creator'[q] = 1
    BY <1>1, <2>4 DEF UserInv, CreatorInv, StoredRoutes
  <2>6. CreatorInv'
    BY <1>1, <1>2, <1>3, <1>4, <2>2, <2>5 DEF UserInv, CreatorInv, NoRow
  <2>7. \A q \in StoredRoutes : routeRow[q] < RouteCount + 1 /\ q \in Paths
    BY <1>2, <1>4 DEF StoredRoutes
  <2>8. RoutesHaveTheirCreator'
    <3> SUFFICES ASSUME failed = 0, NEW r \in StoredRoutes'
                 PROVE  /\ adminRow' = 1 /\ creator'[r] \in {1, -1}
                        /\ creator'[r] = -1 =>
                             /\ crashes' > 0
                             /\ \A q \in StoredRoutes' : routeRow'[q] > routeRow'[r] => creator'[q] = -1
      BY <1>1 DEF RoutesHaveTheirCreator
    <3>1. CASE r = p
      <4>1. \A q \in StoredRoutes' : ~(routeRow'[q] > routeRow'[r])
        BY <2>3, <2>4, <2>7, <3>1, NumbersOK
      <4> QED
        BY <1>1, <1>3, <2>2, <2>4, <3>1, <4>1
    <3>2. CASE r # p
      <4>1. r \in StoredRoutes /\ creator'[r] = creator[r] /\ routeRow'[r] = routeRow[r]
        BY <2>4, <2>7, <3>2
      <4>2. creator[r] = -1 => adminId = -1
        BY <1>1, <1>3, <4>1 DEF UserInv, CreatorInv
      <4>3. /\ creator[r] \in {1, -1}
            /\ creator[r] = -1 =>
                 /\ crashes > 0
                 /\ \A q \in StoredRoutes : routeRow[q] > routeRow[r] => creator[q] = -1
        BY <4>1 DEF UserInv, RoutesHaveTheirCreator
      <4>4. ASSUME creator[r] = -1, NEW q \in StoredRoutes', routeRow'[q] > routeRow'[r]
            PROVE  creator'[q] = -1
        <5>1. CASE q = p
          BY <2>4, <4>2, <4>4, <5>1
        <5>2. CASE q # p
          BY <2>4, <2>7, <4>1, <4>3, <4>4, <5>2
        <5> QED
          BY <5>1, <5>2
      <4> QED
        BY <1>1, <1>3, <4>1, <4>3, <4>4
    <3> QED
      BY <3>1, <3>2
  <2> QED
    BY <2>6, <2>8 DEF UserInv
<1>5. CASE routeRow[p] # NoRow
  <2>1. UNCHANGED <<routeRow, creator>>
    BY <1>5 DEF AddRoute
  <2>2. StoredRoutes' = StoredRoutes
    BY <2>1 DEF StoredRoutes
  <2>3. CreatorInv'
    BY <1>1, <2>1, <2>2 DEF UserInv, CreatorInv
  <2>4. RoutesHaveTheirCreator'
    BY <1>1, <2>1, <2>2 DEF UserInv, RoutesHaveTheirCreator
  <2> QED
    BY <2>3, <2>4 DEF UserInv
<1> QED
  BY <1>4, <1>5

LEMMA UserInvStep ==
  ASSUME TypeOK, TablesInv, SeedInv, UserInv, failed' = failed, Next
  PROVE  UserInv'
<1> USE SeedFacts, NumbersOK DEF UserInv, CreatorInv, RoutesHaveTheirCreator, StoredRoutes
<1>1. CASE CreateTable \/ SetConfig \/ AddFileToOne \/ AddFile
  <2>1. UNCHANGED <<adminRow, adminId, routeRow, creator, crashes>>
    BY <1>1 DEF CreateTable, SetConfig, AddFileToOne, AddFile, InsertFile, localVars, countVars
  <2>2. step \in 1 .. 15 /\ step # 6 /\ step' = step + 1
    BY <1>1 DEF CreateTable, SetConfig, AddFileToOne, AddFile, AtStatement
  <2> QED
    BY <2>1, <2>2
<1>2. CASE AddUser
  <2>1. step = 6 /\ step' = 7 /\ adminRow' = 1 /\ UNCHANGED <<routeRow, creator, crashes>>
    BY <1>2 DEF AddUser, AtStatement, countVars, NoRow
  <2>2. IF adminRow = NoRow THEN adminId' = 1 ELSE adminId' = -1
    BY <1>2 DEF AddUser
  <2>3. StoredRoutes' = StoredRoutes
    BY <2>1
  <2>4. CreatorInv'
    <3>1. CASE adminRow = NoRow
      BY <2>1, <2>2, <2>3, <3>1 DEF NoRow
    <3>2. CASE adminRow # NoRow
      BY <2>1, <2>2, <2>3, <3>2 DEF NoRow
    <3> QED
      BY <3>1, <3>2
  <2>5. RoutesHaveTheirCreator'
    BY <2>1, <2>3
  <2> QED
    BY <2>4, <2>5
<1>3. CASE AddRoute
  BY ONLY <1>3, TypeOK, SeedInv, CreatorInv, RoutesHaveTheirCreator, AddRouteUserInv DEF UserInv
<1>4. CASE Boot \/ LoadRoutes \/ StartServer \/ Shutdown \/ Crash
  <2>1. UNCHANGED <<adminRow, routeRow, creator>>
    BY <1>4 DEF Boot, LoadRoutes, StartServer, Shutdown, Crash, ProcessEnds, diskVars
  <2>2. \/ step = 0 /\ step' = 1 /\ crashes' = crashes
        \/ step >= 16 /\ step' = 0 /\ crashes' = crashes
        \/ step >= 16 /\ step' \in {17, 18} /\ adminId' = adminId /\ crashes' = crashes
        \/ step' = 0 /\ crashes' = crashes + 1
    BY <1>4
    DEF Boot, LoadRoutes, StartServer, Shutdown, Crash, ProcessEnds, localVars, countVars
  <2>3. step >= 16 => routeRow["/logo"] # NoRow
    BY DEF SeedInv, RoutesInv
  <2> QED
    BY <2>1, <2>2, <2>3
<1>5. ASSUME NEW value, StorePort(value) PROVE UserInv'
  BY <1>5 DEF StorePort, localVars
<1>6. CASE Done
  BY <1>6 DEF Done, vars, diskVars, localVars, countVars
<1> QED
  BY <1>1, <1>2, <1>3, <1>4, <1>5, <1>6, NothingFails DEF Next

-----------------------------------------------------------------------------
(* The invariant and what follows from it.                                 *)

LEMMA InitIInv == Init => IInv
<1> SUFFICES ASSUME Init PROVE IInv
  OBVIOUS
<1>1. step > Loading => served = Answers
  BY SeedFacts DEF Init
<1>2. TablesInv /\ RoutesInv /\ FilesInv /\ LossInv /\ RowidInv
  <2>1. \A p \in Paths : routeRow[p] = 0
    BY DEF Init, NoRow
  <2>2. step = 0 /\ fileRows = {} /\ fileSeq = 0 /\ lastRowid = 0 /\ configSeq = 0
    BY DEF Init
  <2> QED
    BY <2>1, <2>2 DEF TablesInv, RoutesInv, FilesInv, LossInv, BannerLost, LogoLost, RowidInv, Paths,
                      NoRow
<1>3. CreatorInv /\ RoutesHaveTheirCreator
  BY DEF Init, CreatorInv, RoutesHaveTheirCreator, StoredRoutes, NoRow
<1> QED
  BY <1>1, <1>2, <1>3, InitTypeOK DEF IInv

LEMMA NextTypeOK == TypeOK /\ Next => TypeOK'
<1> SUFFICES ASSUME TypeOK, Next PROVE TypeOK'
  OBVIOUS
<1>1. CASE CreateTable \/ SetConfig \/ AddUser \/ AddRoute \/ AddFileToOne \/ AddFile
  BY <1>1, StatementTypeOK
<1>2. CASE PrepareFails \/ StepFails
  BY <1>2, FailureTypeOK
<1>3. CASE Boot \/ LoadRoutes \/ StartServer \/ Shutdown \/ Crash
  BY <1>3, ProcessTypeOK
<1>4. ASSUME NEW value \in OtherPorts \cup {"words"}, StorePort(value) PROVE TypeOK'
  BY <1>4, StorePortTypeOK
<1>5. CASE Done
  BY <1>5 DEF Done, vars, diskVars, localVars, countVars, TypeOK
<1> QED
  BY <1>1, <1>2, <1>3, <1>4, <1>5 DEF Next

\* A failure is counted, and never taken back.
LEMMA FailuresCount == TypeOK /\ Next => failed' = failed \/ failed' = failed + 1
BY DEF Next, Boot, CreateTable, SetConfig, AddUser, AddRoute, AddFileToOne, AddFile, InsertFile,
       PrepareFails, StepFails, Fails, LoadRoutes, StartServer, Shutdown, Crash, StorePort, Done,
       vars, countVars

LEMMA NextIInv == IInv /\ [Next]_vars => IInv'
<1> SUFFICES ASSUME IInv, [Next]_vars PROVE IInv'
  OBVIOUS
<1>1. /\ TypeOK
      /\ failed = 0 => TablesInv /\ SeedInv /\ UserInv /\ ServedInv
  BY DEF IInv, ServedInv, SeedInv, UserInv
<1>2. CASE UNCHANGED vars
  BY <1>2
  DEF IInv, vars, diskVars, localVars, countVars, TypeOK, TablesInv, RoutesInv, FilesInv, LossInv,
      BannerLost, LogoLost, RowidInv, Answers, Handlers, StoredRoutes, CreatorInv,
      RoutesHaveTheirCreator
<1>3. CASE Next
  <2>1. TypeOK'
    BY <1>1, <1>3, NextTypeOK
  <2>2. ASSUME failed' = 0 PROVE TablesInv' /\ SeedInv' /\ UserInv' /\ ServedInv'
    <3>1. failed' = failed /\ failed = 0
      BY <1>1, <1>3, <2>2, FailuresCount, NumbersOK
    <3>2. TablesInv /\ SeedInv /\ UserInv /\ ServedInv
      BY <1>1, <3>1
    <3> QED
      BY <1>1, <1>3, <3>1, <3>2, TablesInvStep, SeedInvStep, UserInvStep, ServedInvStep
  <2> QED
    BY <2>1, <2>2 DEF IInv, ServedInv, SeedInv, UserInv
<1> QED
  BY <1>2, <1>3

\* The inductive invariant holds after any number of starts: the ids of the
\* routes, and the ids that last_insert_rowid can have before each insert.
THEOREM Invariant == Spec => []IInv
<1> QED
  BY InitIInv, NextIInv, PTL DEF Spec

\* The columns, ids and locals keep their types over any number of starts, the
\* -1 that AddRoute returns if its statement cannot be prepared included.
THEOREM TypeCorrectness == Spec => []TypeOK
<1>1. IInv => TypeOK
  BY DEF IInv
<1> QED
  BY <1>1, Invariant, PTL

\* However many starts there are and wherever they are interrupted, /dbhello
\* has the id 1 that AddFile(1, ...) counts on, and no stale id that AddRoute
\* returns is that of the route without a file (main:86-94).
THEOREM NoFileGoesAstray == Spec => []FilesGoToTheirRoutes
<1>1. IInv => FilesGoToTheirRoutes
  BY DEF IInv, RoutesInv, FilesInv, FilesGoToTheirRoutes, Paths, FilePaths, NoRow
<1> QED
  BY <1>1, Invariant, PTL

\* Over any number of starts and crashes, the routes of the start that stored the
\* user are the admin's, although AddUser returns -1 to every other start; those
\* that later starts had to add come after them (main:76-93).
THEOREM CreatorsAreKept == Spec => []RoutesHaveTheirCreator
<1>1. IInv => RoutesHaveTheirCreator
  BY DEF IInv, RoutesHaveTheirCreator
<1> QED
  BY <1>1, Invariant, PTL

\* What a server that serves has in its router if nothing has failed.
LEMMA ServingFacts ==
  ASSUME IInv, failed = 0, step = Serving
  PROVE  /\ served["/dbhello"] = "file" /\ served["/dbtest"] = "body"
         /\ served["/banner"] = IF 3 \in fileRows THEN "file" ELSE "body"
         /\ served["/logo"] = IF 4 \in fileRows THEN "file" ELSE "body"
         /\ 3 \notin fileRows \/ 4 \notin fileRows => crashes >= 1
         /\ 3 \notin fileRows /\ 4 \notin fileRows => crashes >= 2
<1>1. served = Answers /\ step = 18
  BY SeedFacts DEF IInv
<1>2. /\ routeRow["/dbhello"] = 1 /\ routeRow["/dbtest"] = 2
      /\ routeRow["/banner"] = 3 /\ routeRow["/logo"] = 4
      /\ 1 \in fileRows /\ 2 \notin fileRows
  BY <1>1 DEF IInv, RoutesInv, FilesInv, NoRow
<1>3. /\ 3 \notin fileRows \/ 4 \notin fileRows => crashes >= 1
      /\ 3 \notin fileRows /\ 4 \notin fileRows => crashes >= 2
  BY <1>1, <1>2 DEF IInv, LossInv, BannerLost, LogoLost, NoRow
<1> QED
  BY <1>1, <1>2, <1>3 DEF Answers, Handlers, StoredRoutes, Paths, NoRow

\* Every server that gets to serve has /dbhello's file, after any history of
\* interrupted starts (main:86-126).
THEOREM HelloAlwaysHasItsFile == Spec => []HelloIsServedFromFile
<1>1. IInv => HelloIsServedFromFile
  BY ServingFacts DEF HelloIsServedFromFile
<1> QED
  BY <1>1, Invariant, PTL

\* After any number of starts of which any may have died anywhere, a server has
\* all the routes, and lacks at most as many files as there were crashes.
THEOREM CrashesCostLittle == Spec => []CrashesCostOneFileEach
<1>1. IInv => CrashesCostOneFileEach
  <2> SUFFICES ASSUME IInv, failed = 0, step = Serving
               PROVE  /\ \A p \in FilePaths : served[p] \in {"file", "body"}
                      /\ served["/dbtest"] = "body"
                      /\ Cardinality({p \in FilePaths : served[p] # "file"}) <= crashes
    BY DEF CrashesCostOneFileEach
  <2> DEFINE Lost == {p \in FilePaths : served[p] # "file"}
  <2>1. FilePaths = {"/dbhello", "/banner", "/logo"}
    BY DEF FilePaths, Paths
  <2>2. /\ \A p \in FilePaths : served[p] \in {"file", "body"}
        /\ served["/dbtest"] = "body"
    BY <2>1, ServingFacts
  <2>3. crashes \in Nat
    BY NumbersOK DEF IInv
  <2>4. CASE 3 \in fileRows /\ 4 \in fileRows
    <3>1. Lost = {}
      BY <2>1, <2>4, ServingFacts
    <3> QED
      BY <2>2, <2>3, <3>1, FS_EmptySet
  <2>5. CASE 3 \notin fileRows /\ 4 \in fileRows
    <3>1. Lost = {"/banner"} /\ crashes >= 1
      BY <2>1, <2>5, ServingFacts
    <3> QED
      BY <2>2, <2>3, <3>1, FS_Singleton
  <2>6. CASE 3 \in fileRows /\ 4 \notin fileRows
    <3>1. Lost = {"/logo"} /\ crashes >= 1
      BY <2>1, <2>6, ServingFacts
    <3> QED
      BY <2>2, <2>3, <3>1, FS_Singleton
  <2>7. CASE 3 \notin fileRows /\ 4 \notin fileRows
    <3> DEFINE Banner == {"/banner"}
               Both == Banner \cup {"/logo"}
    <3>1. Lost = Both /\ crashes >= 2
      BY <2>1, <2>7, ServingFacts
    <3>2. IsFiniteSet(Banner) /\ Cardinality(Banner) = 1
      BY FS_Singleton
    <3>3. IsFiniteSet(Both) /\ Cardinality(Both) = 2
      BY <3>2, FS_AddElement
    <3> QED
      BY <2>2, <2>3, <3>1, <3>3
  <2> QED
    BY <2>4, <2>5, <2>6, <2>7
<1> QED
  BY <1>1, Invariant, PTL

=============================================================================
