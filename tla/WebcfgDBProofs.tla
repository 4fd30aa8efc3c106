--------------------------- MODULE WebcfgDBProofs ----------------------------
(***************************************************************************)
(* Proofs about WebcfgDB, for any documents and any number of bundles,     *)
(* requests, resets and crashes: type correctness, and that no root        *)
(* version ever stands in memory or in the file without its bundle.        *)
(***************************************************************************)
EXTENDS WebcfgDB, FiniteSetTheorems, TLAPS

LEMMA PutType ==
  ASSUME NEW list \in DB, NEW n \in Names, NEW v \in Versions, NEW s \in Strings
  PROVE  Put(list, n, v, s) \in DB
  BY DEF DB, Put

LEMMA RootOfType ==
  ASSUME NEW list \in DB
  PROVE  RootOf(list) \in Versions
<1>1. list.ver["root"] \in Versions \cup {Absent}
  BY DEF DB, Names
<1> QED
  BY <1>1, BoundsAssumption DEF RootOf, Versions

LEMMA RootRecord ==
  ASSUME NEW str \in Strings, NEW v \in Versions, NEW d \in BOOLEAN
  PROVE  Root(str, v, d) \in RootReport /\ Root(str, v, d).ver = v
  BY DEF Root, RootReport

LEMMA DeriveType ==
  ASSUME NEW list \in DB, NEW r \in Reasons, NEW f \in BOOLEAN, NEW b \in BOOLEAN,
         NEW s
  PROVE  /\ DeriveRoot(r, f, list, b, s) \in RootReport
         /\ DeriveRoot(r, f, list, b, s).ver \in {0, RootOf(list)}
<1>1. RootOf(list) \in Versions /\ 0 \in Versions /\ list.str \in Strings
  BY RootOfType, BoundsAssumption DEF DB, Versions
<1>2. NoneFor(r) \in Strings /\ NoStr \in Strings /\ "POST-NONE" \in Strings
  BY DEF NoneFor, Strings, Nones, NoStr
<1>3. \A str \in Strings, v \in Versions, d \in BOOLEAN :
        Root(str, v, d) \in RootReport /\ Root(str, v, d).ver = v
  BY RootRecord
<1>4. \E str \in Strings, v \in {0, RootOf(list)}, d \in BOOLEAN :
        DeriveRoot(r, f, list, b, s) = Root(str, v, d)
  BY <1>1, <1>2 DEF DeriveRoot
<1> QED
  BY <1>1, <1>3, <1>4

LEMMA EmptyType == EmptyDB \in DB /\ NoRoot \in RootReport /\ NoRoot.ver = 0
  BY BoundsAssumption DEF EmptyDB, DB, NoRoot, Root, RootReport, Strings, NoStr, Absent,
     Versions

LEMMA MoveType ==
  ASSUME stage \in [Threads -> Places], NEW t \in Threads, NEW p \in Places, Move(t, p)
  PROVE  stage' \in [Threads -> Places]
  BY DEF Move

------------------------------------------------------------------------------
(* Type correctness, in parts.                                              *)

DBType     == /\ db \in DB /\ packed \in [Threads -> DB] /\ overlap \in BOOLEAN
              /\ file \in [state : {"none", "torn", "whole"}, db : DB]
              /\ saves \in {"good", "failed", "reread"}
RootType   == /\ reason \in Reasons /\ known \in BOOLEAN /\ resetOnce \in BOOLEAN
              /\ status \in {0, 200, 404} /\ derived \in RootReport
              /\ reported \in RootReport /\ syncs \in 0..MaxSyncs
BundleType == etag \in Versions /\ newest \in Versions /\ since \subseteq Versions
              /\ acked \subseteq Docs
ResetType  == void \subseteq Docs /\ todo \subseteq Names /\ resets \in 0..MaxResets
PlaceType  == stage \in [Threads -> Places] /\ crashes \in 0..MaxCrashes

LEMMA Parts ==
  /\ TypeOK <=> DBType /\ RootType /\ BundleType /\ ResetType /\ PlaceType
  /\ DBType' /\ RootType' /\ BundleType' /\ ResetType' /\ PlaceType' => TypeOK'
  BY DEF TypeOK, DBType, RootType, BundleType, ResetType, PlaceType

LEMMA DBKept == DBType /\ UNCHANGED dbVars => DBType'
  BY DEF DBType, dbVars
LEMMA RootKept == RootType /\ UNCHANGED rootVars => RootType'
  BY DEF RootType, rootVars
LEMMA BundleKept == BundleType /\ UNCHANGED bundleVars => BundleType'
  BY DEF BundleType, bundleVars
LEMMA ResetKept == ResetType /\ UNCHANGED resetVars => ResetType'
  BY DEF ResetType, resetVars
LEMMA PlaceKept ==
  ASSUME PlaceType, crashes' = crashes, NEW t \in Threads, NEW p \in Places, Move(t, p)
  PROVE  PlaceType'
  BY MoveType DEF PlaceType

LEMMA InitType == Init => TypeOK
<1> SUFFICES ASSUME Init PROVE TypeOK
  OBVIOUS
<1>1. DBType
  BY EmptyType DEF Init, DBType, NoFile
<1>2. RootType
  <2>1. derived \in RootReport /\ reported \in RootReport
    BY EmptyType DEF Init
  <2>2. known \in BOOLEAN /\ resetOnce \in BOOLEAN /\ reason \in Reasons
    BY DEF Init
  <2>3. status = 0 /\ syncs \in 0..MaxSyncs
    BY BoundsAssumption DEF Init
  <2> QED
    BY <2>1, <2>2, <2>3 DEF RootType
<1>3. BundleType /\ ResetType
  BY BoundsAssumption DEF Init, BundleType, ResetType, Versions
<1>4. PlaceType
  BY BoundsAssumption DEF Init, PlaceType, Places
<1> QED
  BY <1>1, <1>2, <1>3, <1>4, Parts

LEMMA SaveType ==
  ASSUME TypeOK, NEW t \in Threads, SaveStep(t)
  PROVE  TypeOK'
<1> USE Parts
<1>1. UNCHANGED <<rootVars, bundleVars, resetVars, crashes>>
  BY DEF SaveStep, Pack, Open, OpenFails, Write, WriteFails, Written
<1>2. PlaceType'
  <2>1. \E p \in {"open", "write", "idle", "saved"} : Move(t, p)
    BY DEF SaveStep, Pack, Open, OpenFails, Write, WriteFails, Written
  <2> QED
    BY <1>1, <2>1, PlaceKept DEF Places
<1>3. DBType'
  <2>1. CASE Pack(t)
    BY <2>1 DEF Pack, DBType
  <2>2. CASE Open(t)
    BY <2>2, EmptyType DEF Open, DBType, Torn
  <2>3. CASE Write(t)
    BY <2>3, EmptyType DEF Write, Written, DBType, Whole
  <2>4. CASE OpenFails(t) \/ WriteFails(t)
    BY <2>4, EmptyType DEF OpenFails, WriteFails, Written, Failed, DBType, Torn
  <2> QED
    BY <2>1, <2>2, <2>3, <2>4 DEF SaveStep
<1> QED
  BY <1>1, <1>2, <1>3, RootKept, BundleKept, ResetKept

\* What Derive computes, and what it leaves alone.
LEMMA DeriveStep ==
  ASSUME TypeOK, NEW s \in {0, 200, 404}, Derive(s)
  PROVE  /\ derived' \in RootReport /\ derived'.ver \in {0, RootOf(db)}
         /\ known' \in BOOLEAN /\ resetOnce' \in BOOLEAN /\ status' = s
         /\ Move("main", "derived") /\ reason' = reason
         /\ UNCHANGED <<dbVars, bundleVars, resetVars, crashes>>
<1>1. Move("main", "derived") /\ reason' = reason /\ status' = s
      /\ UNCHANGED <<dbVars, bundleVars, resetVars, crashes>>
  BY DEF Derive
<1>2. PICK k \in {known, TRUE} :
        /\ known' = k
        /\ derived' = IF k THEN DeriveRoot(reason, file.state # "none", db, resetOnce, s)
                           ELSE Root(NoStr, 0, resetOnce)
        /\ resetOnce' = derived'.done
  BY DEF Derive
<1>3. k \in BOOLEAN /\ known' \in BOOLEAN
  BY <1>2 DEF TypeOK
<1>4. derived' \in RootReport /\ derived'.ver \in {0, RootOf(db)}
  <2>1. db \in DB /\ reason \in Reasons /\ resetOnce \in BOOLEAN
        /\ (file.state # "none") \in BOOLEAN
    BY DEF TypeOK
  <2>2. CASE k
    <3>1. derived' = DeriveRoot(reason, file.state # "none", db, resetOnce, s)
      BY <1>2, <2>2
    <3>2. PICK f \in BOOLEAN : derived' = DeriveRoot(reason, f, db, resetOnce, s)
      BY <2>1, <3>1
    <3> QED
      BY <2>1, <3>2, DeriveType
  <2>3. CASE ~k
    <3>1. derived' = Root(NoStr, 0, resetOnce)
      BY <1>2, <2>3
    <3>2. NoStr \in Strings /\ 0 \in Versions
      BY BoundsAssumption DEF Strings, Versions
    <3> QED
      BY <2>1, <3>1, <3>2, RootRecord
  <2> QED
    BY <2>2, <2>3
<1>5. resetOnce' \in BOOLEAN
  BY <1>2, <1>4 DEF RootReport
<1> QED
  BY <1>1, <1>3, <1>4, <1>5

LEMMA MainType ==
  ASSUME TypeOK, MainStep
  PROVE  TypeOK'
<1> USE Parts
<1>0. "main" \in Threads /\ \A p \in {"derived", "saved", "pack", "sent", "idle"} : p \in Places
  BY DEF Threads, Places
<1>1. ASSUME NEW s \in {0, 200, 404}, Derive(s), reported' \in RootReport,
             syncs' \in 0..MaxSyncs
      PROVE  TypeOK'
  <2>1. RootType'
    BY <1>1, DeriveStep DEF RootType
  <2>2. PlaceType'
    BY <1>0, <1>1, DeriveStep, PlaceKept
  <2> QED
    BY <1>1, <2>1, <2>2, DeriveStep, DBKept, BundleKept, ResetKept
<1>2. CASE BeginSync
  BY <1>1, <1>2, BoundsAssumption DEF BeginSync, RootType
<1>3. CASE NoConfiguration
  BY <1>1, <1>3, EmptyType DEF NoConfiguration, RootType
<1>4. CASE StoreRoot
  <2>1. PlaceType'
    BY <1>0, <1>4, PlaceKept DEF StoreRoot
  <2>2. db' \in DB
    <3>1. derived.ver \in Versions /\ derived.str \in Strings /\ "root" \in Names
      BY DEF RootType, RootReport, Names
    <3> QED
      BY <1>4, <3>1, PutType DEF StoreRoot, DBType
  <2>3. DBType'
    BY <1>4, <2>2 DEF StoreRoot, DBType
  <2> QED
    BY <1>4, <2>1, <2>3, RootKept, BundleKept, ResetKept
       DEF StoreRoot
<1>5. CASE Send \/ Answered
  <2>1. PlaceType'
    BY <1>0, <1>5, PlaceKept DEF Send, Answered
  <2>2. RootType'
    BY <1>5, EmptyType DEF Send, Answered, RootType
  <2> QED
    BY <1>5, <2>1, <2>2, DBKept, BundleKept, ResetKept
       DEF Send, Answered
<1>6. CASE Bundle
  <2>1. PlaceType'
    BY <1>0, <1>6, PlaceKept DEF Bundle
  <2>2. newest' \in Versions /\ etag' = newest'
    BY <1>6, BoundsAssumption DEF Bundle, BundleType, Versions
  <2>3. BundleType'
    BY <1>6, <2>2 DEF Bundle, BundleType
  <2>4. ResetType'
    BY <1>6 DEF Bundle, ResetType
  <2>5. RootType'
    BY <1>6, EmptyType DEF Bundle, RootType
  <2> QED
    BY <1>6, <2>1, <2>3, <2>4, <2>5, DBKept DEF Bundle
<1> QED
  BY <1>2, <1>3, <1>4, <1>5, <1>6 DEF MainStep

LEMMA EventType ==
  ASSUME TypeOK, EventStep
  PROVE  TypeOK'
<1> USE Parts
<1>0. "event" \in Threads /\ \A p \in {"root", "pack"} : p \in Places
  BY DEF Threads, Places
<1>1. NoStr \in Strings /\ etag \in Versions
  BY DEF Strings, NoStr, BundleType
<1>2. ASSUME NEW d \in Docs, Ack(d)
      PROVE  TypeOK'
  <2>1. PlaceType'
    BY <1>0, <1>2, PlaceKept DEF Ack
  <2>2. db' \in DB
    BY <1>1, <1>2, PutType DEF Ack, DBType, Names
  <2>3. DBType' /\ BundleType'
    BY <1>2, <2>2 DEF Ack, DBType, BundleType
  <2> QED
    BY <1>2, <2>1, <2>3, RootKept, ResetKept DEF Ack
<1>3. CASE RecordRoot
  <2>1. PlaceType'
    BY <1>0, <1>3, PlaceKept DEF RecordRoot
  <2>2. db' \in DB
    <3>1. db' = Put(db, "root", etag, NoStr) /\ db \in DB /\ "root" \in Names
      BY <1>3 DEF RecordRoot, DBType, Names
    <3> QED
      BY <1>1, <3>1, PutType
  <2>3. DBType' /\ BundleType'
    BY <1>1, <1>3, <2>2 DEF RecordRoot, DBType, BundleType
  <2> QED
    BY <1>3, <2>1, <2>3, RootKept, ResetKept DEF RecordRoot
<1> QED
  BY <1>2, <1>3 DEF EventStep

LEMMA ResetStepType ==
  ASSUME TypeOK, ResetStep
  PROVE  TypeOK'
<1> USE Parts
<1>0. "rbus" \in Threads /\ \A p \in {"reset", "pack", "idle"} : p \in Places
  BY DEF Threads, Places
<1>1. ASSUME NEW docs \in SUBSET Docs, Reset(docs)
      PROVE  TypeOK'
  <2>1. PlaceType'
    BY <1>0, <1>1, PlaceKept DEF Reset
  <2>2. ResetType'
    BY <1>1, BoundsAssumption DEF Reset, ResetType, Names
  <2> QED
    BY <1>1, <2>1, <2>2, DBKept, RootKept, BundleKept
       DEF Reset
<1>2. ASSUME NEW n \in Names, ResetVersion(n)
      PROVE  TypeOK'
  <2>1. PlaceType'
    BY <1>0, <1>2, PlaceKept DEF ResetVersion
  <2>2. db' \in DB
    <3>1. db' = Put(db, n, 0, NoStr) /\ db \in DB
      BY <1>2 DEF ResetVersion, DBType
    <3>2. NoStr \in Strings /\ 0 \in Versions
      BY BoundsAssumption DEF Strings, Versions
    <3> QED
      BY <1>2, <3>1, <3>2, PutType
  <2>3. DBType'
    BY <1>2, <2>2 DEF ResetVersion, DBType
  <2> QED
    BY <1>2, <2>1, <2>3, RootKept, BundleKept, ResetKept
       DEF ResetVersion
<1>3. ASSUME NEW n \in Names, ResetTmp(n)
      PROVE  TypeOK'
  <2>1. PlaceType'
    BY <1>0, <1>3, PlaceKept DEF ResetTmp
  <2>2. ResetType'
    BY <1>3 DEF ResetTmp, ResetType
  <2> QED
    BY <1>3, <2>1, <2>2, DBKept, RootKept, BundleKept
       DEF ResetTmp
<1> QED
  BY <1>1, <1>2, <1>3 DEF ResetStep

LEMMA BootType ==
  ASSUME TypeOK, NEW f \in [state : {"none", "torn", "whole"}, db : DB],
         NEW r \in Reasons, Boot(f, r), since' \subseteq Versions
  PROVE  TypeOK'
<1>1. DBType'
  BY EmptyType DEF Boot, DBType
<1>2. RootType'
  BY EmptyType DEF Boot, RootType, TypeOK
<1>3. BundleType' /\ ResetType'
  BY BoundsAssumption DEF Boot, BundleType, ResetType, TypeOK, Versions
<1>4. PlaceType'
  <2>1. crashes' \in 0..MaxCrashes
    BY BoundsAssumption DEF Boot, TypeOK
  <2>2. stage' \in [Threads -> Places]
    BY DEF Boot, Places
  <2> QED
    BY <2>1, <2>2 DEF PlaceType
<1> QED
  BY <1>1, <1>2, <1>3, <1>4, Parts

LEMMA FaultType ==
  ASSUME TypeOK, Fault
  PROVE  TypeOK'
<1>1. file \in [state : {"none", "torn", "whole"}, db : DB]
      /\ NoFile \in [state : {"none", "torn", "whole"}, db : DB]
  BY EmptyType DEF TypeOK, NoFile
<1>2. CASE Restart \/ Reboot \/ FactoryReset \/ Upgrade
  <2>1. since' \subseteq Versions
    BY <1>2 DEF Restart, Reboot, FactoryReset, Upgrade, TypeOK
  <2>2. reason \in Reasons /\ "other" \in Reasons /\ "factory" \in Reasons
        /\ "upgrade" \in Reasons
    BY DEF TypeOK, Reasons
  <2> QED
    BY <1>1, <1>2, <2>1, <2>2, BootType DEF Restart, Reboot, FactoryReset, Upgrade
<1>3. CASE Reload
  <2> USE Parts
  <2>1. DBType'
    BY <1>3 DEF Reload, DBType
  <2>2. BundleType' /\ ResetType'
    BY <1>3, BoundsAssumption DEF Reload, BundleType, ResetType, Versions
  <2>3. PlaceType'
    BY <1>3, BoundsAssumption DEF Reload, PlaceType
  <2> QED
    BY <1>3, <2>1, <2>2, <2>3, RootKept DEF Reload
<1> QED
  BY <1>2, <1>3 DEF Fault

LEMMA NextType ==
  ASSUME TypeOK, [Next]_vars
  PROVE  TypeOK'
<1>1. CASE Next
  BY <1>1, SaveType, MainType, EventType, ResetStepType, FaultType DEF Next
<1>2. CASE UNCHANGED vars
  BY <1>2 DEF vars, dbVars, rootVars, bundleVars, resetVars, TypeOK
<1> QED
  BY <1>1, <1>2

\* Every variable keeps its type.
THEOREM TypeCorrect == Spec => []TypeOK
  BY InitType, NextType, PTL DEF Spec

------------------------------------------------------------------------------
(* Honesty. Beside RootHonest itself, what the invariant says of versions   *)
(* that are on their way into the list: that of the bundle whose documents  *)
(* are out, and that in the locals of the main thread.                      *)

Covers(v, list) == v > 0 => \A d \in Docs : list.ver[d] = 0 \/ list.ver[d] >= v
Old(list)       == \A n \in Names : list.ver[n] <= newest

ListsOld     == Old(db) /\ Old(file.db) /\ \A t \in Threads : Old(packed[t])
BundleNewest == etag \in {0, newest}
AckedCovered == \A d \in acked : db.ver[d] = 0 \/ db.ver[d] >= etag
RootWaits    == stage["event"] = "root" => acked = Docs
DerivedHonest == derived.ver <= newest /\ Covers(derived.ver, db)
NoneDerived  == stage["main"] \in {"idle", "sent"} => derived.ver = 0

Inv ==
  /\ TypeOK /\ RootHonest /\ ListsOld /\ BundleNewest /\ AckedCovered
  /\ RootWaits /\ DerivedHonest /\ NoneDerived

LEMMA VersionsOrdered == \A v \in Versions : v \in Nat /\ 0 <= v
  BY BoundsAssumption DEF Versions

LEMMA PutVersion ==
  ASSUME NEW list \in DB, NEW n \in Names, NEW w, NEW s
  PROVE  \A m \in Names : Put(list, n, w, s).ver[m] = IF m = n THEN w ELSE list.ver[m]
  BY DEF Put, DB

LEMMA DocsAreNames == \A d \in Docs : d \in Names /\ d # "root" /\ "root" \in Names
  BY RootAssumption DEF Names

LEMMA RootOfPut ==
  ASSUME NEW list \in DB, NEW n \in Names, NEW w \in Versions, NEW s
  PROVE  RootOf(Put(list, n, w, s)) = IF n = "root" THEN w ELSE RootOf(list)
<1>1. "root" \in Names /\ w # Absent
  BY VersionsOrdered DEF Names, Absent
<1>2. Put(list, n, w, s).ver["root"] = IF n = "root" THEN w ELSE list.ver["root"]
  BY <1>1, PutVersion
<1> QED
  BY <1>1, <1>2 DEF RootOf

\* Putting a version into the list uncovers nothing, unless the version is a lower
\* one of a document.
LEMMA CoversPut ==
  ASSUME NEW list \in DB, NEW v \in Versions, Covers(v, list), NEW n \in Names,
         NEW w \in Versions, NEW s, n = "root" \/ w = 0 \/ w >= v
  PROVE  Covers(v, Put(list, n, w, s))
  BY PutVersion, DocsAreNames DEF Covers

LEMMA HonestCovers == \A list : Honest(list) <=> Covers(RootOf(list), list)
  BY DEF Honest, Covers

LEMMA HonestPut ==
  ASSUME NEW list \in DB, Honest(list), NEW n \in Names, NEW w \in Versions, NEW s,
         n = "root" => Covers(w, list),
         n # "root" => w = 0 \/ w >= RootOf(list)
  PROVE  Honest(Put(list, n, w, s))
<1>1. RootOf(list) \in Versions /\ Covers(RootOf(list), list)
  BY RootOfType, HonestCovers
<1>2. CASE n = "root"
  BY <1>2, CoversPut, RootOfPut, HonestCovers
<1>3. CASE n # "root"
  BY <1>1, <1>3, CoversPut, RootOfPut, HonestCovers
<1> QED
  BY <1>2, <1>3

LEMMA EmptyHonest == Honest(EmptyDB) /\ (newest \in Versions => Old(EmptyDB))
<1>1. "root" \in Names /\ \A n \in Names : EmptyDB.ver[n] = Absent
  BY DEF EmptyDB, Names
<1>2. RootOf(EmptyDB) = 0
  BY <1>1 DEF RootOf
<1> QED
  BY <1>1, <1>2, VersionsOrdered DEF Honest, Old, Absent

LEMMA InitInv == Init => Inv
<1> SUFFICES ASSUME Init PROVE Inv
  OBVIOUS
<1>1. TypeOK /\ newest \in Versions
  BY InitType DEF TypeOK
<1>2. db = EmptyDB /\ file.db = EmptyDB /\ \A t \in Threads : packed[t] = EmptyDB
  BY DEF Init, NoFile
<1>3. RootHonest /\ ListsOld
  BY <1>1, <1>2, EmptyHonest DEF RootHonest, ListsOld
<1>4. derived.ver = 0 /\ newest = 0 /\ etag = 0 /\ acked = {}
  BY EmptyType DEF Init
<1>5. stage["event"] = "idle"
  BY DEF Init, Threads
<1> QED
  BY <1>1, <1>3, <1>4, <1>5
     DEF Inv, BundleNewest, AckedCovered, RootWaits, DerivedHonest, NoneDerived, Covers

\* What the rest of the invariant says after a step, in terms of what is enough to
\* know of the step.
LEMMA PlacesMove ==
  ASSUME Inv, NEW t \in Threads, NEW p, Move(t, p)
  PROVE  /\ /\ t = "event" /\ p = "root" => acked' = Docs
            /\ t # "event" => acked' = acked
            => RootWaits'
         /\ /\ t = "main" /\ p \in {"idle", "sent"} => derived'.ver = 0
            /\ t = "main" \/ derived' = derived
            => NoneDerived'
<1>1. /\ stage'["event"] = IF t = "event" THEN p ELSE stage["event"]
      /\ stage'["main"] = IF t = "main" THEN p ELSE stage["main"]
  BY DEF Move, Inv, TypeOK, Threads
<1> QED
  BY <1>1 DEF Inv, RootWaits, NoneDerived

LEMMA SaveInv ==
  ASSUME Inv, NEW t \in Threads, SaveStep(t)
  PROVE  Inv'
<1>1. TypeOK'
  BY SaveType DEF Inv
<1>2. UNCHANGED <<db, derived, newest, etag, acked>>
  BY DEF SaveStep, Pack, Open, OpenFails, Write, WriteFails, Written, rootVars, bundleVars
<1>3. RootWaits' /\ NoneDerived'
  <2>1. PICK p \in {"open", "write", "idle", "saved"} : Move(t, p) /\ (p = "idle" => t = "event")
    BY DEF SaveStep, Pack, Open, OpenFails, Write, WriteFails, Written
  <2>2. t = "event" => t # "main"
    OBVIOUS
  <2> QED
    BY <1>2, <2>1, <2>2, PlacesMove
<1>4. Honest(EmptyDB) /\ Old(EmptyDB) /\ packed \in [Threads -> DB]
  BY EmptyHonest DEF Inv, TypeOK
<1>5. /\ file'.db \in {file.db, EmptyDB, packed[t]}
      /\ \A u \in Threads : packed'[u] \in {packed[u], EmptyDB, db}
  BY <1>4 DEF SaveStep, Pack, Open, OpenFails, Write, WriteFails, Written, Torn, Whole
<1>6. RootHonest'
  BY <1>2, <1>4, <1>5 DEF Inv, RootHonest
<1>7. ListsOld'
  BY <1>2, <1>4, <1>5 DEF Inv, ListsOld, Old
<1>8. BundleNewest' /\ AckedCovered' /\ DerivedHonest'
  BY <1>2 DEF Inv, BundleNewest, AckedCovered, DerivedHonest, Covers
<1> QED
  BY <1>1, <1>3, <1>6, <1>7, <1>8 DEF Inv

\* A step that puts one version into the list in memory.
LEMMA PutInv ==
  ASSUME Inv, NEW n \in Names, NEW w \in Versions, NEW s, w <= newest,
         db' = Put(db, n, w, s), UNCHANGED <<file, packed, newest, derived>>,
         n = "root" => Covers(w, db),
         n # "root" => w = 0 \/ w = newest
  PROVE  /\ RootHonest' /\ ListsOld' /\ DerivedHonest'
         /\ \A v \in Versions : v <= newest /\ Covers(v, db) => Covers(v, db')
<1>0. /\ db \in DB /\ newest \in Versions /\ derived.ver \in Versions
      /\ RootOf(db) \in Versions /\ \A m \in Names : db.ver[m] <= newest
  BY RootOfType DEF Inv, TypeOK, RootReport, ListsOld, Old
<1>1. RootOf(db) <= newest
  BY <1>0, VersionsOrdered, DocsAreNames DEF RootOf, Names
<1>2. Honest(db')
  BY <1>0, <1>1, HonestPut DEF Inv, RootHonest
<1>3. RootHonest'
  BY <1>2 DEF Inv, RootHonest
<1>4. ListsOld'
  BY <1>0, PutVersion DEF Inv, ListsOld, Old
<1>5. ASSUME NEW v \in Versions, v <= newest, Covers(v, db)
      PROVE  Covers(v, db')
  BY <1>0, <1>5, CoversPut
<1>6. DerivedHonest'
  BY <1>0, <1>5 DEF Inv, DerivedHonest
<1> QED
  BY <1>3, <1>4, <1>5, <1>6

LEMMA MainInv ==
  ASSUME Inv, MainStep
  PROVE  Inv'
<1>0. TypeOK' /\ TypeOK
  BY MainType DEF Inv
<1>1. ASSUME NEW s \in {0, 200, 404}, Derive(s)
      PROVE  Inv'
  <2>1. /\ derived'.ver \in {0, RootOf(db)} /\ Move("main", "derived")
        /\ UNCHANGED <<dbVars, bundleVars, resetVars, crashes>>
    BY <1>0, <1>1, DeriveStep
  <2>2. UNCHANGED <<db, file, packed, newest, etag, acked>>
    BY <2>1 DEF dbVars, bundleVars
  <2>3. RootHonest' /\ ListsOld' /\ BundleNewest' /\ AckedCovered'
    BY <2>2 DEF Inv, RootHonest, ListsOld, Old, BundleNewest, AckedCovered
  <2>4. RootOf(db) <= newest /\ 0 <= newest /\ Covers(RootOf(db), db) /\ Covers(0, db)
    <3>1. Covers(RootOf(db), db) /\ Covers(0, db)
      BY HonestCovers DEF Inv, RootHonest, Covers
    <3>2. db.ver["root"] <= newest /\ 0 <= newest
      BY <1>0, VersionsOrdered DEF Inv, ListsOld, Old, Names, TypeOK
    <3> QED
      BY <3>1, <3>2 DEF RootOf
  <2>5. DerivedHonest'
    BY <2>1, <2>2, <2>4 DEF DerivedHonest, Covers
  <2>6. RootWaits' /\ NoneDerived'
    BY <2>1, <2>2, PlacesMove DEF Threads
  <2> QED
    BY <1>0, <2>3, <2>5, <2>6 DEF Inv
<1>2. CASE BeginSync
  BY <1>1, <1>2 DEF BeginSync
<1>3. CASE NoConfiguration
  BY <1>1, <1>3 DEF NoConfiguration
<1>4. CASE StoreRoot
  <2>1. UNCHANGED <<file, packed, newest, etag, acked, derived>>
    BY <1>4 DEF StoreRoot, rootVars, bundleVars
  <2>2. RootWaits' /\ NoneDerived' /\ BundleNewest'
    <3>1. PICK p \in {"saved", "pack"} : Move("main", p)
      BY <1>4 DEF StoreRoot
    <3> QED
      BY <2>1, <3>1, PlacesMove DEF Threads, Inv, BundleNewest
  <2>3. CASE db' = db
    BY <1>0, <2>1, <2>2, <2>3
       DEF Inv, RootHonest, ListsOld, Old, AckedCovered, DerivedHonest, Covers
  <2>4. CASE db' = Put(db, "root", derived.ver, derived.str)
    <3>1. /\ derived.ver \in Versions /\ derived.ver <= newest /\ "root" \in Names
          /\ Covers(derived.ver, db) /\ db \in DB
      BY <1>0 DEF Inv, DerivedHonest, TypeOK, RootReport, Names
    <3>2. RootHonest' /\ ListsOld' /\ DerivedHonest'
      BY <2>1, <2>4, <3>1, PutInv
    <3>3. \A d \in Docs : db'.ver[d] = db.ver[d]
      BY <2>4, <3>1, PutVersion, DocsAreNames
    <3>4. AckedCovered'
      BY <1>0, <2>1, <3>3 DEF Inv, AckedCovered, TypeOK
    <3> QED
      BY <1>0, <2>2, <3>2, <3>4 DEF Inv
  <2> QED
    BY <1>4, <2>3, <2>4 DEF StoreRoot
<1>5. CASE Send \/ Answered
  <2>1. UNCHANGED <<db, file, packed, newest, etag, acked>> /\ derived'.ver = 0
    BY <1>5, EmptyType DEF Send, Answered, dbVars, bundleVars
  <2>2. RootWaits' /\ NoneDerived'
    <3>1. PICK p \in {"sent", "idle"} : Move("main", p)
      BY <1>5 DEF Send, Answered
    <3> QED
      BY <2>1, <3>1, PlacesMove DEF Threads
  <2>3. 0 <= newest
    BY <1>0, VersionsOrdered DEF TypeOK
  <2> QED
    BY <1>0, <2>1, <2>2, <2>3
       DEF Inv, RootHonest, ListsOld, Old, BundleNewest, AckedCovered, DerivedHonest, Covers
<1>6. CASE Bundle
  <2>1. /\ UNCHANGED <<db, file, packed, derived>> /\ Move("main", "idle")
        /\ newest' = newest + 1 /\ etag' = newest' /\ acked' = {}
        /\ stage["main"] = "sent" /\ stage["event"] = "idle"
    BY <1>6 DEF Bundle, dbVars
  <2>2. newest \in Nat /\ derived.ver \in Nat /\ derived.ver = 0
    BY <1>0, <2>1, VersionsOrdered DEF TypeOK, RootReport, Inv, NoneDerived
  <2>3. stage'["event"] = "idle" /\ NoneDerived'
    BY <1>0, <2>1, <2>2 DEF Move, Threads, TypeOK, NoneDerived
  <2>4. ASSUME NEW list \in DB, Old(list)
        PROVE  \A n \in Names : list.ver[n] <= newest'
    BY <2>1, <2>2, <2>4, VersionsOrdered DEF Old, DB, Absent
  <2>5. ListsOld'
    <3>1. /\ db \in DB /\ file.db \in DB /\ \A t \in Threads : packed[t] \in DB
          /\ Old(db) /\ Old(file.db) /\ \A t \in Threads : Old(packed[t])
      BY <1>0 DEF TypeOK, Inv, ListsOld
    <3> QED
      BY <2>1, <2>4, <3>1 DEF ListsOld, Old
  <2>6. RootHonest' /\ DerivedHonest'
    BY <2>1, <2>2 DEF Inv, RootHonest, DerivedHonest, Covers
  <2> QED
    BY <1>0, <2>1, <2>3, <2>5, <2>6 DEF Inv, BundleNewest, AckedCovered, RootWaits
<1> QED
  BY <1>2, <1>3, <1>4, <1>5, <1>6 DEF MainStep

LEMMA EventInv ==
  ASSUME Inv, EventStep
  PROVE  Inv'
<1>0. TypeOK' /\ TypeOK /\ etag \in Versions /\ newest \in Versions /\ db \in DB
  BY EventType DEF Inv, TypeOK
<1>1. UNCHANGED <<file, packed, newest, etag, derived>>
  BY DEF EventStep, Ack, RecordRoot, rootVars
<1>2. ASSUME NEW d \in Docs, Ack(d)
      PROVE  Inv'
  <2>1. /\ etag = newest /\ db' = Put(db, d, etag, NoStr) /\ acked' = acked \cup {d}
        /\ d \in Names /\ d # "root" /\ etag <= newest
    BY <1>0, <1>2, DocsAreNames, VersionsOrdered DEF Ack, Inv, BundleNewest
  <2>2. RootHonest' /\ ListsOld' /\ DerivedHonest'
    BY <1>0, <1>1, <2>1, PutInv
  <2>3. AckedCovered'
    <3>1. \A e \in Docs : db'.ver[e] = IF e = d THEN etag ELSE db.ver[e]
      BY <1>0, <2>1, PutVersion, DocsAreNames
    <3> QED
      BY <1>0, <1>1, <2>1, <3>1, VersionsOrdered DEF Inv, AckedCovered, TypeOK
  <2>4. RootWaits' /\ NoneDerived'
    <3>1. PICK p \in {"root", "pack"} : Move("event", p) /\ (p = "root" => acked' = Docs)
      BY <1>2 DEF Ack
    <3> QED
      BY <1>1, <3>1, PlacesMove DEF Threads
  <2> QED
    BY <1>0, <1>1, <2>2, <2>3, <2>4 DEF Inv, BundleNewest
<1>3. CASE RecordRoot
  <2>1. /\ db' = Put(db, "root", etag, NoStr) /\ acked' = acked /\ "root" \in Names
        /\ etag <= newest /\ stage["event"] = "root"
    BY <1>0, <1>3, DocsAreNames, VersionsOrdered DEF RecordRoot, Inv, BundleNewest, Names
  <2>2. Covers(etag, db)
    BY <2>1 DEF Inv, RootWaits, AckedCovered, Covers
  <2>3. RootHonest' /\ ListsOld' /\ DerivedHonest'
    BY <1>0, <1>1, <2>1, <2>2, PutInv
  <2>4. AckedCovered'
    <3>1. \A e \in Docs : db'.ver[e] = db.ver[e]
      BY <1>0, <2>1, PutVersion, DocsAreNames
    <3> QED
      BY <1>0, <1>1, <2>1, <3>1 DEF Inv, AckedCovered, TypeOK
  <2>5. RootWaits' /\ NoneDerived'
    BY <1>1, <1>3, <2>1, PlacesMove DEF RecordRoot, Threads
  <2> QED
    BY <1>0, <1>1, <2>3, <2>4, <2>5 DEF Inv, BundleNewest
<1> QED
  BY <1>2, <1>3 DEF EventStep

LEMMA ResetInv ==
  ASSUME Inv, ResetStep
  PROVE  Inv'
<1>0. TypeOK' /\ TypeOK /\ etag \in Versions /\ newest \in Versions /\ db \in DB
  BY ResetStepType DEF Inv, TypeOK
<1>1. UNCHANGED <<file, packed, newest, etag, acked, derived>>
  BY DEF ResetStep, Reset, ResetVersion, ResetTmp, dbVars, rootVars, bundleVars
<1>2. RootWaits' /\ NoneDerived'
  <2>1. \E p : Move("rbus", p)
    BY DEF ResetStep, Reset, ResetVersion, ResetTmp
  <2> QED
    BY <1>1, <2>1, PlacesMove DEF Threads
<1>3. CASE db' = db
  BY <1>0, <1>1, <1>2, <1>3
     DEF Inv, RootHonest, ListsOld, Old, BundleNewest, AckedCovered, DerivedHonest, Covers
<1>4. ASSUME NEW n \in Names, db' = Put(db, n, 0, NoStr)
      PROVE  Inv'
  <2>1. 0 \in Versions /\ 0 <= newest /\ Covers(0, db)
    BY <1>0, VersionsOrdered, BoundsAssumption DEF Covers, Versions
  <2>2. RootHonest' /\ ListsOld' /\ DerivedHonest'
    BY <1>0, <1>1, <1>4, <2>1, PutInv
  <2>3. AckedCovered'
    <3>1. \A e \in Docs : db'.ver[e] \in {0, db.ver[e]}
      BY <1>0, <1>4, PutVersion, DocsAreNames
    <3> QED
      BY <1>0, <1>1, <3>1 DEF Inv, AckedCovered, TypeOK
  <2> QED
    BY <1>0, <1>1, <1>2, <2>2, <2>3 DEF Inv, BundleNewest
<1> QED
  BY <1>3, <1>4 DEF ResetStep, Reset, ResetVersion, ResetTmp, dbVars

LEMMA FaultInv ==
  ASSUME Inv, Fault
  PROVE  Inv'
<1>0. TypeOK' /\ TypeOK /\ newest \in Versions
  BY FaultType DEF Inv, TypeOK
<1>1. /\ newest' = newest /\ etag' = 0 /\ acked' = {} /\ derived'.ver = 0
      /\ db' = file'.db /\ file'.db \in {file.db, EmptyDB}
      /\ (packed' = packed \/ packed' = [t \in Threads |-> EmptyDB])
      /\ stage'["event"] = "idle"
  <2>1. CASE Restart \/ Reboot \/ FactoryReset \/ Upgrade
    BY <2>1, EmptyType
       DEF Restart, Reboot, FactoryReset, Upgrade, Boot, NoFile, Threads
  <2>2. CASE Reload
    BY <2>2 DEF Reload, rootVars, Threads, Inv, NoneDerived
  <2> QED
    BY <2>1, <2>2 DEF Fault
<1>2. Honest(EmptyDB) /\ Old(EmptyDB) /\ 0 <= newest
  BY <1>0, EmptyHonest, VersionsOrdered
<1>3. RootHonest'
  BY <1>1, <1>2 DEF Inv, RootHonest
<1>4. ListsOld'
  BY <1>1, <1>2 DEF Inv, ListsOld, Old
<1> QED
  BY <1>0, <1>1, <1>2, <1>3, <1>4
     DEF Inv, BundleNewest, AckedCovered, RootWaits, DerivedHonest, NoneDerived, Covers

LEMMA NextInv ==
  ASSUME Inv, [Next]_vars
  PROVE  Inv'
<1>1. CASE Next
  BY <1>1, SaveInv, MainInv, EventInv, ResetInv, FaultInv DEF Next
<1>2. CASE UNCHANGED vars
  <2>1. TypeOK'
    BY <1>2, NextType DEF Inv
  <2> QED
    BY <1>2, <2>1
       DEF vars, dbVars, rootVars, bundleVars, Inv, RootHonest, ListsOld, Old,
           BundleNewest, AckedCovered, RootWaits, DerivedHonest, NoneDerived, Covers
<1> QED
  BY <1>1, <1>2

\* No root version ever stands, in memory, in the file or in what is about to be
\* written, without the documents of its bundle (RootHonest), whatever the
\* interleaving of the three threads and wherever a crash falls.
THEOREM RootHonestCorrect == Spec => []RootHonest
<1>1. Inv => RootHonest
  BY DEF Inv
<1> QED
  BY <1>1, InitInv, NextInv, PTL DEF Spec

------------------------------------------------------------------------------
(* Saving. A list is written by one thread at a time, and unless it is      *)
(* about to be packed once more, what is being written, or else the file,   *)
(* is the list. Two threads that save at once (overlap) are excepted, and   *)
(* the file after a save that has failed.                                   *)

Writing(t) == stage[t] \in {"open", "write"}
OneWriter  == \A t, u \in Threads : Writing(t) /\ Writing(u) => t = u
Unpacked   == stage["event"] = "root" \/ \E t \in Threads : stage[t] = "pack"
UpToDate   ==
  /\ \A t \in Threads : Writing(t) => packed[t] = db
  /\ saves = "good" /\ (\A t \in Threads : ~Writing(t)) => db = file.db

SavedInv == ~overlap => OneWriter /\ (Unpacked \/ UpToDate)

LEMMA StageMove ==
  ASSUME TypeOK, NEW t \in Threads, NEW p, Move(t, p)
  PROVE  \A u \in Threads : stage'[u] = IF u = t THEN p ELSE stage[u]
  BY DEF TypeOK, Move

\* A step of a thread that is not saving: if it changes the list, it is about to be
\* packed, or root is to follow.
LEMMA ChangeSaved ==
  ASSUME TypeOK, SavedInv, NEW t \in Threads, NEW p, Move(t, p),
         UNCHANGED <<file, packed, overlap, saves>>,
         ~Writing(t), p \notin {"open", "write"},
         stage[t] \in {"pack", "root"} => p = "pack",
         db' = db \/ p = "pack" \/ (t = "event" /\ p = "root")
  PROVE  SavedInv'
<1>1. \A u \in Threads : stage'[u] = IF u = t THEN p ELSE stage[u]
  BY StageMove
<1>2. \A u \in Threads : Writing(u)' <=> Writing(u)
  BY <1>1 DEF Writing
<1>3. OneWriter => OneWriter'
  BY <1>2 DEF OneWriter
<1>4. "event" \in Threads
  BY DEF Threads
<1>5. Unpacked => Unpacked'
  BY <1>1, <1>4 DEF Unpacked
<1>6. db' # db => Unpacked'
  BY <1>1, <1>4 DEF Unpacked
<1>7. db' = db /\ UpToDate => UpToDate'
  BY <1>2 DEF UpToDate
<1> QED
  BY <1>3, <1>5, <1>6, <1>7 DEF SavedInv

LEMMA SaveSaved ==
  ASSUME TypeOK, SavedInv, NEW t \in Threads, SaveStep(t)
  PROVE  SavedInv'
<1> SUFFICES ASSUME ~overlap' PROVE OneWriter' /\ (Unpacked' \/ UpToDate')
  BY DEF SavedInv
<1>1. OneWriter /\ (Unpacked \/ UpToDate) /\ db' = db
  BY DEF SaveStep, Pack, Open, OpenFails, Write, WriteFails, Written, SavedInv
<1>2. CASE Pack(t)
  <2>1. \A u \in Threads : stage'[u] = IF u = t THEN "open" ELSE stage[u]
    BY <1>2, StageMove DEF Pack
  <2>2. \A u \in Threads : Writing(u)' => u = t
    BY <1>2, <2>1 DEF Pack, Writing
  <2>3. OneWriter'
    BY <2>2 DEF OneWriter
  <2>4. packed'[t] = db
    BY <1>2 DEF Pack, TypeOK
  <2>5. UpToDate'
    BY <1>1, <2>1, <2>2, <2>4 DEF UpToDate, Writing
  <2> QED
    BY <2>3, <2>5
<1>3. CASE Open(t)
  <2>1. \A u \in Threads : stage'[u] = IF u = t THEN "write" ELSE stage[u]
    BY <1>3, StageMove DEF Open
  <2>2. \A u \in Threads : Writing(u)' <=> Writing(u)
    BY <1>3, <2>1 DEF Open, Writing
  <2>3. OneWriter' /\ Writing(t)
    BY <1>1, <1>3, <2>2 DEF OneWriter, Open, Writing
  <2>4. Unpacked => Unpacked'
    BY <1>3, <2>1 DEF Unpacked, Open, Threads
  <2>5. UpToDate => UpToDate'
    BY <1>1, <1>3, <2>2, <2>3 DEF UpToDate, Open
  <2> QED
    BY <1>1, <2>3, <2>4, <2>5
<1>4. CASE Write(t)
  <2>1. PICK p \in {"idle", "saved"} :
          \A u \in Threads : stage'[u] = IF u = t THEN p ELSE stage[u]
    BY <1>4, StageMove DEF Write, Written
  <2>2. Writing(t) /\ \A u \in Threads : Writing(u)' => Writing(u) /\ u # t
    BY <1>4, <2>1 DEF Write, Writing
  <2>3. \A u \in Threads : ~Writing(u)'
    BY <1>1, <2>2 DEF OneWriter
  <2>4. OneWriter'
    BY <2>3 DEF OneWriter
  <2>5. Unpacked => Unpacked'
    BY <1>4, <2>1 DEF Unpacked, Write, Threads
  <2>6. UpToDate => UpToDate'
    BY <1>1, <1>4, <2>2, <2>3 DEF UpToDate, Write, Written, Whole
  <2> QED
    BY <1>1, <2>4, <2>5, <2>6
<1>5. CASE OpenFails(t) \/ WriteFails(t)
  <2>1. PICK p \in {"idle", "saved"} :
          \A u \in Threads : stage'[u] = IF u = t THEN p ELSE stage[u]
    BY <1>5, StageMove DEF OpenFails, WriteFails, Written
  <2>2. Writing(t) /\ \A u \in Threads : Writing(u)' => Writing(u) /\ u # t
    BY <1>5, <2>1 DEF OpenFails, WriteFails, Writing
  <2>3. \A u \in Threads : ~Writing(u)'
    BY <1>1, <2>2 DEF OneWriter
  <2>4. Unpacked => Unpacked'
    BY <1>5, <2>1 DEF Unpacked, OpenFails, WriteFails, Threads
  <2>5. saves' # "good"
    BY <1>5 DEF OpenFails, WriteFails, Failed
  <2> QED
    BY <1>1, <2>3, <2>4, <2>5 DEF OneWriter, UpToDate
<1> QED
  BY <1>2, <1>3, <1>4, <1>5 DEF SaveStep

LEMMA NextSaved ==
  ASSUME TypeOK, SavedInv, [Next]_vars
  PROVE  SavedInv'
<1>1. CASE \E t \in Threads : SaveStep(t)
  BY <1>1, SaveSaved
<1>2. CASE MainStep
  <2>1. ASSUME NEW s \in {0, 200, 404}, Derive(s), stage["main"] \in {"idle", "sent"}
        PROVE  SavedInv'
    BY <2>1, ChangeSaved DEF Derive, dbVars, Threads, Writing
  <2>2. CASE BeginSync \/ NoConfiguration
    BY <2>1, <2>2 DEF BeginSync, NoConfiguration
  <2>3. CASE StoreRoot
    BY <2>3, ChangeSaved DEF StoreRoot, Threads, Writing
  <2>4. CASE Send
    BY <2>4, ChangeSaved DEF Send, dbVars, Threads, Writing
  <2>5. CASE Answered
    BY <2>5, ChangeSaved DEF Answered, dbVars, Threads, Writing
  <2>6. CASE Bundle
    BY <2>6, ChangeSaved DEF Bundle, dbVars, Threads, Writing
  <2> QED
    BY <1>2, <2>2, <2>3, <2>4, <2>5, <2>6 DEF MainStep
<1>3. CASE EventStep
  <2>1. CASE \E d \in Docs : Ack(d)
    BY <2>1, ChangeSaved DEF Ack, Threads, Writing
  <2>2. CASE RecordRoot
    BY <2>2, ChangeSaved DEF RecordRoot, Threads, Writing
  <2> QED
    BY <1>3, <2>1, <2>2 DEF EventStep
<1>4. CASE ResetStep
  <2>1. ASSUME NEW docs, Reset(docs) PROVE SavedInv'
    BY <2>1, ChangeSaved DEF Reset, dbVars, Threads, Writing
  <2>2. ASSUME NEW n, ResetVersion(n) PROVE SavedInv'
    BY <2>2, ChangeSaved DEF ResetVersion, Threads, Writing
  <2>3. ASSUME NEW n, ResetTmp(n) PROVE SavedInv'
    BY <2>3, ChangeSaved DEF ResetTmp, dbVars, Threads, Writing
  <2> QED
    BY <1>4, <2>1, <2>2, <2>3 DEF ResetStep
<1>5. CASE Fault
  <2>1. db' = file'.db /\ \A t \in Threads : stage'[t] = "idle"
    BY <1>5 DEF Fault, Restart, Reboot, FactoryReset, Upgrade, Boot, Reload
  <2>2. OneWriter' /\ UpToDate'
    BY <2>1 DEF OneWriter, UpToDate, Writing
  <2> QED
    BY <2>2 DEF SavedInv
<1>6. CASE UNCHANGED vars
  BY <1>6 DEF vars, dbVars, SavedInv, OneWriter, Unpacked, UpToDate, Writing
<1> QED
  BY <1>1, <1>2, <1>3, <1>4, <1>5, <1>6 DEF Next

\* What the list says is in the file once nobody is saving it, unless two threads have
\* been saving it at once or the last save failed (Persisted), for any number of resets,
\* crashes and bundles and wherever fopen and fwrite fail.
THEOREM PersistedCorrect == Spec => []Persisted
<1>1. Init => SavedInv
  BY DEF Init, SavedInv, OneWriter, UpToDate, Writing, NoFile
<1>2. SavedInv => Persisted
  BY DEF SavedInv, Persisted, Quiet, Saving, Unpacked, UpToDate, Writing
<1> QED
  BY <1>1, <1>2, TypeCorrect, NextSaved, PTL DEF Spec

------------------------------------------------------------------------------
(* Upgrades. A root version is fresh if it is 0 or has been recorded since  *)
(* the upgrade. While that of the list is not, nobody has done anything     *)
(* that a request must come before; and once it is, nothing brings an older *)
(* one back: neither bytes on their way to the file nor, when all is saved, *)
(* the file. A save that has failed keeps an older one in the file, which   *)
(* does no harm unless the list is read again.                              *)

Recorded    == since \cup {0}
Fresh(list) == RootOf(list) \in Recorded

Untouched ==
  /\ etag = 0 /\ stage["event"] = "idle"
  /\ stage["main"] \in {"idle", "derived"}
  /\ stage["rbus"] \in {"idle", "reset"}
  /\ stage["rbus"] = "reset" => "root" \in todo
  /\ resetOnce => stage["main"] = "derived"

ToldFresh  == /\ derived.ver \in Recorded
              /\ stage["main"] = "sent" => reported.ver \in Recorded
BytesFresh == \A t \in Threads : Fresh(packed[t])
ListFresh  == ~Fresh(db) => Untouched
FileFresh  ==
  Fresh(db) /\ ~Fresh(file.db) => saves = "failed" \/ \E t \in Threads : Saving(t)

UpgradeInv ==
  reason = "upgrade" /\ saves # "reread" => ToldFresh /\ BytesFresh /\ ListFresh /\ FileFresh

LEMMA EmptyFresh == Fresh(EmptyDB)
  BY DEF Fresh, Recorded, RootOf, EmptyDB, Names

LEMMA PutFresh ==
  ASSUME NEW list \in DB, NEW n \in Names, NEW w \in Versions, NEW s,
         IF n = "root" THEN w \in Recorded ELSE Fresh(list)
  PROVE  Fresh(Put(list, n, w, s))
  BY RootOfPut DEF Fresh

\* A list with a root version has another document, too.
LEMMA RootNotAlone ==
  ASSUME NEW list \in DB, Honest(list), RootOf(list) # 0
  PROVE  SizeOf(list) > 1
<1> DEFINE Listed == {n \in Names : list.ver[n] # Absent}
<1>1. PICK d \in Docs : TRUE
  BY RootAssumption
<1>2. RootOf(list) \in Versions /\ RootOf(list) > 0
  BY RootOfType, VersionsOrdered
<1>3. list.ver[d] # Absent /\ d \in Names /\ d # "root" /\ "root" \in Names
  BY <1>1, <1>2, DocsAreNames, VersionsOrdered DEF Honest, Absent
<1>4. list.ver["root"] # Absent
  BY <1>2 DEF RootOf
<1>5. {"root", d} \in SUBSET Listed
  BY <1>3, <1>4
<1>6. IsFiniteSet(Listed)
  <2>1. IsFiniteSet(Names)
    BY RootAssumption, FS_AddElement DEF Names
  <2> QED
    BY <2>1, FS_Subset
<1>7. Cardinality({"root", d}) = 2
  <2>1. IsFiniteSet({d}) /\ Cardinality({d}) = 1 /\ "root" \notin {d}
    BY <1>3, FS_Singleton
  <2>2. Cardinality({d} \cup {"root"}) = 2
    BY <2>1, FS_AddElement
  <2>3. {d} \cup {"root"} = {"root", d}
    OBVIOUS
  <2> QED
    BY <2>2, <2>3
<1>8. Cardinality(Listed) \in Nat /\ 2 <= Cardinality(Listed)
  BY <1>5, <1>6, <1>7, FS_Subset, FS_CardinalityType
<1> QED
  BY <1>8 DEF SizeOf

\* What is derived is fresh: from a list that is not, the first time after an upgrade,
\* root 0.
LEMMA DeriveFresh ==
  ASSUME Inv, UpgradeInv, reason = "upgrade", saves # "reread", NEW s \in {0, 200, 404}, Derive(s),
         stage["main"] \in {"idle", "sent"}
  PROVE  derived'.ver \in Recorded
<1>1. TypeOK
  BY DEF Inv
<1>2. derived'.ver \in {0, RootOf(db)} /\ 0 \in Recorded
  BY <1>1, DeriveStep DEF Recorded
<1>3. CASE Fresh(db)
  BY <1>2, <1>3 DEF Fresh
<1>4. CASE ~Fresh(db)
  <2>1. resetOnce = FALSE /\ stage["main"] = "idle"
    <3>1. resetOnce \in BOOLEAN
      BY <1>1 DEF TypeOK
    <3>2. Untouched
      BY <1>4 DEF UpgradeInv, ListFresh
    <3> QED
      BY <3>1, <3>2 DEF Untouched
  <2>2. RootOf(db) # 0
    BY <1>4 DEF Fresh, Recorded
  <2>3. db \in DB /\ Honest(db)
    BY <1>1 DEF TypeOK, Inv, RootHonest
  <2>4. SizeOf(db) > 1
    BY <2>2, <2>3, RootNotAlone
  <2>5. DeriveRoot(reason, file.state # "none", db, resetOnce, s).ver = 0
    BY <2>1, <2>2, <2>4 DEF DeriveRoot, Root
  <2>6. derived'.ver = 0
    BY <2>5 DEF Derive, Root
  <2> QED
    BY <1>2, <2>6
<1> QED
  BY <1>3, <1>4

\* A step that changes neither list, file nor what has been recorded.
LEMMA ListKept ==
  ASSUME Inv, UpgradeInv, reason = "upgrade", saves # "reread",
         UNCHANGED <<db, file, packed, saves, since>>, derived'.ver \in Recorded,
         stage'["main"] = "sent" => reported'.ver \in Recorded,
         ~Fresh(db) => Untouched',
         \A t \in Threads : Saving(t) => Saving(t)'
  PROVE  UpgradeInv'
  BY DEF UpgradeInv, ToldFresh, BytesFresh, ListFresh, FileFresh, Fresh, Recorded

LEMMA SaveFresh ==
  ASSUME Inv, UpgradeInv, NEW t \in Threads, SaveStep(t)
  PROVE  UpgradeInv'
<1> SUFFICES ASSUME reason = "upgrade", saves # "reread" PROVE ToldFresh' /\ BytesFresh' /\ ListFresh' /\ FileFresh'
  <2>1. reason' = reason /\ (saves' = "reread" <=> saves = "reread")
    BY DEF Failed, SaveStep, Pack, Open, OpenFails, Write, WriteFails, Written, rootVars
  <2> QED
    BY <2>1 DEF UpgradeInv
<1>0. TypeOK /\ ToldFresh /\ BytesFresh /\ ListFresh /\ FileFresh
  BY DEF Inv, UpgradeInv
<1>1. UNCHANGED <<db, derived, reported, since, etag, todo, resetOnce>> /\ Saving(t)
  BY DEF SaveStep, Pack, Open, OpenFails, Write, WriteFails, Written, rootVars, bundleVars, resetVars, Saving
<1>2. Fresh(db) /\ \A list : Fresh(list)' <=> Fresh(list)
  BY <1>0, <1>1 DEF ListFresh, Untouched, Saving, Fresh, Recorded, Threads
<1>3. PICK p \in {"open", "write", "idle", "saved"} :
        /\ \A u \in Threads : stage'[u] = IF u = t THEN p ELSE stage[u]
        /\ p \in {"idle", "saved"} => Write(t) \/ OpenFails(t) \/ WriteFails(t)
  BY <1>0, StageMove DEF SaveStep, Pack, Open, OpenFails, Write, WriteFails, Written
<1>4. ToldFresh'
  BY <1>0, <1>1, <1>3 DEF ToldFresh, Recorded, Threads
<1>5. BytesFresh'
  <2>1. packed \in [Threads -> DB] /\ \A u \in Threads : packed'[u] \in {packed[u], EmptyDB, db}
    BY <1>0 DEF TypeOK, SaveStep, Pack, Open, OpenFails, Write, WriteFails, Written
  <2>2. \A u \in Threads : Fresh(packed'[u])
    BY <1>0, <1>2, <2>1, EmptyFresh DEF BytesFresh
  <2> QED
    BY <1>1, <2>2 DEF BytesFresh, Fresh, Recorded
<1>6. ListFresh'
  BY <1>1, <1>2 DEF ListFresh, Fresh, Recorded
<1>7. FileFresh'
  <2>1. CASE p \in {"open", "write"}
    BY <1>3, <2>1 DEF FileFresh, Saving
  <2>2. CASE Write(t)
    <3>1. Fresh(file'.db)
      BY <1>0, <2>2 DEF Write, Whole, BytesFresh
    <3> QED
      BY <1>1, <3>1 DEF FileFresh, Fresh, Recorded
  <2>3. CASE OpenFails(t) \/ WriteFails(t)
    BY <2>3 DEF OpenFails, WriteFails, Failed, FileFresh
  <2> QED
    BY <1>3, <2>1, <2>2, <2>3
<1> QED
  BY <1>4, <1>5, <1>6, <1>7

LEMMA MainFresh ==
  ASSUME Inv, UpgradeInv, MainStep
  PROVE  UpgradeInv'
<1> SUFFICES ASSUME reason = "upgrade", saves # "reread" PROVE UpgradeInv'
  <2>1. reason' = reason /\ saves' = saves
    BY DEF MainStep, BeginSync, StoreRoot, Send, Answered, NoConfiguration, Bundle, Derive,
       rootVars, dbVars
  <2> QED
    BY <2>1 DEF UpgradeInv
<1>0. TypeOK /\ ToldFresh /\ BytesFresh /\ ListFresh /\ FileFresh
  BY DEF Inv, UpgradeInv
<1>1. ASSUME NEW s \in {0, 200, 404}, Derive(s), stage["main"] \in {"idle", "sent"}
      PROVE  UpgradeInv'
  <2>1. /\ UNCHANGED <<db, file, packed, saves, since, etag, todo>>
        /\ derived'.ver \in Recorded
    BY <1>1, DeriveFresh DEF Derive, dbVars, bundleVars, resetVars
  <2>2. \A u \in Threads : stage'[u] = IF u = "main" THEN "derived" ELSE stage[u]
    BY <1>0, <1>1, StageMove DEF Derive, Threads
  <2>3. \A u \in Threads : Saving(u) => Saving(u)'
    BY <1>1, <2>2 DEF Saving
  <2>4. ~Fresh(db) => Untouched'
    BY <1>0, <2>1, <2>2 DEF ListFresh, Untouched, Threads
  <2> QED
    BY <2>1, <2>2, <2>3, <2>4, ListKept DEF Threads
<1>2. CASE BeginSync \/ NoConfiguration
  BY <1>1, <1>2 DEF BeginSync, NoConfiguration
<1>3. CASE StoreRoot
  <2>1. /\ UNCHANGED <<file, packed, saves, since, derived, reported, etag, todo, resetOnce>>
        /\ stage["main"] = "derived" /\ reason' = reason
    BY <1>3 DEF StoreRoot, rootVars, bundleVars, resetVars
  <2>2. derived.ver \in Versions /\ db \in DB /\ "root" \in Names
    BY <1>0 DEF TypeOK, RootReport, Names
  <2>3. CASE db' = db /\ NoChange(db, derived.ver, derived.str) /\ Move("main", "saved")
    <3>1. RootOf(db) = derived.ver
      BY <2>2, <2>3, VersionsOrdered DEF NoChange, RootOf, Absent
    <3>2. Fresh(db)
      BY <1>0, <3>1 DEF Fresh, ToldFresh
    <3>3. \A u \in Threads : stage'[u] = IF u = "main" THEN "saved" ELSE stage[u]
      BY <1>0, <2>3, StageMove DEF Threads
    <3>4. \A u \in Threads : Saving(u) => Saving(u)'
      BY <2>1, <3>3 DEF Saving
    <3> QED
      BY <1>0, <2>1, <2>3, <3>2, <3>3, <3>4, ListKept DEF Threads, ToldFresh
  <2>4. CASE db' = Put(db, "root", derived.ver, derived.str) /\ Move("main", "pack")
    <3>1. \A u \in Threads : stage'[u] = IF u = "main" THEN "pack" ELSE stage[u]
      BY <1>0, <2>4, StageMove DEF Threads
    <3>2. Fresh(db')
      BY <1>0, <2>2, <2>4, PutFresh DEF ToldFresh
    <3>3. Saving("main")' /\ "main" \in Threads
      BY <3>1 DEF Saving, Threads
    <3>4. FileFresh'
      BY <3>3 DEF FileFresh
    <3>5. ListFresh'
      BY <2>1, <3>2 DEF ListFresh, Fresh, Recorded
    <3>6. ToldFresh' /\ BytesFresh'
      BY <1>0, <2>1, <3>1 DEF ToldFresh, BytesFresh, Fresh, Recorded, Threads
    <3> QED
      BY <3>4, <3>5, <3>6 DEF UpgradeInv
  <2> QED
    BY <1>3, <2>3, <2>4 DEF StoreRoot
<1>4. CASE Send \/ Answered \/ Bundle
  <2>1. UNCHANGED <<db, file, packed, saves, since, resetOnce, todo>> /\ stage["main"] \in {"saved", "sent"}
    BY <1>4 DEF Send, Answered, Bundle, dbVars, bundleVars, resetVars
  <2>2. PICK p \in {"sent", "idle"} : Move("main", p) /\ (p = "sent" => Send)
    BY <1>4 DEF Send, Answered, Bundle
  <2>3. \A u \in Threads : stage'[u] = IF u = "main" THEN p ELSE stage[u]
    BY <1>0, <2>2, StageMove DEF Threads
  <2>4. \A u \in Threads : Saving(u) => Saving(u)'
    BY <2>1, <2>3 DEF Saving
  <2>5. Fresh(db)
    BY <1>0, <2>1 DEF ListFresh, Untouched
  <2>6. derived'.ver \in Recorded
    BY <1>0, <1>4, EmptyType DEF Send, Answered, Bundle, ToldFresh, Recorded
  <2>7. stage'["main"] = "sent" => reported'.ver \in Recorded
    BY <1>0, <2>2, <2>3 DEF Send, ToldFresh, Threads
  <2> QED
    BY <2>1, <2>4, <2>5, <2>6, <2>7, ListKept
<1> QED
  BY <1>2, <1>3, <1>4 DEF MainStep

LEMMA EventFresh ==
  ASSUME Inv, UpgradeInv, EventStep
  PROVE  UpgradeInv'
<1> SUFFICES ASSUME reason = "upgrade", saves # "reread" PROVE UpgradeInv'
  <2>1. reason' = reason /\ saves' = saves
    BY DEF EventStep, Ack, RecordRoot, rootVars, dbVars
  <2> QED
    BY <2>1 DEF UpgradeInv
<1>0. /\ TypeOK /\ ToldFresh /\ BytesFresh /\ ListFresh /\ FileFresh
      /\ db \in DB /\ etag \in Versions
  BY DEF Inv, UpgradeInv, TypeOK
<1>1. UNCHANGED <<file, packed, saves, derived, reported>> /\ Fresh(db)
      /\ Recorded \subseteq Recorded'
  BY <1>0 DEF EventStep, Ack, RecordRoot, rootVars, ListFresh, Untouched, Recorded
<1>2. PICK p \in {"root", "pack"} : Move("event", p) /\ (p = "root" => \E d \in Docs : Ack(d))
  BY DEF EventStep, Ack, RecordRoot
<1>3. \A u \in Threads : stage'[u] = IF u = "event" THEN p ELSE stage[u]
  BY <1>0, <1>2, StageMove DEF Threads
<1>4. ToldFresh' /\ BytesFresh'
  BY <1>0, <1>1, <1>3 DEF ToldFresh, BytesFresh, Fresh, Threads
<1>5. Fresh(db)' /\ (p = "root" => UNCHANGED since)
  <2>1. CASE \E d \in Docs : Ack(d)
    BY <1>0, <1>1, <2>1, PutFresh, DocsAreNames DEF Ack, Fresh, Recorded
  <2>2. CASE RecordRoot
    <3>1. "root" \in Names /\ etag \in Recorded' /\ db' = Put(db, "root", etag, NoStr)
      BY <2>2 DEF RecordRoot, Recorded, Names
    <3>2. RootOf(db') = etag
      BY <1>0, <3>1, RootOfPut
    <3>3. p # "root"
      BY <2>2, <1>0, <1>3 DEF RecordRoot, Move, TypeOK, Threads
    <3> QED
      BY <3>1, <3>2, <3>3 DEF Fresh
  <2> QED
    BY <2>1, <2>2 DEF EventStep
<1>6. FileFresh'
  <2>1. CASE p = "pack"
    BY <1>3, <2>1 DEF FileFresh, Saving, Threads
  <2>2. CASE p = "root"
    <3>1. stage["event"] = "idle"
      BY <1>2, <2>2 DEF Ack
    <3>2. \A u \in Threads : Saving(u) => Saving(u)'
      BY <1>3, <3>1 DEF Saving
    <3>3. Fresh(file.db)' <=> Fresh(file.db)
      BY <1>1, <1>5, <2>2 DEF Fresh, Recorded
    <3> QED
      BY <1>0, <1>1, <3>2, <3>3 DEF FileFresh
  <2> QED
    BY <2>1, <2>2
<1>7. ListFresh'
  BY <1>5 DEF ListFresh
<1> QED
  BY <1>4, <1>6, <1>7 DEF UpgradeInv

LEMMA ResetFresh ==
  ASSUME Inv, UpgradeInv, ResetStep
  PROVE  UpgradeInv'
<1> SUFFICES ASSUME reason = "upgrade", saves # "reread" PROVE UpgradeInv'
  <2>1. reason' = reason /\ saves' = saves
    BY DEF ResetStep, Reset, ResetVersion, ResetTmp, rootVars, dbVars
  <2> QED
    BY <2>1 DEF UpgradeInv
<1>0. /\ TypeOK /\ ToldFresh /\ BytesFresh /\ ListFresh /\ FileFresh /\ db \in DB
  BY DEF Inv, UpgradeInv, TypeOK
<1>1. UNCHANGED <<file, packed, saves, since, derived, reported, etag, resetOnce>>
  BY DEF ResetStep, Reset, ResetVersion, ResetTmp, dbVars, rootVars, bundleVars
<1>2. ASSUME NEW p, Move("rbus", p)
      PROVE  /\ \A u \in Threads : stage'[u] = IF u = "rbus" THEN p ELSE stage[u]
             /\ stage'["main"] = stage["main"] /\ stage'["event"] = stage["event"]
             /\ stage'["rbus"] = p
  BY <1>0, <1>2, StageMove DEF Threads
<1>3. CASE \E docs \in SUBSET Docs : Reset(docs)
  <2>1. UNCHANGED db /\ Move("rbus", "reset") /\ "root" \in todo' /\ stage["rbus"] = "idle"
    BY <1>3 DEF Reset, dbVars
  <2>2. \A u \in Threads : Saving(u) => Saving(u)'
    BY <1>2, <2>1 DEF Saving
  <2>3. ~Fresh(db) => Untouched'
    BY <1>0, <1>1, <1>2, <2>1 DEF ListFresh, Untouched
  <2> QED
    BY <1>0, <1>1, <1>2, <2>1, <2>2, <2>3, ListKept DEF ToldFresh
<1>4. ASSUME NEW n \in Names, ResetVersion(n)
      PROVE  UpgradeInv'
  <2>1. db' = Put(db, n, 0, NoStr) /\ Move("rbus", "pack")
    BY <1>4 DEF ResetVersion
  <2>2. n = "root" \/ Fresh(db)
    BY <1>0, <1>4 DEF ResetVersion, Turn, ListFresh, Untouched
  <2>3. Fresh(db')
    <3>1. 0 \in Versions /\ 0 \in Recorded
      BY BoundsAssumption DEF Versions, Recorded
    <3> QED
      BY <1>0, <2>1, <2>2, <3>1, PutFresh
  <2>4. FileFresh'
    BY <1>2, <2>1 DEF FileFresh, Saving, Threads
  <2>5. ListFresh'
    BY <1>1, <2>3 DEF ListFresh, Fresh, Recorded
  <2>6. ToldFresh' /\ BytesFresh'
    BY <1>0, <1>1, <1>2, <2>1 DEF ToldFresh, BytesFresh, Fresh, Recorded
  <2> QED
    BY <2>4, <2>5, <2>6 DEF UpgradeInv
<1>5. ASSUME NEW n \in Names, ResetTmp(n)
      PROVE  UpgradeInv'
  <2>1. UNCHANGED db /\ stage["rbus"] = "saved"
    BY <1>5 DEF ResetTmp, dbVars
  <2>2. PICK p : Move("rbus", p)
    BY <1>5 DEF ResetTmp
  <2>3. \A u \in Threads : Saving(u) => Saving(u)'
    BY <1>2, <2>1, <2>2 DEF Saving
  <2>4. Fresh(db)
    BY <1>0, <2>1 DEF ListFresh, Untouched
  <2> QED
    BY <1>0, <1>1, <1>2, <2>1, <2>2, <2>3, <2>4, ListKept DEF ToldFresh
<1> QED
  BY <1>3, <1>4, <1>5 DEF ResetStep

LEMMA FaultFresh ==
  ASSUME Inv, UpgradeInv, Fault
  PROVE  UpgradeInv'
<1> SUFFICES ASSUME reason' = "upgrade", saves' # "reread"
             PROVE  ToldFresh' /\ BytesFresh' /\ ListFresh' /\ FileFresh'
  BY DEF UpgradeInv
<1>1. CASE Restart \/ Upgrade
  <2>1. /\ db' = file'.db /\ derived' = NoRoot /\ etag' = 0 /\ resetOnce' = FALSE
        /\ packed' = [t \in Threads |-> EmptyDB] /\ stage' = [t \in Threads |-> "idle"]
    BY <1>1 DEF Restart, Upgrade, Boot
  <2>2. 0 \in Recorded' /\ Fresh(EmptyDB)'
    BY EmptyFresh DEF Recorded, Fresh, RootOf, EmptyDB, Names
  <2>3. ToldFresh' /\ BytesFresh'
    BY <2>1, <2>2, EmptyType DEF ToldFresh, BytesFresh, Fresh, Threads
  <2>4. ListFresh' /\ FileFresh'
    BY <2>1 DEF ListFresh, FileFresh, Untouched, Threads, Fresh
  <2> QED
    BY <2>3, <2>4
<1>2. CASE Reboot \/ FactoryReset
  BY <1>2 DEF Reboot, FactoryReset, Boot
<1>3. CASE Reload
  <2>1. /\ db' = file.db /\ etag' = 0 /\ \A t \in Threads : stage[t] = "idle"
        /\ UNCHANGED <<file, packed, since, derived, reported, reason, resetOnce, todo, stage>>
        /\ saves # "failed" /\ saves' = saves
    BY <1>3 DEF Reload, rootVars
  <2>2. ToldFresh /\ BytesFresh /\ ListFresh /\ FileFresh
    BY <2>1 DEF UpgradeInv
  <2>3. ~Fresh(file.db) => ~resetOnce
    BY <2>1, <2>2 DEF FileFresh, Saving, ListFresh, Untouched, Threads
  <2>4. ListFresh'
    BY <2>1, <2>3 DEF ListFresh, Untouched, Fresh, Recorded, Threads
  <2>5. ToldFresh' /\ BytesFresh' /\ FileFresh'
    BY <2>1, <2>2 DEF ToldFresh, BytesFresh, FileFresh, Fresh, Recorded
  <2> QED
    BY <2>4, <2>5
<1> QED
  BY <1>1, <1>2, <1>3 DEF Fault

\* After an upgrade of the firmware a request reports root 0 until a root version has
\* been recorded since (UpgradeRefetches): also when the process restarts or the list is
\* read again, before or after the first request, except after a save that failed.
THEOREM UpgradeRefetchesCorrect == Spec => []UpgradeRefetches
<1>1. Init => UpgradeInv
  <2> SUFFICES ASSUME Init PROVE ToldFresh /\ BytesFresh /\ ListFresh /\ FileFresh
    BY DEF UpgradeInv
  <2>1. ToldFresh
    BY EmptyType DEF Init, ToldFresh, Recorded, Threads
  <2>2. BytesFresh /\ ListFresh /\ FileFresh
    BY EmptyFresh DEF Init, BytesFresh, ListFresh, FileFresh, NoFile
  <2> QED
    BY <2>1, <2>2
<1>2. ASSUME UpgradeInv, UNCHANGED vars PROVE UpgradeInv'
  BY <1>2 DEF vars, dbVars, rootVars, bundleVars, resetVars, UpgradeInv, ToldFresh,
     BytesFresh, ListFresh, FileFresh, Fresh, Recorded, Untouched, Saving
<1>3. Inv /\ UpgradeInv /\ [Next]_vars => UpgradeInv'
  BY <1>2, SaveFresh, MainFresh, EventFresh, ResetFresh, FaultFresh DEF Next
<1>4. UpgradeInv => UpgradeRefetches
  BY DEF UpgradeInv, ToldFresh, Recorded, UpgradeRefetches
<1> QED
  BY <1>1, <1>3, <1>4, InitInv, NextInv, PTL DEF Spec
=============================================================================
