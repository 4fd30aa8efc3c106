----------------------------- MODULE RootVersion -----------------------------
(***************************************************************************)
(* The list of recorded documents (webcfgdb_data, webcfg_db.c) as data,    *)
(* and the root version that a request reports (webcfg_multipart.c). Root  *)
(* is a document of the list like the others; besides its version it may   *)
(* have a string, which tells the cloud why there is no version: NONE-...  *)
(* when the device has come up without a database file, POST-NONE when the *)
(* cloud has taken note of it.                                             *)
(***************************************************************************)
EXTENDS Integers, FiniteSets

CONSTANT Docs            \* documents other than root

ASSUME RootAssumption == IsFiniteSet(Docs) /\ Docs # {} /\ "root" \notin Docs

Names   == Docs \cup {"root"}
Absent  == -1            \* version of a document that the list does not have
NoStr   == ""            \* the root string is NULL
Nones   == {"NONE", "NONE-MIGRATION", "NONE-REBOOT"}
Strings == Nones \cup {NoStr, "POST-NONE"}

EmptyDB == [ver |-> [n \in Names |-> Absent], str |-> NoStr]

\* updateDBlist and, for a name the list does not have, addToDBList. Only root
\* has a string.
Put(db, name, v, s) ==
  [ver |-> [db.ver EXCEPT ![name] = v],
   str |-> IF name = "root" THEN s ELSE db.str]

\* checkDBList returns WEBCFG_NO_CHANGE.
NoChange(db, v, s) == db.ver["root"] = v /\ db.str = s

\* getRootDocVersionFromDBCache.
RootOf(db)  == IF db.ver["root"] = Absent THEN 0 ELSE db.ver["root"]
SizeOf(db)  == Cardinality({n \in Names : db.ver[n] # Absent})

\* Why the device came up: the platform's reboot reason.
Reasons == {"factory", "upgrade", "other"}

\* The root string of a device without a database file.
\* Mutant: a string of its own.
NoneForUpgrade(reason) == IF reason = "upgrade" THEN "NONE-UPGRADE" ELSE "NONE"

NoneFor(reason) ==
  CASE reason = "factory" -> "NONE"
    [] reason = "upgrade" -> "NONE-MIGRATION"
    [] OTHER              -> "NONE-REBOOT"

Root(s, v, done) == [str |-> s, ver |-> v, done |-> done]

\* Mutant: reports the version that it was to reset.
DeriveRootKept(reason, hasFile, db, done, status) ==
  IF ~hasFile THEN Root(NoneFor(reason), 0, done)
  ELSE IF RootOf(db) = 0 THEN Root(db.str, 0, done)
  ELSE Root(NoStr, RootOf(db), done)

\* Mutant: goes by the list instead of the file.
DeriveRootListed(reason, hasFile, db, done, status) ==
  IF RootOf(db) = 0 THEN Root(NoneFor(reason), 0, done)
  ELSE Root(NoStr, RootOf(db), done)

\* derive_root_doc_version_string, with the reason fetched. `status' is that of
\* the response under which it is called, 0 when a request is formed; `done' is
\* the static flag reset_once.
DeriveRoot(reason, hasFile, db, done, status) ==
  IF ~hasFile THEN Root(NoneFor(reason), 0, done)
  ELSE IF \/ status = 404 /\ db.str \in Nones
          \/ status = 200 /\ db.str = "NONE"
       THEN Root("POST-NONE", 0, done)
  ELSE IF RootOf(db) = 0 THEN Root(db.str, 0, done)
  ELSE IF ~done /\ SizeOf(db) > 1 /\ reason = "upgrade" THEN Root(NoStr, 0, TRUE)
  ELSE Root(NoStr, RootOf(db), done)
=============================================================================
