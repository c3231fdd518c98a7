-------------------------------- MODULE Schemas --------------------------------
(***************************************************************************)
(* Which kinds of document there are, in the cores of which namespace each *)
(* is written (constants.js, datastore/index.js), which index writer is    *)
(* given a block of them, and the tables that writer has                   *)
(* (mapeo-project.js, mapeo-manager.js, index-writer/index.js).  There are *)
(* two databases: that of the project, and the one that all projects of    *)
(* the device share, where their settings are.                             *)
(*                                                                         *)
(* A block is known by its schema, "unknown" if it cannot be decoded, and  *)
(* by whether mapDoc() accepts it, which it does to all but some records   *)
(* about a device.                                                         *)
(***************************************************************************)

NAMESPACE_SCHEMAS == [
  data   |-> {"observation", "track"},
  config |-> {"translation", "preset", "field", "projectSettings", "deviceInfo", "icon"},
  auth   |-> {"coreOwnership", "role"}]

\* The documents the project's data types write, where, and the database they
\* read them from.
DataType(dataStore, db) == [dataStore |-> dataStore, db |-> db]
dataTypes == [
  observation     |-> DataType("data", "project"),
  track           |-> DataType("data", "project"),
  preset          |-> DataType("config", "project"),
  field           |-> DataType("config", "project"),
  projectSettings |-> DataType("config", "shared"),
  coreOwnership   |-> DataType("auth", "project"),
  role            |-> DataType("auth", "project"),
  deviceInfo      |-> DataType("config", "project"),
  icon            |-> DataType("config", "project"),
  translation     |-> DataType("config", "project")]

\* write() of a DataStore throws for a document of another namespace.
IsAllowed(namespace, schemaName) == schemaName \in NAMESPACE_SCHEMAS[namespace]

Entries(namespace) == [schemaName : NAMESPACE_SCHEMAS[namespace] \cup {"unknown"}, valid : BOOLEAN]

\* The tables of the project's index writer, and of the shared one.
tables == [
  project |-> {"observation", "track", "preset", "field", "coreOwnership", "role",
               "deviceInfo", "icon", "translation"},
  shared  |-> {"projectSettings"}]

\* An index writer has an indexer for each of its tables.
HasIndexer(db, schemaName) == schemaName \in tables[db]

\* A record of a device's name is accepted if that device wrote it, one of the
\* cores a device owns if all those cores have signed it.
mapDoc(entry) == entry.schemaName \in {"deviceInfo", "coreOwnership"} => entry.valid

\* The batch of one index writer: what it cannot decode, does not accept or
\* has no table for it ignores.
IndexWriterBatch(db, entries) ==
  {e \in entries : e.schemaName # "unknown" /\ HasIndexer(db, e.schemaName) /\ mapDoc(e)}

\* The entries of a batch of the "config" store that go to each index writer.
HandleConfigEntries(db, entries) ==
  {e \in entries : IF db = "shared" THEN e.schemaName = "projectSettings"
                                    ELSE e.schemaName \notin {"projectSettings", "unknown"}}

\* What a batch of the store of a namespace brings into the tables of db.
IndexedIn(namespace, db, entries) ==
  IF namespace = "config" THEN IndexWriterBatch(db, HandleConfigEntries(db, entries))
  ELSE IF db = "project" THEN IndexWriterBatch(db, entries)
  ELSE {}

\* Each data type may write its documents into its store, and finds those that
\* are valid in the database it reads (the constructor of MapeoProject).
WrittenIsFound ==
  \A s \in DOMAIN dataTypes, valid \in BOOLEAN :
    LET type == dataTypes[s]
        entry == [schemaName |-> s, valid |-> valid]
    IN /\ IsAllowed(type.dataStore, s)
       /\ mapDoc(entry) => entry \in IndexedIn(type.dataStore, type.db, {entry})
=============================================================================
