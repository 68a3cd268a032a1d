------------------------------ MODULE ZoneFiles ------------------------------
(***************************************************************************)
(* The storage of a zone inventory on disk and in memory:                  *)
(* zoneInventoryStorageMemoryDisk and viewIO of agent/zoneinventory.go.    *)
(* A view is a directory with one file per zone; a file of metadata tells  *)
(* when the inventory was saved.  The inventory runs one long-lasting      *)
(* operation at a time (ZoneInventory); the agent may be killed in it.     *)
(***************************************************************************)
EXTENDS Naturals, FiniteSets

CONSTANTS Views, Zones,
          MaxSaves   \* bound: saves

FilesAssumption == MaxSaves \in Nat

VARIABLES files,   \* the files: view, zone and the save that wrote it, 0 if it is empty
          meta,    \* the file of metadata: {}, or the save it is of, 0 if it is empty
          memory,  \* the inventory in memory: {}, or what was saved or loaded
          save,    \* the save in progress
          last,    \* history: what the last save that wrote its metadata was to save,
                   \* and whether its files are mixed with others: a view of it could
                   \* not be written, or a save after it could not remove its metadata
          saves

vars == <<files, meta, memory, save, last, saves>>

Readable == meta \notin {{}, {0}}
NoSave == [pc |-> "none", views |-> {}, zones |-> {}, left |-> {}, erred |-> FALSE]
NoViews == [zones |-> {}, views |-> {}, mixed |-> FALSE]
Saving(pc) == save.pc = pc

Init ==
  /\ files = {} /\ meta = {} /\ memory = {} /\ save = NoSave
  /\ last = NoViews /\ saves = 0

-----------------------------------------------------------------------------
(* saveViews.  What the DNS server has is a set of views with zones.       *)

File(f, n) == [view |-> f[1], zone |-> f[2], by |-> n]

Begin ==
  /\ Saving("none") /\ saves < MaxSaves
  /\ saves' = saves + 1
  /\ \E V \in SUBSET Views, Z \in SUBSET (Views \X Zones) :
       /\ \A f \in Z : f[1] \in V
       /\ save' = [pc |-> "meta", views |-> V, zones |-> Z, left |-> V, erred |-> FALSE]
  /\ UNCHANGED <<files, meta, memory, last>>

\* Mutated form: the metadata stays while the views are written.
KeepMeta ==
  /\ Saving("meta")
  /\ save' = [save EXCEPT !.pc = "views"]
  /\ UNCHANGED <<files, meta, memory, last, saves>>

\* Every error of a removal is taken for a file that does not exist: metadata
\* that cannot be removed stays, and the save goes on.
removeMeta ==
  /\ Saving("meta")
  /\ save' = [save EXCEPT !.pc = "views"]
  /\ \/ meta' = {} /\ UNCHANGED last
     \/ meta # {} /\ UNCHANGED meta /\ last' = [last EXCEPT !.mixed = TRUE]
  /\ UNCHANGED <<files, memory, saves>>

\* recreateView: the directory is removed with its files and made again.
removeView(v) ==
  /\ Saving("views") /\ v \in save.left
  /\ files' = {f \in files : f.view # v}
  /\ save' = [save EXCEPT !.left = @ \ {v}, !.pc = "zones"]
  /\ UNCHANGED <<meta, memory, last, saves>>

\* The views that have been begun, and the zones of those that are not written.
Begun == {f \in save.zones : f[1] \notin save.left}
Missing == {f \in Begun : File(f, saves) \notin files}

\* createZone: a file is opened empty, then written.
createZone ==
  \E f \in Missing :
    /\ Saving("zones")
    /\ files' = IF File(f, 0) \in files THEN (files \ {File(f, 0)}) \cup {File(f, saves)}
                                        ELSE files \cup {File(f, 0)}
    /\ \A g \in Missing : File(g, 0) \in files => g = f
    /\ UNCHANGED <<meta, memory, save, last, saves>>

createdView ==
  /\ Saving("zones") /\ Missing = {}
  /\ save' = [save EXCEPT !.pc = "views"]
  /\ UNCHANGED <<files, meta, memory, last, saves>>

\* A view that cannot be removed or written ends the loop, but not the save.
recreateFails ==
  /\ Saving("views") \/ Saving("zones")
  /\ save.left # {} \/ Missing # {}
  /\ save' = [save EXCEPT !.pc = "saved", !.erred = TRUE]
  /\ UNCHANGED <<files, meta, memory, last, saves>>

\* saveMeta opens the file empty, then writes it; if it fails, the views are not
\* put into memory.
openMeta ==
  /\ Saving("saved") \/ (Saving("views") /\ save.left = {})
  /\ \/ meta' = {0} /\ save' = [save EXCEPT !.pc = "time"]
     \/ save' = NoSave /\ UNCHANGED meta
  /\ UNCHANGED <<files, memory, last, saves>>

saveMeta ==
  /\ Saving("time")
  /\ save' = NoSave
  /\ \/ /\ meta' = {saves}
        /\ memory' = {{File(f, saves) : f \in save.zones}}
        /\ last' = [zones |-> {File(f, saves) : f \in save.zones},
                    views |-> save.views, mixed |-> save.erred]
     \/ UNCHANGED <<meta, memory, last>>
  /\ UNCHANGED <<files, saves>>

-----------------------------------------------------------------------------
\* loadViews: the files of all directories that can be parsed.  Without metadata
\* the load ends the agent, with an empty file of metadata it is an error.
loadViews ==
  /\ Saving("none")
  /\ Readable
  /\ memory' = {{f \in files : f.by # 0}}
  /\ UNCHANGED <<files, meta, save, last, saves>>

\* The agent is killed, or ends in a load, and starts again.
Kill ==
  /\ save' = NoSave /\ memory' = {}
  /\ UNCHANGED <<files, meta, last, saves>>

Save ==
  \/ Begin \/ removeMeta \/ createZone \/ createdView \/ recreateFails \/ openMeta \/ saveMeta
  \/ \E v \in Views : removeView(v)

Next == Save \/ loadViews \/ Kill
Spec == Init /\ [][Next]_vars

-----------------------------------------------------------------------------
\* Metadata that can be read is of a save that came to its end: the views it
\* saved are on disk as they were given, whatever killed saves came before or
\* after, unless one of them could not be written or a later save could not
\* remove this metadata before it wrote its own views; and what is in memory
\* agrees with them, but for views that a save before it had and that one had not.
MetaIsOfWholeViews ==
  Readable /\ ~last.mixed =>
    /\ {f \in files : f.view \in last.views} = last.zones
    /\ \A m \in memory : {f \in m : f.view \in last.views} = last.zones
=============================================================================
