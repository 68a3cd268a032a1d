------------------------ MODULE ZoneInventoryProofs ------------------------
(***************************************************************************)
(* Proofs about ZoneInventory, for any set of calls, any finite set of     *)
(* zones and every kind of storage: one lemma per action says that the     *)
(* action preserves the inductive invariant IInv, one step per conjunct.   *)
(***************************************************************************)
EXTENDS ZoneInventory, FiniteSetTheorems, TLAPS

\* A fresh inventory satisfies the invariant.
LEMMA InitInv == Init => IInv
  BY NoViewsAssumption
  DEF Init, IInv, TypeOK, StateNames, OneLongLastingOperation, Receiving, StreamPhases,
      StreamIsSnapshot, OkStreamIsComplete, ViewsPhases, isReady

\* The number of zones a stream announces is a number.
LEMMA StoredCount == ASSUME TypeOK PROVE Cardinality(Stored) \in Nat
  <1>1. Stored \subseteq Zones
    BY DEF TypeOK, Stored
  <1> QED  BY <1>1, ZonesAssumption, FS_Subset, FS_CardinalityType

\* MonitorCheck preserves the invariant.
LEMMA MonitorCheckInv ==
  ASSUME IInv, MonitorCheck
  PROVE  IInv'
  <1> USE DEF IInv
  <1>1. TypeOK'
    BY DEF MonitorCheck, TypeOK, StateNames, storageVars, taskVars, streamVars
  <1>2. OneLongLastingOperation'
    BY DEF MonitorCheck, TypeOK, OneLongLastingOperation, Receiving, StreamPhases,
        storageVars, taskVars, streamVars
  <1>3. StreamPhases'
    BY DEF MonitorCheck, TypeOK, StreamPhases, StreamIsSnapshot, storageVars, taskVars,
        streamVars
  <1>4. StreamIsSnapshot'
    BY DEF MonitorCheck, TypeOK, StreamIsSnapshot, StreamPhases, OneLongLastingOperation,
        Receiving, Stored, storageVars, taskVars, streamVars
  <1>5. OkStreamIsComplete'
    BY DEF MonitorCheck, TypeOK, OkStreamIsComplete, StreamPhases, storageVars, taskVars,
        streamVars
  <1>6. ViewsPhases'
    BY DEF MonitorCheck, TypeOK, ViewsPhases, isReady, storageVars, taskVars, streamVars
  <1> QED  BY <1>1, <1>2, <1>3, <1>4, <1>5, <1>6

\* MonitorPopulate preserves the invariant.
LEMMA MonitorPopulateInv ==
  ASSUME IInv, MonitorPopulate
  PROVE  IInv'
  <1> USE DEF IInv
  <1>1. TypeOK'
    BY DEF MonitorPopulate, CanTransition, TypeOK, StateNames, storageVars, taskVars,
        streamVars
  <1>2. OneLongLastingOperation'
    BY DEF MonitorPopulate, CanTransition, TypeOK, OneLongLastingOperation, Receiving,
        StreamPhases, isLongLasting, storageVars, taskVars, streamVars
  <1>3. StreamPhases'
    BY DEF MonitorPopulate, CanTransition, TypeOK, StreamPhases, StreamIsSnapshot,
        storageVars, taskVars, streamVars
  <1>4. StreamIsSnapshot'
    BY DEF MonitorPopulate, CanTransition, TypeOK, StreamIsSnapshot, StreamPhases,
        OneLongLastingOperation, Receiving, Stored, storageVars, taskVars, streamVars
  <1>5. OkStreamIsComplete'
    BY DEF MonitorPopulate, CanTransition, TypeOK, OkStreamIsComplete, StreamPhases,
        storageVars, taskVars, streamVars
  <1>6. ViewsPhases'
    BY DEF MonitorPopulate, CanTransition, TypeOK, ViewsPhases, isReady, storageVars,
        taskVars, streamVars
  <1> QED  BY <1>1, <1>2, <1>3, <1>4, <1>5, <1>6

\* PopulateFetch preserves the invariant.
LEMMA PopulateFetchInv ==
  ASSUME IInv, PopulateFetch
  PROVE  IInv'
  <1> USE DEF IInv
  <1>1. TypeOK'
    BY DEF PopulateFetch, TypeOK, StateNames, storageVars, taskVars, streamVars
  <1>2. OneLongLastingOperation'
    BY DEF PopulateFetch, TypeOK, OneLongLastingOperation, Receiving, StreamPhases,
        storageVars, taskVars, streamVars
  <1>3. StreamPhases'
    BY DEF PopulateFetch, TypeOK, StreamPhases, StreamIsSnapshot, storageVars, taskVars,
        streamVars
  <1>4. StreamIsSnapshot'
    BY DEF PopulateFetch, TypeOK, StreamIsSnapshot, StreamPhases, OneLongLastingOperation,
        Receiving, Stored, storageVars, taskVars, streamVars
  <1>5. OkStreamIsComplete'
    BY DEF PopulateFetch, TypeOK, OkStreamIsComplete, StreamPhases, storageVars, taskVars,
        streamVars
  <1>6. ViewsPhases'
    BY DEF PopulateFetch, TypeOK, ViewsPhases, isReady, storageVars, taskVars, streamVars
  <1> QED  BY <1>1, <1>2, <1>3, <1>4, <1>5, <1>6

\* PopulateSave preserves the invariant.
LEMMA PopulateSaveInv ==
  ASSUME IInv, PopulateSave
  PROVE  IInv'
  <1> USE DEF IInv
  <1>1. TypeOK'
    BY DEF PopulateSave, SavedViews, TypeOK, StateNames, ViewsPhases, storageVars, taskVars,
        streamVars
  <1>2. OneLongLastingOperation'
    BY DEF PopulateSave, SavedViews, TypeOK, OneLongLastingOperation, Receiving, StreamPhases,
        storageVars, taskVars, streamVars
  <1>3. StreamPhases'
    BY DEF PopulateSave, SavedViews, TypeOK, StreamPhases, StreamIsSnapshot, storageVars,
        taskVars, streamVars
  <1>4. StreamIsSnapshot'
    BY DEF PopulateSave, SavedViews, TypeOK, StreamIsSnapshot, StreamPhases,
        OneLongLastingOperation, Receiving, Stored, storageVars, taskVars, streamVars
  <1>5. OkStreamIsComplete'
    BY DEF PopulateSave, SavedViews, TypeOK, OkStreamIsComplete, StreamPhases, storageVars,
        taskVars, streamVars
  <1>6. ViewsPhases'
    BY NoViewsAssumption
    DEF PopulateSave, SavedViews, TypeOK, ViewsPhases, isReady, storageVars, taskVars,
        streamVars
  <1> QED  BY <1>1, <1>2, <1>3, <1>4, <1>5, <1>6

\* PopulateSaveFails preserves the invariant.
LEMMA PopulateSaveFailsInv ==
  ASSUME IInv, PopulateSaveFails
  PROVE  IInv'
  <1> USE DEF IInv
  <1>1. TypeOK'
    BY DEF PopulateSaveFails, SavedViews, HasDisk, TypeOK, StateNames, ViewsPhases,
        storageVars, taskVars, streamVars
  <1>2. OneLongLastingOperation'
    BY DEF PopulateSaveFails, SavedViews, HasDisk, TypeOK, OneLongLastingOperation, Receiving,
        StreamPhases, storageVars, taskVars, streamVars
  <1>3. StreamPhases'
    BY DEF PopulateSaveFails, SavedViews, HasDisk, TypeOK, StreamPhases, StreamIsSnapshot,
        storageVars, taskVars, streamVars
  <1>4. StreamIsSnapshot'
    BY DEF PopulateSaveFails, SavedViews, HasDisk, TypeOK, StreamIsSnapshot, StreamPhases,
        OneLongLastingOperation, Receiving, Stored, storageVars, taskVars, streamVars
  <1>5. OkStreamIsComplete'
    BY DEF PopulateSaveFails, SavedViews, HasDisk, TypeOK, OkStreamIsComplete, StreamPhases,
        storageVars, taskVars, streamVars
  <1>6. ViewsPhases'
    BY NoViewsAssumption
    DEF PopulateSaveFails, SavedViews, HasDisk, TypeOK, ViewsPhases, isReady, storageVars,
        taskVars, streamVars
  <1> QED  BY <1>1, <1>2, <1>3, <1>4, <1>5, <1>6

\* PopulateEnd preserves the invariant.
LEMMA PopulateEndInv ==
  ASSUME IInv, PopulateEnd
  PROVE  IInv'
  <1> USE DEF IInv
  <1>1. TypeOK'
    BY DEF PopulateEnd, TypeOK, StateNames, storageVars, taskVars, streamVars
  <1>2. OneLongLastingOperation'
    BY DEF PopulateEnd, TypeOK, OneLongLastingOperation, Receiving, StreamPhases, storageVars,
        taskVars, streamVars
  <1>3. StreamPhases'
    BY DEF PopulateEnd, TypeOK, StreamPhases, StreamIsSnapshot, storageVars, taskVars,
        streamVars
  <1>4. StreamIsSnapshot'
    BY DEF PopulateEnd, TypeOK, StreamIsSnapshot, StreamPhases, OneLongLastingOperation,
        Receiving, Stored, storageVars, taskVars, streamVars
  <1>5. OkStreamIsComplete'
    BY DEF PopulateEnd, TypeOK, OkStreamIsComplete, StreamPhases, storageVars, taskVars,
        streamVars
  <1>6. ViewsPhases'
    BY NoViewsAssumption
    DEF PopulateEnd, TypeOK, ViewsPhases, isReady, OneLongLastingOperation, storageVars,
        taskVars, streamVars
  <1> QED  BY <1>1, <1>2, <1>3, <1>4, <1>5, <1>6

\* LoadBegin preserves the invariant.
LEMMA LoadBeginInv ==
  ASSUME IInv, LoadBegin
  PROVE  IInv'
  <1> USE DEF IInv
  <1>1. TypeOK'
    BY DEF LoadBegin, CanTransition, HasDisk, TypeOK, StateNames, storageVars, taskVars,
        streamVars
  <1>2. OneLongLastingOperation'
    BY DEF LoadBegin, CanTransition, HasDisk, TypeOK, OneLongLastingOperation, Receiving,
        StreamPhases, isLongLasting, storageVars, taskVars, streamVars
  <1>3. StreamPhases'
    BY DEF LoadBegin, CanTransition, HasDisk, TypeOK, StreamPhases, StreamIsSnapshot,
        storageVars, taskVars, streamVars
  <1>4. StreamIsSnapshot'
    BY DEF LoadBegin, CanTransition, HasDisk, TypeOK, StreamIsSnapshot, StreamPhases,
        OneLongLastingOperation, Receiving, Stored, storageVars, taskVars, streamVars
  <1>5. OkStreamIsComplete'
    BY DEF LoadBegin, CanTransition, HasDisk, TypeOK, OkStreamIsComplete, StreamPhases,
        storageVars, taskVars, streamVars
  <1>6. ViewsPhases'
    BY DEF LoadBegin, CanTransition, HasDisk, TypeOK, ViewsPhases, isReady, storageVars,
        taskVars, streamVars
  <1> QED  BY <1>1, <1>2, <1>3, <1>4, <1>5, <1>6

\* LoadEnd preserves the invariant.
LEMMA LoadEndInv ==
  ASSUME IInv, LoadEnd
  PROVE  IInv'
  <1> USE DEF IInv
  <1>1. TypeOK'
    BY DEF LoadEnd, TypeOK, StateNames, storageVars, taskVars, streamVars
  <1>2. OneLongLastingOperation'
    BY DEF LoadEnd, TypeOK, OneLongLastingOperation, Receiving, StreamPhases, storageVars,
        taskVars, streamVars
  <1>3. StreamPhases'
    BY DEF LoadEnd, TypeOK, StreamPhases, StreamIsSnapshot, storageVars, taskVars, streamVars
  <1>4. StreamIsSnapshot'
    BY DEF LoadEnd, TypeOK, StreamIsSnapshot, StreamPhases, OneLongLastingOperation,
        Receiving, Stored, storageVars, taskVars, streamVars
  <1>5. OkStreamIsComplete'
    BY DEF LoadEnd, TypeOK, OkStreamIsComplete, StreamPhases, storageVars, taskVars, streamVars
  <1>6. ViewsPhases'
    BY NoViewsAssumption
    DEF LoadEnd, TypeOK, ViewsPhases, isReady, storageVars, taskVars, streamVars
  <1> QED  BY <1>1, <1>2, <1>3, <1>4, <1>5, <1>6

\* ReceiveBegin preserves the invariant.
LEMMA ReceiveBeginInv ==
  ASSUME IInv, NEW c \in Calls, ReceiveBegin(c)
  PROVE  IInv'
  <1> USE DEF IInv
  <1>1. TypeOK'
    BY DEF ReceiveBegin, CanTransition, MayReceive, isErred, TypeOK, StateNames, storageVars,
        taskVars, streamVars
  <1>2. OneLongLastingOperation'
    BY DEF ReceiveBegin, CanTransition, MayReceive, isErred, TypeOK, OneLongLastingOperation,
        Receiving, StreamPhases, isLongLasting, storageVars, taskVars, streamVars
  <1>3. StreamPhases'
    BY DEF ReceiveBegin, CanTransition, MayReceive, isErred, TypeOK, StreamPhases,
        StreamIsSnapshot, storageVars, taskVars, streamVars
  <1>4. StreamIsSnapshot'
    BY DEF ReceiveBegin, CanTransition, MayReceive, isErred, TypeOK, StreamIsSnapshot,
        StreamPhases, OneLongLastingOperation, Receiving, Stored, storageVars, taskVars,
        streamVars
  <1>5. OkStreamIsComplete'
    BY DEF ReceiveBegin, CanTransition, MayReceive, isErred, TypeOK, OkStreamIsComplete,
        StreamPhases, storageVars, taskVars, streamVars
  <1>6. ViewsPhases'
    BY DEF ReceiveBegin, CanTransition, MayReceive, isErred, TypeOK, ViewsPhases, isReady,
        isLongLasting, StateNames, storageVars, taskVars, streamVars
  <1> QED  BY <1>1, <1>2, <1>3, <1>4, <1>5, <1>6

\* CountZones preserves the invariant.
LEMMA CountZonesInv ==
  ASSUME IInv, NEW c \in Calls, CountZones(c)
  PROVE  IInv'
  <1> USE DEF IInv
  <1>1. TypeOK'
    BY StoredCount
    DEF CountZones, Stored, TypeOK, StateNames, storageVars, taskVars, streamVars
  <1>2. OneLongLastingOperation'
    BY DEF CountZones, Stored, TypeOK, OneLongLastingOperation, Receiving, StreamPhases,
        storageVars, taskVars, streamVars
  <1>3. StreamPhases'
    BY DEF CountZones, Stored, TypeOK, StreamPhases, StreamIsSnapshot, storageVars, taskVars,
        streamVars
  <1>4. StreamIsSnapshot'
    BY DEF CountZones, Stored, TypeOK, StreamIsSnapshot, StreamPhases,
        OneLongLastingOperation, Receiving, storageVars, taskVars, streamVars
  <1>5. OkStreamIsComplete'
    BY DEF CountZones, Stored, TypeOK, OkStreamIsComplete, StreamPhases, storageVars,
        taskVars, streamVars
  <1>6. ViewsPhases'
    BY DEF CountZones, Stored, TypeOK, ViewsPhases, isReady, storageVars, taskVars, streamVars
  <1> QED  BY <1>1, <1>2, <1>3, <1>4, <1>5, <1>6

\* CountZonesFails preserves the invariant.
LEMMA CountZonesFailsInv ==
  ASSUME IInv, NEW c \in Calls, CountZonesFails(c)
  PROVE  IInv'
  <1> USE DEF IInv
  <1>1. TypeOK'
    BY DEF CountZonesFails, TypeOK, StateNames, storageVars, taskVars, streamVars
  <1>2. OneLongLastingOperation'
    BY DEF CountZonesFails, TypeOK, OneLongLastingOperation, Receiving, StreamPhases,
        storageVars, taskVars, streamVars
  <1>3. StreamPhases'
    BY DEF CountZonesFails, TypeOK, StreamPhases, StreamIsSnapshot, storageVars, taskVars,
        streamVars
  <1>4. StreamIsSnapshot'
    BY DEF CountZonesFails, TypeOK, StreamIsSnapshot, StreamPhases, OneLongLastingOperation,
        Receiving, Stored, storageVars, taskVars, streamVars
  <1>5. OkStreamIsComplete'
    BY DEF CountZonesFails, TypeOK, OkStreamIsComplete, StreamPhases, storageVars, taskVars,
        streamVars
  <1>6. ViewsPhases'
    BY DEF CountZonesFails, TypeOK, ViewsPhases, isReady, storageVars, taskVars, streamVars
  <1> QED  BY <1>1, <1>2, <1>3, <1>4, <1>5, <1>6

\* SendOk preserves the invariant.
LEMMA SendOkInv ==
  ASSUME IInv, NEW c \in Calls, SendOk(c)
  PROVE  IInv'
  <1> USE DEF IInv
  <1>1. TypeOK'
    BY DEF SendOk, TypeOK, StateNames, storageVars, taskVars, streamVars
  <1>2. OneLongLastingOperation'
    BY DEF SendOk, TypeOK, OneLongLastingOperation, Receiving, StreamPhases, storageVars,
        taskVars, streamVars
  <1>3. StreamPhases'
    BY DEF SendOk, TypeOK, StreamPhases, StreamIsSnapshot, storageVars, taskVars, streamVars
  <1>4. StreamIsSnapshot'
    BY DEF SendOk, TypeOK, StreamIsSnapshot, StreamPhases, OneLongLastingOperation, Receiving,
        Stored, storageVars, taskVars, streamVars
  <1>5. OkStreamIsComplete'
    BY DEF SendOk, TypeOK, OkStreamIsComplete, StreamPhases, storageVars, taskVars, streamVars
  <1>6. ViewsPhases'
    BY DEF SendOk, TypeOK, ViewsPhases, isReady, storageVars, taskVars, streamVars
  <1> QED  BY <1>1, <1>2, <1>3, <1>4, <1>5, <1>6

\* SendFails preserves the invariant.
LEMMA SendFailsInv ==
  ASSUME IInv, NEW c \in Calls, SendFails(c)
  PROVE  IInv'
  <1> USE DEF IInv
  <1>1. TypeOK'
    BY DEF SendFails, TypeOK, StateNames, storageVars, taskVars, streamVars
  <1>2. OneLongLastingOperation'
    BY DEF SendFails, TypeOK, OneLongLastingOperation, Receiving, StreamPhases, storageVars,
        taskVars, streamVars
  <1>3. StreamPhases'
    BY DEF SendFails, TypeOK, StreamPhases, StreamIsSnapshot, storageVars, taskVars, streamVars
  <1>4. StreamIsSnapshot'
    BY DEF SendFails, TypeOK, StreamIsSnapshot, StreamPhases, OneLongLastingOperation,
        Receiving, Stored, storageVars, taskVars, streamVars
  <1>5. OkStreamIsComplete'
    BY DEF SendFails, TypeOK, OkStreamIsComplete, StreamPhases, storageVars, taskVars,
        streamVars
  <1>6. ViewsPhases'
    BY DEF SendFails, TypeOK, ViewsPhases, isReady, storageVars, taskVars, streamVars
  <1> QED  BY <1>1, <1>2, <1>3, <1>4, <1>5, <1>6

\* ReceiveEnd preserves the invariant.
LEMMA ReceiveEndInv ==
  ASSUME IInv, NEW c \in Calls, ReceiveEnd(c)
  PROVE  IInv'
  <1> USE DEF IInv
  <1>1. TypeOK'
    BY DEF ReceiveEnd, TypeOK, StateNames, storageVars, taskVars, streamVars
  <1>2. OneLongLastingOperation'
    BY DEF ReceiveEnd, TypeOK, OneLongLastingOperation, Receiving, StreamPhases, storageVars,
        taskVars, streamVars
  <1>3. StreamPhases'
    BY DEF ReceiveEnd, TypeOK, StreamPhases, StreamIsSnapshot, storageVars, taskVars,
        streamVars
  <1>4. StreamIsSnapshot'
    BY DEF ReceiveEnd, TypeOK, StreamIsSnapshot, StreamPhases, OneLongLastingOperation,
        Receiving, Stored, storageVars, taskVars, streamVars
  <1>5. OkStreamIsComplete'
    BY DEF ReceiveEnd, TypeOK, OkStreamIsComplete, StreamPhases, storageVars, taskVars,
        streamVars
  <1>6. ViewsPhases'
    BY DEF ReceiveEnd, TypeOK, ViewsPhases, isReady, storageVars, taskVars, streamVars
  <1> QED  BY <1>1, <1>2, <1>3, <1>4, <1>5, <1>6

\* ProducerStart preserves the invariant.
LEMMA ProducerStartInv ==
  ASSUME IInv, NEW c \in Calls, ProducerStart(c)
  PROVE  IInv'
  <1> USE DEF IInv
  <1>1. TypeOK'
    BY DEF ProducerStart, Stored, TypeOK, StateNames, storageVars, taskVars, streamVars
  <1>2. OneLongLastingOperation'
    BY DEF ProducerStart, Stored, TypeOK, OneLongLastingOperation, Receiving, StreamPhases,
        storageVars, taskVars, streamVars
  <1>3. StreamPhases'
    BY DEF ProducerStart, Stored, TypeOK, StreamPhases, StreamIsSnapshot, storageVars,
        taskVars, streamVars
  <1>4. StreamIsSnapshot'
    BY DEF ProducerStart, Stored, TypeOK, StreamIsSnapshot, StreamPhases,
        OneLongLastingOperation, Receiving, storageVars, taskVars, streamVars
  <1>5. OkStreamIsComplete'
    BY DEF ProducerStart, Stored, TypeOK, OkStreamIsComplete, StreamPhases, storageVars,
        taskVars, streamVars
  <1>6. ViewsPhases'
    BY DEF ProducerStart, Stored, TypeOK, ViewsPhases, isReady, storageVars, taskVars,
        streamVars
  <1> QED  BY <1>1, <1>2, <1>3, <1>4, <1>5, <1>6

\* Produce preserves the invariant.
LEMMA ProduceInv ==
  ASSUME IInv, NEW c \in Calls, Produce(c)
  PROVE  IInv'
  <1> USE DEF IInv
  <1>1. TypeOK'
    BY DEF Produce, TypeOK, StateNames, storageVars, taskVars, streamVars
  <1>2. OneLongLastingOperation'
    BY DEF Produce, TypeOK, OneLongLastingOperation, Receiving, StreamPhases, storageVars,
        taskVars, streamVars
  <1>3. StreamPhases'
    BY DEF Produce, TypeOK, StreamPhases, StreamIsSnapshot, storageVars, taskVars, streamVars
  <1>4. StreamIsSnapshot'
    BY DEF Produce, TypeOK, StreamIsSnapshot, StreamPhases, OneLongLastingOperation,
        Receiving, Stored, storageVars, taskVars, streamVars
  <1>5. OkStreamIsComplete'
    BY DEF Produce, TypeOK, OkStreamIsComplete, StreamPhases, storageVars, taskVars, streamVars
  <1>6. ViewsPhases'
    BY DEF Produce, TypeOK, ViewsPhases, isReady, storageVars, taskVars, streamVars
  <1> QED  BY <1>1, <1>2, <1>3, <1>4, <1>5, <1>6

\* ProduceError preserves the invariant.
LEMMA ProduceErrorInv ==
  ASSUME IInv, NEW c \in Calls, ProduceError(c)
  PROVE  IInv'
  <1> USE DEF IInv
  <1>1. TypeOK'
    BY DEF ProduceError, TypeOK, StateNames, storageVars, taskVars, streamVars
  <1>2. OneLongLastingOperation'
    BY DEF ProduceError, TypeOK, OneLongLastingOperation, Receiving, StreamPhases,
        storageVars, taskVars, streamVars
  <1>3. StreamPhases'
    BY DEF ProduceError, TypeOK, StreamPhases, StreamIsSnapshot, storageVars, taskVars,
        streamVars
  <1>4. StreamIsSnapshot'
    BY DEF ProduceError, TypeOK, StreamIsSnapshot, StreamPhases, OneLongLastingOperation,
        Receiving, Stored, storageVars, taskVars, streamVars
  <1>5. OkStreamIsComplete'
    BY DEF ProduceError, TypeOK, OkStreamIsComplete, StreamPhases, storageVars, taskVars,
        streamVars
  <1>6. ViewsPhases'
    BY DEF ProduceError, TypeOK, ViewsPhases, isReady, storageVars, taskVars, streamVars
  <1> QED  BY <1>1, <1>2, <1>3, <1>4, <1>5, <1>6

\* ProducerEnd preserves the invariant.
LEMMA ProducerEndInv ==
  ASSUME IInv, NEW c \in Calls, ProducerEnd(c)
  PROVE  IInv'
  <1> USE DEF IInv
  <1>1. TypeOK'
    BY DEF ProducerEnd, TypeOK, StateNames, storageVars, taskVars, streamVars
  <1>2. OneLongLastingOperation'
    BY DEF ProducerEnd, TypeOK, OneLongLastingOperation, Receiving, StreamPhases, storageVars,
        taskVars, streamVars
  <1>3. StreamPhases'
    <2>1. kind # "disk" /\ call[c] # "idle" => taken[c] = Stored
      BY DEF ProducerEnd, StreamIsSnapshot
    <2>2. kind # "disk" /\ call[c] # "idle" => Cardinality(taken[c]) = total[c]
      BY <2>1 DEF ProducerEnd, StreamIsSnapshot
    <2> QED  BY <2>2 DEF ProducerEnd, TypeOK, StreamPhases, taskVars, storageVars
  <1>4. StreamIsSnapshot'
    BY DEF ProducerEnd, TypeOK, StreamIsSnapshot, StreamPhases, OneLongLastingOperation,
        Receiving, Stored, storageVars, taskVars, streamVars
  <1>5. OkStreamIsComplete'
    BY DEF ProducerEnd, TypeOK, OkStreamIsComplete, StreamPhases, storageVars, taskVars,
        streamVars
  <1>6. ViewsPhases'
    BY DEF ProducerEnd, TypeOK, ViewsPhases, isReady, OneLongLastingOperation, Receiving,
        storageVars, taskVars, streamVars
  <1> QED  BY <1>1, <1>2, <1>3, <1>4, <1>5, <1>6

\* ProducerClose preserves the invariant.
LEMMA ProducerCloseInv ==
  ASSUME IInv, NEW c \in Calls, ProducerClose(c)
  PROVE  IInv'
  <1> USE DEF IInv
  <1>1. TypeOK'
    BY DEF ProducerClose, TypeOK, StateNames, storageVars, taskVars, streamVars
  <1>2. OneLongLastingOperation'
    BY DEF ProducerClose, TypeOK, OneLongLastingOperation, Receiving, StreamPhases,
        storageVars, taskVars, streamVars
  <1>3. StreamPhases'
    BY DEF ProducerClose, TypeOK, StreamPhases, StreamIsSnapshot, storageVars, taskVars,
        streamVars
  <1>4. StreamIsSnapshot'
    BY DEF ProducerClose, TypeOK, StreamIsSnapshot, StreamPhases, OneLongLastingOperation,
        Receiving, Stored, storageVars, taskVars, streamVars
  <1>5. OkStreamIsComplete'
    BY DEF ProducerClose, TypeOK, OkStreamIsComplete, StreamPhases, storageVars, taskVars,
        streamVars
  <1>6. ViewsPhases'
    BY DEF ProducerClose, TypeOK, ViewsPhases, isReady, storageVars, taskVars, streamVars
  <1> QED  BY <1>1, <1>2, <1>3, <1>4, <1>5, <1>6

-----------------------------------------------------------------------------
\* Every step preserves the invariant.
LEMMA NextInv == IInv /\ [Next]_vars => IInv'
  <1> SUFFICES ASSUME IInv, [Next]_vars PROVE IInv'
    OBVIOUS
  <1>1. CASE Monitor
    BY <1>1, MonitorCheckInv, MonitorPopulateInv DEF Monitor
  <1>2. CASE Populate
    BY <1>2, PopulateFetchInv, PopulateSaveInv, PopulateSaveFailsInv, PopulateEndInv DEF Populate
  <1>3. CASE Load
    BY <1>3, LoadBeginInv, LoadEndInv DEF Load
  <1>4. ASSUME NEW c \in Calls, Handler(c) PROVE IInv'
    BY <1>4, ReceiveBeginInv, CountZonesInv, CountZonesFailsInv, SendOkInv, SendFailsInv,
       ReceiveEndInv
    DEF Handler
  <1>5. ASSUME NEW c \in Calls, Producer(c) PROVE IInv'
    BY <1>5, ProducerStartInv, ProduceInv, ProduceErrorInv, ProducerEndInv, ProducerCloseInv
    DEF Producer
  <1>6. CASE UNCHANGED vars
    BY <1>6
    DEF IInv, TypeOK, OneLongLastingOperation, Receiving, StreamPhases, StreamIsSnapshot, Stored,
        OkStreamIsComplete, ViewsPhases, vars, storageVars, taskVars, streamVars
  <1> QED  BY <1>1, <1>2, <1>3, <1>4, <1>5, <1>6 DEF Next

\* The inductive invariant holds in every reachable state.
THEOREM Invariance == Spec => []IInv
  BY InitInv, NextInv, PTL DEF Spec

\* Type correctness of the inventory, its tasks and its streams.
THEOREM TypeCorrect == Spec => []TypeOK
  <1>1. IInv => TypeOK
    BY DEF IInv
  <1> QED  BY Invariance, <1>1, PTL

\* The state machine of transitionUnsafe excludes concurrent long lasting
\* operations, whoever starts them and however many calls there are.
THEOREM MutualExclusion == Spec => []OneLongLastingOperation
  <1>1. IInv => OneLongLastingOperation
    BY DEF IInv
  <1> QED  BY Invariance, <1>1, PTL

\* receiveZones streams the views it counted, whatever the monitor does.
THEOREM Snapshot == Spec => []StreamIsSnapshot
  <1>1. IInv => StreamIsSnapshot
    BY DEF IInv
  <1> QED  BY Invariance, <1>1, PTL

\* A ReceiveZones call that succeeds has delivered every zone it announced.
THEOREM Completeness == Spec => []OkStreamIsComplete
  <1>1. IInv => OkStreamIsComplete
    BY DEF IInv
  <1> QED  BY Invariance, <1>1, PTL

\* No call is let in before the storage holds views.
THEOREM ServesStored == Spec => []ServesOnlyStoredViews
  <1>1. IInv => ServesOnlyStoredViews
    BY DEF IInv, ViewsPhases, ServesOnlyStoredViews
  <1> QED  BY Invariance, <1>1, PTL

\* The views change under POPULATING and LOADING only, never under a stream.
THEOREM ExclusiveReplacement == Spec => ViewsReplacedExclusively
  <1>1. IInv /\ [Next]_vars =>
          [views' # views => state \in {"POPULATING", "LOADING"} /\ state' # "RECEIVING_ZONES"]_vars
    BY DEF IInv, OneLongLastingOperation, Next, Monitor, Populate, Load, Handler, Producer,
       MonitorCheck, MonitorPopulate, PopulateFetch, PopulateSave, PopulateSaveFails, PopulateEnd,
       LoadBegin, LoadEnd, ReceiveBegin, CountZones, CountZonesFails, SendOk, SendFails,
       ReceiveEnd, ProducerStart, Produce, ProduceError, ProducerEnd, ProducerClose,
       vars, storageVars, taskVars, streamVars
  <1> QED  BY Invariance, <1>1, PTL DEF Spec, ViewsReplacedExclusively
=============================================================================
