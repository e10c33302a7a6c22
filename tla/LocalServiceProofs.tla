------------------------- MODULE LocalServiceProofs -------------------------
(***************************************************************************)
(* The store is a critical section for any number of processes, targets    *)
(* and credentials.  OneWriter alone is not inductive: the proof carries   *)
(* what a transaction staged (it is the change applied to the store as it  *)
(* still is) and that no marker appeared since its read.                   *)
(*                                                                         *)
(* No reader of the store uses a credential that was not on offer while    *)
(* its request ran.  The argument is that seen always holds what is on     *)
(* offer now, so whatever Open finds is in it, and seen only grows.        *)
(***************************************************************************)
EXTENDS LocalService, TLAPS

-----------------------------------------------------------------------------
(* The store *)

\* A staged transaction is the change of its process applied to the store as it
\* is now, and the marker is absent.
StagedCurrent ==
    \A p \in Procs : proc[p].step \in {"staged", "checked"} =>
        /\ Writes(proc[p].op)
        /\ proc[p].data = Apply(proc[p].op, Content(store))
        /\ ~locked

IInv == StoreTypeOK /\ OneWriter /\ StagedCurrent

\* The changes an operation makes stay within Data.
LEMMA ApplyType ==
    ASSUME NEW op \in Operations, NEW d \in Data, Writes(op)
    PROVE Apply(op, d) \in Data
<1>1. CASE op.kind = "put"
  <2>1. op \in [kind : {"put"}, t : Targets, cs : SUBSET Credentials \ {{}}]
    BY <1>1 DEF Operations, Changes
  <2>2. Put(d, op.t, op.cs) \in Data
    BY <2>1 DEF Put, Data
  <2> QED
    BY <1>1, <2>2 DEF Apply
<1>2. CASE op.kind = "disable"
  <2>1. op \in [kind : {"disable"}, t : Targets]
    BY <1>2 DEF Operations, Changes
  <2> QED
    BY <1>2, <2>1 DEF Apply, Disable, Data
<1>3. CASE op.kind = "keyFile"
  <2>1. op \in [kind : {"keyFile"}, f : Paths, c : Keys]
    BY <1>3 DEF Operations, Changes
  <2> QED
    BY <1>3, <2>1 DEF Apply, RememberKeyFile, Data
<1>4. CASE op.kind = "setSecret"
  <2>1. op \in [kind : {"setSecret"}, name : Secrets]
    BY <1>4 DEF Operations, Changes
  <2> QED
    BY <1>4, <2>1 DEF Apply, SetSecret, Data
<1>5. CASE op.kind = "deleteSecrets"
  <2>1. op \in [kind : {"deleteSecrets"}, names : SUBSET Secrets]
    BY <1>5 DEF Operations, Changes
  <2> QED
    BY <1>5, <2>1 DEF Apply, DeleteSecrets, Data
<1>6. CASE op.kind = "ensure"
  BY <1>6 DEF Apply
<1> QED
  BY <1>1, <1>2, <1>3, <1>4, <1>5, <1>6 DEF Operations, Changes, Writes

LEMMA EmptyDataType == EmptyData \in Data
BY DEF EmptyData, Data

LEMMA ContentType ==
    ASSUME store \in Data \cup {NoStore} PROVE Content(store) \in Data
BY EmptyDataType DEF Content

LEMMA RestType == Rest \in [step : Steps, op : Operations, data : Data]
BY EmptyDataType DEF Rest, Steps, Operations, Changes, Nothing

LEMMA InitInv == StoreInit => IInv
<1> SUFFICES ASSUME StoreInit PROVE IInv
  OBVIOUS
<1>1. StoreTypeOK
  BY RestType DEF StoreInit, StoreTypeOK
<1>2. \A p \in Procs : proc[p].step = "idle"
  BY DEF StoreInit, Rest
<1> QED
  BY <1>1, <1>2, StoreAssumption DEF IInv, OneWriter, StagedCurrent, StoreInit

LEMMA StepInv == IInv /\ [StoreNext]_storeVars => IInv'
<1> SUFFICES ASSUME IInv, [StoreNext]_storeVars PROVE IInv'
  OBVIOUS
<1> USE DEF IInv, Steps
<1>1. ASSUME NEW p \in Procs, NEW op \in Operations, Begin(p, op) PROVE IInv'
  <2>1. [Rest EXCEPT !.step = "wait", !.op = op]
          \in [step : Steps, op : Operations, data : Data]
    BY RestType
  <2>2. [Rest EXCEPT !.step = "wait", !.op = op].step = "wait"
    BY DEF Rest
  <2> QED
    BY <1>1, <2>1, <2>2 DEF Begin, StoreTypeOK, OneWriter, StagedCurrent
<1>2. ASSUME NEW p \in Procs, Stage(p) PROVE IInv'
  <2>1. Apply(proc[p].op, Content(store)) \in Data
    BY <1>2, ApplyType, ContentType DEF Stage, StoreTypeOK
  <2>2. StoreTypeOK'
    BY <1>2, <2>1 DEF Stage, StoreTypeOK
  <2>3. OneWriter'
    BY <1>2, StoreAssumption DEF Stage, StoreTypeOK, OneWriter
  <2>4. StagedCurrent'
    BY <1>2 DEF Stage, StoreTypeOK, StagedCurrent
  <2> QED
    BY <2>2, <2>3, <2>4
<1>3. ASSUME NEW p \in Procs, Refused(p) PROVE IInv'
  BY <1>3, RestType DEF Refused, Rest, StoreTypeOK, OneWriter, StagedCurrent
<1>4. ASSUME NEW p \in Procs, Recheck(p) PROVE IInv'
  <2>1. CASE locked
    BY <1>4, <2>1, RestType, StoreAssumption
       DEF Recheck, Rest, StoreTypeOK, OneWriter, StagedCurrent
  <2>2. CASE ~locked
    BY <1>4, <2>2 DEF Recheck, StoreTypeOK, OneWriter, StagedCurrent
  <2> QED
    BY <2>1, <2>2
<1>5. ASSUME NEW p \in Procs, Write(p) PROVE IInv'
  <2>1. StoreTypeOK'
    BY <1>5 DEF Write, StoreTypeOK
  <2>2. OneWriter'
    BY <1>5 DEF Write, StoreTypeOK, OneWriter
  <2>3. \A q \in Procs : proc'[q].step \notin {"staged", "checked"}
    BY <1>5 DEF Write, StoreTypeOK, OneWriter
  <2> QED
    BY <2>1, <2>2, <2>3 DEF StagedCurrent
<1>6. ASSUME NEW p \in Procs, Lock(p) PROVE IInv'
  <2>1. \A q \in Procs : proc'[q].step \notin {"staged", "checked"}
    BY <1>6, StoreAssumption DEF Lock, StoreTypeOK, OneWriter
  <2> QED
    BY <1>6, <2>1, StoreAssumption DEF Lock, StoreTypeOK, OneWriter, StagedCurrent
<1>7. ASSUME NEW p \in Procs, Unlock(p) PROVE IInv'
  <2>1. \A q \in Procs : proc[q].step \notin {"staged", "checked"}
    BY <1>7, StoreAssumption DEF Unlock, StoreTypeOK, OneWriter
  <2>2. CASE store = NoStore
    BY <1>7, <2>1, <2>2, RestType
       DEF Unlock, Rest, StoreTypeOK, OneWriter, StagedCurrent
  <2>3. CASE store # NoStore
    <3>1. /\ proc' = [proc EXCEPT ![p].step = "done"]
          /\ locked' = FALSE /\ holder' = p /\ UNCHANGED <<store, files>>
      BY <1>7, <2>3 DEF Unlock
    <3>2. StoreTypeOK'
      BY <3>1 DEF StoreTypeOK
    <3>3. OneWriter' /\ StagedCurrent'
      BY <1>7, <2>1, <3>1, StoreAssumption
         DEF Unlock, StoreTypeOK, OneWriter, StagedCurrent
    <3> QED
      BY <3>2, <3>3
  <2> QED
    BY <2>2, <2>3
<1>8. ASSUME NEW p \in Procs, Release(p) PROVE IInv'
  BY <1>8, RestType, StoreAssumption
     DEF Release, Rest, StoreTypeOK, OneWriter, StagedCurrent
<1>9. ASSUME NEW p \in Procs, Abort(p) PROVE IInv'
  BY <1>9, RestType, StoreAssumption
     DEF Abort, Rest, StoreTypeOK, OneWriter, StagedCurrent
<1>10. ASSUME NEW f \in Paths, ReplaceKeyFile(f) PROVE IInv'
  BY <1>10 DEF ReplaceKeyFile, StoreTypeOK, OneWriter, StagedCurrent
<1>11. CASE UNCHANGED storeVars
  BY <1>11 DEF storeVars, StoreTypeOK, OneWriter, StagedCurrent
<1> QED
  BY <1>1, <1>2, <1>3, <1>4, <1>5, <1>6, <1>7, <1>8, <1>9, <1>10, <1>11
     DEF StoreNext, Take, Proceed

\* The invariant of the critical section holds in every state of the store.
THEOREM StoreInvariant == StoreSpec => []IInv
BY InitInv, StepInv, PTL DEF StoreSpec

\* The state of the store stays in its type for every set of processes, targets,
\* key files and credentials.
THEOREM StoreTyped == StoreSpec => []StoreTypeOK
BY StoreInvariant, PTL DEF IInv

\* Update, Lock and Unlock exclude one another, crashes included.
THEOREM WriterExclusion == StoreSpec => []OneWriter
BY StoreInvariant, PTL DEF IInv

\* A write happens only in Write, whose process staged its change on the store
\* as it still is.
LEMMA WriteStep ==
    ASSUME IInv, [StoreNext]_storeVars, store' # store
    PROVE \E p \in Procs : Write(p)
BY DEF StoreNext, Take, Proceed, storeVars, Begin, Stage, Refused, Recheck, Lock,
       Unlock, Release, Abort, ReplaceKeyFile

\* Concurrent Update calls of any number of processes lose no change.
THEOREM UpdatesKept == StoreSpec => NoLostUpdate
<1>1. IInv /\ [StoreNext]_storeVars
        => [store' # store =>
              \E p \in Procs : /\ Writes(proc[p].op)
                               /\ store' = Apply(proc[p].op, Content(store))]_storeVars
  <2> SUFFICES ASSUME IInv, [StoreNext]_storeVars, store' # store
      PROVE \E p \in Procs : /\ Writes(proc[p].op)
                             /\ store' = Apply(proc[p].op, Content(store))
    OBVIOUS
  <2>1. PICK p \in Procs : Write(p)
    BY WriteStep
  <2> QED
    BY <2>1 DEF Write, IInv, StagedCurrent
<1> QED
  BY <1>1, StoreInvariant, PTL DEF StoreSpec, NoLostUpdate

\* Behind the marker of `service lock` no staged transaction reaches the disk.
THEOREM LockFreezes == StoreSpec => LockFreezesStore
<1>1. IInv /\ [StoreNext]_storeVars => [locked => store' = store]_storeVars
  <2> SUFFICES ASSUME IInv, [StoreNext]_storeVars, locked PROVE store' = store
    OBVIOUS
  <2>1. ASSUME NEW p \in Procs, Write(p) PROVE FALSE
    BY <2>1 DEF Write, IInv, StagedCurrent
  <2> QED
    BY <2>1, WriteStep
<1> QED
  BY <1>1, StoreInvariant, PTL DEF StoreSpec, LockFreezesStore

-----------------------------------------------------------------------------
\* Lock passed its Enabled check, and the store never disappears again.
MarkerHasStore ==
    /\ locked => store # NoStore
    /\ \A p \in Procs : proc[p].step = "wait" /\ proc[p].op.kind = "lock"
                          => store # NoStore

LEMMA MarkerStep == IInv /\ MarkerHasStore /\ [StoreNext]_storeVars => MarkerHasStore'
<1> SUFFICES ASSUME IInv, MarkerHasStore, [StoreNext]_storeVars
             PROVE MarkerHasStore'
  OBVIOUS
<1> USE DEF MarkerHasStore, IInv, StoreTypeOK
<1>1. store # NoStore => store' # NoStore
  <2>1. ASSUME NEW p \in Procs, Write(p) PROVE store' # NoStore
    BY <2>1, StoreAssumption DEF Write
  <2> QED
    BY <2>1, WriteStep
<1>2. ASSUME NEW p \in Procs, NEW op \in Operations, Begin(p, op)
      PROVE MarkerHasStore'
  BY <1>2, <1>1 DEF Begin
<1>3. ASSUME NEW p \in Procs, Lock(p) PROVE MarkerHasStore'
  BY <1>3, <1>1 DEF Lock
<1>4. ASSUME NEW p \in Procs, Unlock(p) PROVE MarkerHasStore'
  BY <1>4, <1>1 DEF Unlock, Rest
<1>5. ASSUME NEW p \in Procs, \/ Stage(p) \/ Refused(p) \/ Recheck(p) \/ Write(p)
                              \/ Release(p) \/ Abort(p)
      PROVE MarkerHasStore'
  BY <1>5, <1>1 DEF Stage, Refused, Recheck, Write, Release, Abort, Rest
<1>6. ASSUME NEW f \in Paths, ReplaceKeyFile(f) PROVE MarkerHasStore'
  BY <1>6, <1>1 DEF ReplaceKeyFile
<1>7. CASE UNCHANGED storeVars
  BY <1>7 DEF storeVars
<1> QED
  BY <1>2, <1>3, <1>4, <1>5, <1>6, <1>7 DEF StoreNext, Take, Proceed

-----------------------------------------------------------------------------
(* The refinement: each step is one of CredentialStore or a stutter.       *)

\* What the mapping becomes when only p's record changes.
LEMMA AskedStep ==
    ASSUME NEW p \in Procs, \A q \in Procs \ {p} : proc'[q] = proc[q],
           NEW o, o = IF proc'[p].step = "idle" THEN NoOp ELSE proc'[p].op
    PROVE Asked'[p] = o /\ Asked' = [Asked EXCEPT ![p] = o]
<1>1. Asked'[p] = o
  BY DEF Asked
<1>2. \A q \in Procs \ {p} : Asked'[q] = Asked[q]
  BY DEF Asked
<1>3. Asked = [q \in Procs |-> Asked[q]] /\ Asked' = [q \in Procs |-> Asked'[q]]
  BY DEF Asked
<1> HIDE DEF Asked
<1> QED
  BY <1>1, <1>2, <1>3

LEMMA OpIsNotNoOp == \A op \in Operations : op # NoOp
BY DEF Operations, Changes, NoOp

\* A step that leaves the operation, its effect, the content and the marker
\* alone is a stutter.
LEMMA StutterStep ==
    ASSUME IInv, IInv', NEW p \in Procs, NEW s \in Steps,
           proc[p].step # "idle", s # "idle", (s = "done") <=> (proc[p].step = "done"),
           proc'[p].step = s, proc'[p].op = proc[p].op,
           \A q \in Procs \ {p} : proc'[q] = proc[q], UNCHANGED <<store, locked>>
    PROVE UNCHANGED Abstract!vars
<1>1. Asked' = Asked
  BY DEF Asked
<1>2. Took' = Took
  BY DEF Took
<1> QED
  BY <1>1, <1>2 DEF Abstract!vars

\* Every way for an operation to end without an effect of its own.
LEMMA ReturnStep ==
    ASSUME IInv, IInv', NEW p \in Procs,
           proc[p].step # "idle", proc' = [proc EXCEPT ![p] = Rest], UNCHANGED <<store, locked>>
    PROVE Abstract!Return(p)
<1>1. proc'[p].step = "idle" /\ \A q \in Procs \ {p} : proc'[q] = proc[q]
  BY DEF IInv, StoreTypeOK, Rest
<1>2. Asked' = [Asked EXCEPT ![p] = NoOp]
  BY <1>1, AskedStep
<1>3. Took' = [Took EXCEPT ![p] = FALSE]
  BY <1>1 DEF Took
<1>4. Asked[p] # NoOp
  BY OpIsNotNoOp DEF Asked, IInv, StoreTypeOK
<1> QED
  BY <1>2, <1>3, <1>4 DEF Abstract!Return

\* The rename, the marker and its removal are the effects.
LEMMA EffectStep ==
    ASSUME IInv, IInv', NEW p \in Procs,
           proc[p].step \in {"wait", "checked"}, proc' = [proc EXCEPT ![p].step = "done"]
    PROVE /\ Asked' = Asked /\ Asked[p] = proc[p].op /\ Asked[p] # NoOp
          /\ ~Took[p] /\ Took' = [Took EXCEPT ![p] = TRUE]
<1>1. /\ proc'[p].step = "done" /\ proc'[p].op = proc[p].op
      /\ \A q \in Procs \ {p} : proc'[q] = proc[q]
  BY DEF IInv, StoreTypeOK
<1>2. Asked' = Asked /\ Asked[p] = proc[p].op
  BY <1>1 DEF Asked
<1>3. ~Took[p] /\ Took' = [Took EXCEPT ![p] = TRUE]
  BY <1>1 DEF Took
<1> QED
  BY <1>2, <1>3, OpIsNotNoOp DEF IInv, StoreTypeOK

LEMMA RefinementStep ==
    ASSUME IInv, MarkerHasStore, IInv', [StoreNext]_storeVars
    PROVE [Abstract!Next]_(Abstract!vars)
<1>1. ASSUME NEW p \in Procs, NEW op \in Operations, Begin(p, op) PROVE Abstract!Call(p)
  <2>1. /\ proc'[p].step = "wait" /\ proc'[p].op = op
        /\ \A q \in Procs \ {p} : proc'[q] = proc[q]
    BY <1>1 DEF Begin, Rest, IInv, StoreTypeOK
  <2>2. Asked[p] = NoOp /\ Asked'[p] = op /\ Asked' = [Asked EXCEPT ![p] = Asked'[p]]
    <3>1. Asked'[p] = op /\ Asked' = [Asked EXCEPT ![p] = op]
      BY <2>1, AskedStep
    <3>2. Asked[p] = NoOp
      BY <1>1 DEF Asked, Begin
    <3> QED
      BY <3>1, <3>2
  <2>3. Took' = Took
    BY <1>1, <2>1 DEF Took, Begin
  <2> QED
    BY <1>1, <2>2, <2>3 DEF Abstract!Call, Begin
<1>2. ASSUME NEW p \in Procs, Stage(p) PROVE UNCHANGED Abstract!vars
  <2>1. proc'[p].step = "staged" /\ proc'[p].op = proc[p].op /\ \A q \in Procs \ {p} : proc'[q] = proc[q]
    BY <1>2 DEF Stage, IInv, StoreTypeOK
  <2> QED
    BY <1>2, <2>1, StutterStep DEF Stage, Steps
<1>3. ASSUME NEW p \in Procs, Refused(p) \/ Release(p) \/ Abort(p) PROVE Abstract!Return(p)
  BY <1>3, ReturnStep DEF Refused, Release, Abort
<1>4. ASSUME NEW p \in Procs, Recheck(p)
      PROVE Abstract!Return(p) \/ UNCHANGED Abstract!vars
  <2>1. CASE locked
    BY <1>4, <2>1, ReturnStep DEF Recheck
  <2>2. CASE ~locked
    <3>1. proc'[p].step = "checked" /\ proc'[p].op = proc[p].op /\ \A q \in Procs \ {p} : proc'[q] = proc[q]
      BY <1>4, <2>2 DEF Recheck, IInv, StoreTypeOK
    <3> QED
      BY <1>4, <3>1, StutterStep DEF Recheck, Steps
  <2> QED
    BY <2>1, <2>2
<1>5. ASSUME NEW p \in Procs, Write(p) PROVE Abstract!Effect(p)
  <2>1. store' = ChangeOf(proc[p].op, store) /\ ~locked /\ proc[p].op.kind \notin {"lock", "unlock"}
    BY <1>5 DEF Write, IInv, StagedCurrent, Writes, ChangeOf
  <2> QED
    BY <1>5, <2>1, EffectStep DEF Write, Abstract!Effect
<1>6. ASSUME NEW p \in Procs, Lock(p) PROVE Abstract!Effect(p)
  <2>1. store # NoStore
    BY <1>6 DEF Lock, MarkerHasStore
  <2> QED
    BY <1>6, <2>1, EffectStep DEF Lock, Abstract!Effect
<1>7. ASSUME NEW p \in Procs, Unlock(p) PROVE Abstract!Effect(p) \/ Abstract!Return(p)
  <2>1. CASE store = NoStore
    BY <1>7, <2>1, ReturnStep DEF Unlock
  <2>2. CASE store # NoStore
    BY <1>7, <2>2, EffectStep DEF Unlock, Abstract!Effect
  <2> QED
    BY <2>1, <2>2
<1>8. CASE UNCHANGED <<store, locked, proc>>
  BY <1>8 DEF Abstract!vars, Asked, Took
<1> QED
  BY <1>1, <1>2, <1>3, <1>4, <1>5, <1>6, <1>7, <1>8
     DEF StoreNext, Take, Proceed, ReplaceKeyFile, storeVars, Abstract!Next

\* A marker is beside a store in every state.
THEOREM MarkerInvariant == StoreSpec => []MarkerHasStore
<1>1. StoreInit => MarkerHasStore
  BY DEF StoreInit, MarkerHasStore, Rest
<1> QED
  BY <1>1, MarkerStep, StoreInvariant, PTL DEF StoreSpec

\* The store of any number of processes that update, lock, unlock and die
\* implements CredentialStore: every operation takes effect at one moment or
\* not at all.
THEOREM StoreRefines == StoreSpec => Linearizable
<1>1. StoreInit => Abstract!Init
  <2> SUFFICES ASSUME StoreInit PROVE Abstract!Init
    OBVIOUS
  <2>1. \A p \in Procs : proc[p].step = "idle"
    BY DEF StoreInit, Rest
  <2> QED
    BY <2>1 DEF StoreInit, Abstract!Init, Asked, Took
<1>2. IInv /\ MarkerHasStore /\ IInv' /\ [StoreNext]_storeVars => [Abstract!Next]_(Abstract!vars)
  BY RefinementStep
<1> QED
  BY <1>1, <1>2, StoreInvariant, MarkerInvariant, PTL DEF StoreSpec, Linearizable, Abstract!Spec

-----------------------------------------------------------------------------
(* The readers *)

SeenCurrent ==
    /\ \A h \in Handlers : sign[h].step # "idle"
                             => AllOffers(store, locked) \subseteq sign[h].seen
    /\ \A c \in Clients : login[c].step = "open"
                            => Offers(store, locked, login[c].t) \subseteq login[c].seen

\* From the match on, the key is one that was offered.
MatchSeen == \A h \in Handlers : sign[h].step \in {"match", "clear"} \/ sign[h].signed
                                   => sign[h].key \in sign[h].seen

ReadersOK == /\ sign \in [Handlers -> SignRequest]
             /\ login \in [Clients -> Attempt]

ReaderInv == /\ IInv /\ ReadersOK /\ SeenCurrent /\ MatchSeen /\ LoginWhileOffered

LEMMA BoundType ==
    ASSUME NEW d \in Data, NEW t \in Targets
    PROVE Bound(d, t) \subseteq Credentials
BY StoreAssumption DEF Bound, Data, Credentials

LEMMA OffersType ==
    ASSUME NEW st \in Data \cup {NoStore}, NEW lk, NEW t \in Targets
    PROVE Offers(st, lk, t) \subseteq Credentials \cup {Fallback}
BY BoundType DEF Offers

LEMMA AllOffersType ==
    ASSUME NEW st \in Data \cup {NoStore}, NEW lk
    PROVE AllOffers(st, lk) \subseteq Credentials \cup {Fallback}
BY OffersType DEF AllOffers

\* What Open hands out is on offer at that moment; so is "not found", for a
\* marker is only ever written beside a store.
LEMMA OpenOffered ==
    ASSUME NEW t \in Targets, locked => store # NoStore
    PROVE /\ Open(files, t).code = "ok" => Open(files, t).cs = Offers(store, locked, t)
          /\ Open(files, t).code = "notFound" => Fallback \in Offers(store, locked, t)
<1>1. CASE store = NoStore
  BY <1>1 DEF Open, Offers
<1>2. CASE store # NoStore /\ locked
  BY <1>2 DEF Open, Offers
<1>3. CASE store # NoStore /\ ~locked
  <2>1. Open(files, t) = Resolve(store, files, t)
    BY <1>3 DEF Open
  <2>2. CASE t \in store.disabled
    BY <2>1, <2>2, <1>3 DEF Resolve, Offers
  <2>3. CASE t \notin store.disabled /\ Bound(store, t) = {}
    BY <2>1, <2>3, <1>3 DEF Resolve, Offers
  <2>4. CASE t \notin store.disabled /\ Bound(store, t) # {}
    BY <2>1, <2>4, <1>3 DEF Resolve, Offers
  <2> QED
    BY <2>2, <2>3, <2>4
<1> QED
  BY <1>1, <1>2, <1>3

-----------------------------------------------------------------------------
FullInv == ReaderInv /\ MarkerHasStore

LEMMA NoRequestType == NoRequest \in SignRequest /\ NoAttempt \in Attempt
<1>1. (CHOOSE k \in Keys : TRUE) \in Keys /\ (CHOOSE t \in Targets : TRUE) \in Targets
  BY ServiceAssumption
<1> QED
  BY <1>1 DEF NoRequest, NoAttempt, SignRequest, Attempt

LEMMA ReaderInit == Init => FullInv
<1> SUFFICES ASSUME Init PROVE FullInv
  OBVIOUS
<1>1. IInv
  BY InitInv DEF Init
<1>2. MarkerHasStore
  BY DEF Init, StoreInit, MarkerHasStore, Rest
<1>3. ReadersOK
  BY NoRequestType DEF Init, ReadersOK
<1>4. SeenCurrent /\ MatchSeen /\ LoginWhileOffered
  BY DEF Init, NoRequest, NoAttempt, SeenCurrent, MatchSeen, LoginWhileOffered
<1> QED
  BY <1>1, <1>2, <1>3, <1>4 DEF FullInv, ReaderInv

\* A step of a store process: what is on offer changes, and every open request
\* sees it.
LEMMA StoreStepInv == FullInv /\ StoreNext /\ Observed => FullInv'
<1> SUFFICES ASSUME FullInv, StoreNext, Observed PROVE FullInv'
  OBVIOUS
<1> USE DEF FullInv, ReaderInv
<1>1. IInv' /\ MarkerHasStore'
  BY StepInv, MarkerStep
<1>2. store' \in Data \cup {NoStore}
  BY <1>1 DEF IInv, StoreTypeOK
<1>3. AllOffers(store', locked') \subseteq Credentials \cup {Fallback}
  BY <1>2, AllOffersType
<1>4. \A t \in Targets : Offers(store', locked', t) \subseteq Credentials \cup {Fallback}
  BY <1>2, OffersType
<1>5. ReadersOK'
  <2>1. ASSUME NEW h \in Handlers PROVE sign'[h] \in SignRequest
    BY <2>1, <1>3 DEF Observed, ReadersOK, SignRequest
  <2>2. ASSUME NEW c \in Clients PROVE login'[c] \in Attempt
    BY <2>2, <1>4 DEF Observed, ReadersOK, Attempt
  <2>3. sign' = [h \in Handlers |-> sign'[h]] /\ login' = [c \in Clients |-> login'[c]]
    BY DEF Observed
  <2> QED
    BY <2>1, <2>2, <2>3 DEF ReadersOK
<1>6. ASSUME NEW h \in Handlers
      PROVE /\ sign'[h].step = sign[h].step /\ sign'[h].key = sign[h].key
            /\ sign'[h].signed = sign[h].signed
            /\ sign[h].seen \subseteq sign'[h].seen
            /\ sign[h].step # "idle"
                 => AllOffers(store', locked') \subseteq sign'[h].seen
  BY <1>6 DEF Observed, ReadersOK, SignRequest
<1>7. ASSUME NEW c \in Clients
      PROVE /\ login'[c].step = login[c].step /\ login'[c].t = login[c].t
            /\ login'[c].auth = login[c].auth
            /\ login'[c].explicit = login[c].explicit
            /\ login[c].seen \subseteq login'[c].seen
            /\ login[c].step = "open"
                 => Offers(store', locked', login[c].t) \subseteq login'[c].seen
  BY <1>7 DEF Observed, ReadersOK, Attempt
<1>8. SeenCurrent'
  BY <1>6, <1>7 DEF SeenCurrent
<1>9. MatchSeen'
  BY <1>6 DEF MatchSeen
<1>10. LoginWhileOffered'
  BY <1>7 DEF LoginWhileOffered
<1> QED
  BY <1>1, <1>5, <1>8, <1>9, <1>10

\* The steps of a signature request.
LEMMA AgentStepInv ==
    ASSUME FullInv, NEW h \in Handlers, Agent(h) PROVE FullInv'
<1> USE DEF FullInv, ReaderInv
<1>1. /\ UNCHANGED <<storeVars, login>>
  BY DEF Agent, SignBegin, Scan, SignCheck, Sign, SignEnd
<1>2. /\ IInv' /\ MarkerHasStore' /\ LoginWhileOffered'
      /\ AllOffers(store, locked)' = AllOffers(store, locked)
      /\ \A t \in Targets : Offers(store, locked, t)' = Offers(store, locked, t)
  BY <1>1 DEF storeVars, IInv, StoreTypeOK, OneWriter, StagedCurrent, MarkerHasStore,
              LoginWhileOffered, Content, AllOffers, Offers, Bound
<1> DEFINE Kept == /\ sign' \in [Handlers -> SignRequest]
                   /\ sign'[h].step # "idle"
                        => AllOffers(store, locked) \subseteq sign'[h].seen
                   /\ sign'[h].step \in {"match", "clear"} \/ sign'[h].signed
                        => sign'[h].key \in sign'[h].seen
                   /\ \A g \in Handlers \ {h} : sign'[g] = sign[g]
<1>3. Kept => FullInv'
  BY <1>1, <1>2 DEF ReadersOK, SeenCurrent, MatchSeen, storeVars
<1>4. ASSUME NEW k \in Keys, SignBegin(h, k) PROVE Kept
  <2>1. AllOffers(store, locked) \subseteq Credentials \cup {Fallback}
    BY AllOffersType DEF IInv, StoreTypeOK
  <2>2. [step |-> "scan", key |-> k, todo |-> Targets, signed |-> FALSE,
         seen |-> AllOffers(store, locked)] \in SignRequest
    BY <2>1 DEF SignRequest
  <2> QED
    BY <1>4, <2>2 DEF SignBegin, ReadersOK
<1>5. ASSUME NEW t \in Targets, Scan(h, t) PROVE Kept
  <2>1. CASE Open(files, t).code \in {"locked", "changed"}
    BY <1>5, <2>1, NoRequestType DEF Scan, ReadersOK, NoRequest
  <2>2. CASE Open(files, t).code \notin {"locked", "changed"}
    <3> DEFINE found == /\ Open(files, t).code = "ok"
                        /\ sign[h].key \in Open(files, t).cs /\ ~sign[h].signed
               step == IF found THEN "match" ELSE "scan"
    <3>1. sign' = [sign EXCEPT ![h].todo = @ \ {t}, ![h].step = step]
      BY <1>5, <2>2 DEF Scan
    <3>2. found => sign[h].key \in AllOffers(store, locked)
      BY OpenOffered DEF AllOffers, MarkerHasStore
    <3>3. sign[h].step = "scan"
      BY <1>5 DEF Scan
    <3>4. step \in {"match", "scan"} /\ (step = "match" => found)
      OBVIOUS
    <3> HIDE DEF step, found
    <3>5. sign' \in [Handlers -> SignRequest]
      <4> DEFINE x == [sign[h] EXCEPT !.todo = @ \ {t}, !.step = step]
      <4>1. sign' = [sign EXCEPT ![h] = x] /\ sign \in [Handlers -> SignRequest]
        BY <3>1 DEF ReadersOK
      <4>2. x \in SignRequest
        BY <3>4, <4>1 DEF SignRequest
      <4> HIDE DEF x
      <4> QED
        BY <4>1, <4>2
    <3>6. /\ sign'[h].step = step /\ sign'[h].key = sign[h].key
          /\ sign'[h].seen = sign[h].seen /\ sign'[h].signed = sign[h].signed
          /\ \A g \in Handlers \ {h} : sign'[g] = sign[g]
      BY <3>1 DEF ReadersOK, SignRequest
    <3> QED
      BY <3>2, <3>3, <3>4, <3>5, <3>6 DEF SeenCurrent, MatchSeen
  <2> QED
    BY <2>1, <2>2
<1>6. ASSUME SignCheck(h) PROVE Kept
  <2>1. CASE locked
    BY <1>6, <2>1, NoRequestType DEF SignCheck, ReadersOK, NoRequest
  <2>2. CASE ~locked
    BY <1>6, <2>2 DEF SignCheck, ReadersOK, SignRequest, SeenCurrent, MatchSeen
  <2> QED
    BY <2>1, <2>2
<1>7. ASSUME Sign(h) PROVE Kept
  BY <1>7 DEF Sign, ReadersOK, SignRequest, SeenCurrent, MatchSeen
<1>8. ASSUME SignEnd(h) PROVE Kept
  BY <1>8, NoRequestType DEF SignEnd, ReadersOK, NoRequest
<1> QED
  BY <1>3, <1>4, <1>5, <1>6, <1>7, <1>8 DEF Agent

\* The steps of a connection attempt.
LEMMA ClientStepInv ==
    ASSUME FullInv, NEW c \in Clients, Client(c) PROVE FullInv'
<1> USE DEF FullInv, ReaderInv
<1>1. UNCHANGED <<storeVars, sign>>
  BY DEF Client, LoginBegin, LoginResolve, LoginEnd
<1>2. /\ IInv' /\ MarkerHasStore' /\ MatchSeen'
      /\ AllOffers(store, locked)' = AllOffers(store, locked)
  BY <1>1 DEF storeVars, IInv, StoreTypeOK, OneWriter, StagedCurrent, MarkerHasStore,
              MatchSeen, Content, AllOffers, Offers, Bound
<1> DEFINE Kept == /\ login' \in [Clients -> Attempt]
                   /\ login'[c].step = "open"
                        => Offers(store, locked, login'[c].t) \subseteq login'[c].seen
                   /\ ~login'[c].explicit => login'[c].auth \subseteq login'[c].seen
                   /\ \A e \in Clients \ {c} : login'[e] = login[e]
<1>3. Kept => FullInv'
  BY <1>1, <1>2 DEF ReadersOK, SeenCurrent, LoginWhileOffered, storeVars
<1>4. ASSUME NEW t \in Targets, NEW explicit \in BOOLEAN, LoginBegin(c, t, explicit)
      PROVE Kept
  <2> DEFINE new == [step |-> IF explicit THEN "end" ELSE "open",
                     t |-> t, explicit |-> explicit,
                     auth |-> IF explicit THEN {Fallback} ELSE {},
                     seen |-> Offers(store, locked, t)]
  <2>1. Offers(store, locked, t) \subseteq Credentials \cup {Fallback}
    BY OffersType DEF IInv, StoreTypeOK
  <2>2. new \in Attempt
    BY <2>1 DEF Attempt
  <2>3. login' = [login EXCEPT ![c] = new]
    BY <1>4 DEF LoginBegin
  <2>4. /\ new.step = "open" => Offers(store, locked, new.t) \subseteq new.seen
        /\ ~new.explicit => new.auth \subseteq new.seen
    OBVIOUS
  <2> HIDE DEF new
  <2> QED
    BY <2>2, <2>3, <2>4 DEF ReadersOK
<1>5. ASSUME LoginResolve(c) PROVE Kept
  <2> DEFINE res == Open(files, login[c].t)
             auth == CASE res.code = "ok" -> res.cs
                       [] res.code = "notFound" -> {Fallback}
                       [] OTHER -> {}
  <2>1. login[c].t \in Targets /\ login[c].step = "open"
    BY <1>5 DEF LoginResolve, ReadersOK, Attempt
  <2>2. auth \subseteq Offers(store, locked, login[c].t)
    BY <2>1, OpenOffered DEF MarkerHasStore
  <2>3. Offers(store, locked, login[c].t) \subseteq login[c].seen
    BY <2>1 DEF SeenCurrent
  <2>4. login' = [login EXCEPT ![c].step = "end", ![c].auth = auth]
    BY <1>5 DEF LoginResolve
  <2> HIDE DEF res, auth
  <2>5. auth \subseteq Credentials \cup {Fallback}
    BY <2>1, <2>2, OffersType DEF IInv, StoreTypeOK
  <2> QED
    BY <2>2, <2>3, <2>4, <2>5 DEF ReadersOK, Attempt
<1>6. ASSUME LoginEnd(c) PROVE Kept
  BY <1>6, NoRequestType DEF LoginEnd, ReadersOK, NoAttempt
<1> QED
  BY <1>3, <1>4, <1>5, <1>6 DEF Client

\* The invariant of readers and store together.
THEOREM ServiceInvariant == Spec => []FullInv
<1>1. FullInv /\ UNCHANGED vars => FullInv'
  <2> SUFFICES ASSUME FullInv, UNCHANGED vars PROVE FullInv'
    OBVIOUS
  <2>1. IInv' /\ MarkerHasStore'
    BY StepInv, MarkerStep DEF vars, FullInv, ReaderInv
  <2>2. /\ store' = store /\ locked' = locked /\ sign' = sign /\ login' = login
    BY DEF vars, storeVars
  <2>3. ReadersOK' /\ SeenCurrent' /\ MatchSeen' /\ LoginWhileOffered'
    BY <2>2 DEF FullInv, ReaderInv, ReadersOK, SeenCurrent, MatchSeen,
                LoginWhileOffered
  <2> QED
    BY <2>1, <2>3 DEF FullInv, ReaderInv
<1>2. FullInv /\ [Next]_vars => FullInv'
  BY <1>1, StoreStepInv, AgentStepInv, ClientStepInv DEF Next
<1> QED
  BY <1>2, ReaderInit, PTL DEF Spec

\* The store and its readers stay in their types.
THEOREM ServiceTyped == Spec => []TypeOK
BY ServiceInvariant, PTL DEF FullInv, ReaderInv, IInv, ReadersOK, TypeOK

\* The agent never signs for a request that arrived behind the lock, nor with a
\* key that no active target held while the request ran.
THEOREM SignaturesOffered == Spec => []SignedWhileOffered
<1>1. FullInv => SignedWhileOffered
  BY DEF FullInv, ReaderInv, MatchSeen, SignedWhileOffered
<1> QED
  BY <1>1, ServiceInvariant, PTL

\* managedAuth, called without explicit credentials, never goes around an
\* explicit lock or a disabled target.
THEOREM LoginsOffered == Spec => []LoginWhileOffered
<1>1. FullInv => LoginWhileOffered
  BY DEF FullInv, ReaderInv
<1> QED
  BY <1>1, ServiceInvariant, PTL
=============================================================================
