------------------------- MODULE CredGate_proofs -------------------------
(***************************************************************************)
(* Theorems about CredGate, for every number of clients and every content  *)
(* of the credential file. The store's part of a step is a step of         *)
(* CredStore, so its lemmas are used as they are.                          *)
(***************************************************************************)
EXTENDS CredGate, CredStore_proofs

LEMMA StoreStepIsNext == [GNext]_gvars => [Next]_vars
BY DEF GNext, gvars, vars, RequestStep, Arrive, Gate, Validate, Lookup, Handle, Sign,
       Goes, Answered, StoreStep, GCrash, Next, ProcLife

(* Seen by the requests, a step of the store leaves it alone, seeds it     *)
(* while none is served, or replaces it by a newer map with entries.       *)
LEMMA StoreMoves ==
  ASSUME PInv, StoreStep
  PROVE  /\ req' = req /\ env' = env
         /\ storeVer' >= storeVer
         /\ proc = "serving" => proc' = "serving" /\ (store # EmptyMap => store' # EmptyMap)
         /\ \A i \in 1..Newest : published'[i] = published[i]
<1>1. req' = req /\ env' = env
  BY DEF StoreStep, ProcessStep, WatcherStep, FileStep, LoadConfig, LoadedFrom,
         FatalExit, Unloaded, Seed, StartWatch, Receive, Ripen, Reload, ApplyReload,
         WatcherEnds, WatcherKeeps, WriteFile, Touch, Stop, Restart
<1>2. UNCHANGED <<store, storeVer>> \/ Seed \/ ApplyReload
  BY DEF StoreStep, ProcessStep, WatcherStep, FileStep, LoadConfig, LoadedFrom,
         FatalExit, Unloaded, StartWatch, Receive, Ripen, Reload, WatcherEnds,
         WatcherKeeps, WriteFile, Touch, Stop, Restart
<1>3. storeVer \in Nat /\ conf.ver \in Nat /\ readVer \in Nat
  BY DEF PInv, TInv, TypeOK
<1>4. storeVer' >= storeVer
  <2>1. CASE Seed
    BY <1>3, <2>1 DEF Seed, PInv, TInv, StartInv
  <2>2. CASE ApplyReload
    BY <1>3, <2>2 DEF ApplyReload, PInv, TInv, ReadInv
  <2> QED BY <1>2, <1>3, <2>1, <2>2
<1>5. proc = "serving" => proc' = "serving"
  BY DEF StoreStep, ProcessStep, WatcherStep, FileStep, LoadConfig, Seed, StartWatch,
         Receive, Ripen, Reload, ApplyReload, WatcherEnds, WatcherKeeps, WriteFile,
         Touch, Stop, Restart
<1>6. proc = "serving" /\ store # EmptyMap => store' # EmptyMap
  <2>1. CASE Seed
    BY <2>1 DEF Seed
  <2>2. CASE ApplyReload
    <3>1. store' = published[readVer] /\ ParsesOK(published[readVer])
      BY <2>2 DEF ApplyReload, PInv, TInv, ReadInv
    <3> QED BY <3>1, ParsedIsMap
  <2> QED BY <1>2, <2>1, <2>2
<1>7. \A i \in 1..Newest : published'[i] = published[i]
  <2>1. CASE UNCHANGED published
    BY <2>1
  <2>2. ASSUME NEW p \in Payloads, published' = Append(published, p)
        PROVE  \A i \in 1..Newest : published'[i] = published[i]
    BY <2>2 DEF PInv, TInv, TypeOK, Newest
  <2> QED BY <2>1, <2>2 DEF StoreStep, ProcessStep, WatcherStep, FileStep, LoadConfig,
         LoadedFrom, FatalExit, Unloaded, Seed, StartWatch, Receive, Ripen, Reload,
         ApplyReload, WatcherEnds, WatcherKeeps, WriteFile, Touch, Stop, Restart
<1> QED BY <1>1, <1>4, <1>5, <1>6, <1>7

-----------------------------------------------------------------------------
(* The inductive invariant of the gate. A request is only under way while  *)
(* the proxy serves; past the gate's first Size() the store has entries;   *)
(* a request on its way to the Director without credentials passed the     *)
(* gate of a proxy that has no credentials at all.                         *)
ReqInv(c) ==
  /\ req[c].pc # "idle" => proc = "serving"
  /\ req[c].pc = "idle" => req[c] = Idle
  /\ req[c].from <= storeVer
  /\ req[c].pc \in {"validate", "lookup"} => store # EmptyMap
  /\ req[c].pc = "lookup" => req[c].ak # NoKey
  /\ req[c].pc \in {"gate", "validate", "lookup"} =>
        req[c].creds = NoCreds /\ req[c].resp = "none"
  /\ req[c].pc = "route" =>
        /\ req[c].resp = "none"
        /\ req[c].creds = NoCreds => env.dryRun /\ ~Sourced
  /\ req[c].resp \notin {"empty200", "fallback"}
  /\ req[c].resp = "unsigned" => env.dryRun /\ ~Sourced
  /\ req[c].resp \in {"AccessDenied", "InvalidAccessKeyId"} => req[c].creds = NoCreds

PairInv(c) ==
  req[c].creds # NoCreds =>
    /\ req[c].creds[1] = req[c].ak
    /\ req[c].from <= req[c].ver /\ req[c].ver <= storeVer
    /\ req[c].ver > 0 => /\ req[c].ak \in DOMAIN published[req[c].ver]
                         /\ req[c].creds[2] = published[req[c].ver][req[c].ak]

GInv == req \in [Clients -> ReqType] /\ \A c \in Clients : ReqInv(c) /\ PairInv(c)

(* A hit of Lookup is a pair of a real key and a real secret. *)
LEMMA HitIsPair ==
  \A ak \in AccessKeys : store \in StoreMaps /\ ak \in DOMAIN store => store[ak] \in Secrets
<1> SUFFICES ASSUME NEW ak \in AccessKeys, store \in StoreMaps, ak \in DOMAIN store
             PROVE  store[ak] \in Secrets
  OBVIOUS
<1>1. CASE store \in Maps
  BY <1>1 DEF Maps
<1>2. CASE store = LegacyMap
  BY <1>2, LegacyAssumption DEF LegacyMap
<1>3. store # EmptyMap
  <2>1. DOMAIN EmptyMap = {}
    BY DEF EmptyMap
  <2> QED BY <2>1
<1> QED BY <1>1, <1>2, <1>3 DEF StoreMaps

LEMMA StoreStepGInv == PInv /\ GInv /\ StoreStep => GInv'
<1> SUFFICES ASSUME PInv, GInv, StoreStep, NEW c \in Clients PROVE ReqInv(c)' /\ PairInv(c)'
  BY StoreMoves DEF GInv
<1>1. ReqInv(c) /\ PairInv(c) /\ req[c] \in ReqType
  BY DEF GInv
<1>2. /\ storeVer \in Nat /\ storeVer' >= storeVer /\ storeVer' \in Nat
      /\ storeVer <= Newest /\ Newest \in Nat
  <2>1. TInv'
    BY StepTInv DEF PInv, StoreStep, Next, ProcLife
  <2> QED BY StoreMoves, <2>1 DEF PInv, TInv, TypeOK
<1>3. req[c].from \in Nat /\ req[c].ver \in Nat
  BY <1>1 DEF ReqType
<1>4. ReqInv(c)'
  BY <1>1, <1>2, <1>3, StoreMoves DEF ReqInv, Sourced
<1>5. PairInv(c)'
  BY <1>1, <1>2, <1>3, StoreMoves DEF PairInv
<1> QED BY <1>4, <1>5

(* One client's step leaves every other client's request as it was. *)
Moves(d, r) == req' = [req EXCEPT ![d] = r] /\ UNCHANGED vars

LEMMA OneClientMoves ==
  ASSUME GInv, NEW d \in Clients, NEW r \in ReqType, Moves(d, r),
         ReqInv(d)' /\ PairInv(d)'
  PROVE  GInv'
<1>1. req' \in [Clients -> ReqType]
  BY DEF GInv, Moves
<1>2. ASSUME NEW c \in Clients, c # d PROVE ReqInv(c)' /\ PairInv(c)'
  <2>1. req'[c] = req[c] /\ UNCHANGED vars
    BY <1>2 DEF Moves, GInv
  <2>2. ReqInv(c) /\ PairInv(c)
    BY DEF GInv
  <2> QED BY <2>1, <2>2 DEF ReqInv, PairInv, vars, Sourced
<1> QED BY <1>1, <1>2 DEF GInv

LEMMA RequestStepGInv == PInv /\ LInv /\ GInv /\ RequestStep => GInv'
<1> SUFFICES ASSUME PInv, LInv, GInv, NEW d \in Clients,
                    \/ \E ak \in AccessKeys \cup {NoKey} : Arrive(d, ak)
                    \/ Gate(d) \/ Validate(d) \/ Lookup(d) \/ Handle(d) \/ Sign(d)
             PROVE  GInv'
  BY DEF RequestStep
<1>0. /\ req[d] \in ReqType /\ ReqInv(d) /\ PairInv(d) /\ req \in [Clients -> ReqType]
      /\ storeVer \in 0..MaxPublish /\ store \in StoreMaps
      /\ ParsesOK(store) \/ storeVer = 0
      /\ storeVer > 0 => store = published[storeVer]
  BY DEF GInv, PInv, TInv, TypeOK, FromOneVersion
<1>1. ASSUME NEW ak \in AccessKeys \cup {NoKey}, Arrive(d, ak) PROVE GInv'
  <2> DEFINE r == [pc |-> "gate", ak |-> ak, creds |-> NoCreds, ver |-> 0,
                   from |-> storeVer, resp |-> "none"]
  <2>1. /\ r.pc = "gate" /\ r.ak = ak /\ r.creds = NoCreds /\ r.ver = 0
        /\ r.from = storeVer /\ r.resp = "none"
    OBVIOUS
  <2>2. r \in ReqType
    BY <1>0, BoundAssumption DEF ReqType, Answers
  <2>3. Moves(d, r) /\ req'[d] = r /\ proc = "serving" /\ UNCHANGED vars
    BY <1>0, <1>1 DEF Arrive, Moves
  <2> HIDE DEF r
  <2>4. ReqInv(d)' /\ PairInv(d)'
    BY <1>0, <2>1, <2>3 DEF ReqInv, PairInv, vars, Sourced
  <2> QED BY <2>2, <2>3, <2>4, OneClientMoves
<1>2. ASSUME NEW pc \in {"validate", "lookup", "route"}, Goes(d, pc),
             pc = "validate" => store # EmptyMap,
             pc = "lookup" => store # EmptyMap /\ req[d].ak # NoKey,
             pc = "route" => env.dryRun /\ ~Sourced,
             req[d].pc \in {"gate", "validate"}
      PROVE  GInv'
  <2> DEFINE r == [req[d] EXCEPT !.pc = pc]
  <2>1. r \in ReqType /\ Moves(d, r) /\ req'[d] = r /\ UNCHANGED vars
    BY <1>0, <1>2 DEF Goes, Moves, ReqType
  <2>2. /\ r.pc = pc /\ r.ak = req[d].ak /\ r.creds = req[d].creds
        /\ r.ver = req[d].ver /\ r.from = req[d].from /\ r.resp = req[d].resp
    BY <1>0 DEF ReqType
  <2> HIDE DEF r
  <2>3. ReqInv(d)' /\ PairInv(d)'
    BY <1>0, <1>2, <2>1, <2>2 DEF ReqInv, PairInv, vars, Sourced
  <2> QED BY <2>1, <2>3, OneClientMoves
<1>3. ASSUME NEW resp \in Answers, Answered(d, resp), req[d].pc # "idle",
             resp \notin {"empty200", "fallback"},
             resp = "unsigned" => env.dryRun /\ ~Sourced,
             resp \in {"AccessDenied", "InvalidAccessKeyId"} => req[d].creds = NoCreds
      PROVE  GInv'
  <2> DEFINE r == [req[d] EXCEPT !.pc = "done", !.resp = resp]
  <2>1. r \in ReqType /\ Moves(d, r) /\ req'[d] = r /\ UNCHANGED vars
    BY <1>0, <1>3 DEF Answered, Moves, ReqType
  <2>2. /\ r.pc = "done" /\ r.ak = req[d].ak /\ r.creds = req[d].creds
        /\ r.ver = req[d].ver /\ r.from = req[d].from /\ r.resp = resp
    BY <1>0 DEF ReqType
  <2> HIDE DEF r
  <2>3. ReqInv(d)' /\ PairInv(d)'
    BY <1>0, <1>3, <2>1, <2>2 DEF ReqInv, PairInv, vars, Sourced
  <2> QED BY <2>1, <2>3, OneClientMoves
<1>4. CASE Gate(d)
  <2>1. req[d].pc = "gate" /\ proc = "serving"
    BY <1>0, <1>4 DEF Gate, ReqInv
  <2>2. store = EmptyMap => env.dryRun /\ ~Sourced
    BY <2>1 DEF LInv
  <2> QED BY <1>2, <1>4, <2>1, <2>2 DEF Gate
<1>5. CASE Validate(d)
  <2>1. req[d].pc = "validate" /\ store # EmptyMap /\ req[d].creds = NoCreds
    BY <1>0, <1>5 DEF Validate, ReqInv
  <2> QED BY <1>2, <1>3, <1>5, <2>1 DEF Validate, Answers
<1>6. CASE Lookup(d)
  <2>1. req[d].pc = "lookup" /\ req[d].ak # NoKey /\ req[d].ak \in AccessKeys
        /\ req[d].creds = NoCreds /\ req[d].resp = "none"
    BY <1>0, <1>6 DEF Lookup, ReqInv, ReqType
  <2>2. CASE req[d].ak \notin DOMAIN store
    BY <1>3, <1>6, <2>1, <2>2 DEF Lookup, Answers
  <2>3. CASE req[d].ak \in DOMAIN store
    <3> DEFINE pair == <<req[d].ak, store[req[d].ak]>>
               r == [req[d] EXCEPT !.pc = "route", !.creds = pair, !.ver = storeVer]
    <3>1. pair \in AccessKeys \X Secrets /\ pair # NoCreds
          /\ pair[1] = req[d].ak /\ pair[2] = store[req[d].ak]
      BY <1>0, <2>1, <2>3, HitIsPair DEF NoCreds
    <3> HIDE DEF pair
    <3>2. r \in ReqType /\ Moves(d, r) /\ req'[d] = r /\ UNCHANGED vars
      BY <1>0, <1>6, <2>3, <3>1 DEF Lookup, Moves, ReqType, pair
    <3>3. /\ r.pc = "route" /\ r.ak = req[d].ak /\ r.creds = pair
          /\ r.ver = storeVer /\ r.from = req[d].from /\ r.resp = "none"
      BY <1>0, <2>1 DEF ReqType
    <3> HIDE DEF r
    <3>4. ReqInv(d)'
      BY <1>0, <2>1, <3>1, <3>2, <3>3 DEF ReqInv, vars, Sourced
    <3>5. PairInv(d)'
      BY <1>0, <2>3, <3>1, <3>2, <3>3 DEF PairInv, ReqInv, vars
    <3> QED BY <3>2, <3>4, <3>5, OneClientMoves
  <2> QED BY <2>2, <2>3
<1>7. CASE Handle(d)
  BY <1>0, <1>3, <1>7 DEF Handle, Answers, ReqInv
<1>8. CASE Sign(d)
  BY <1>0, <1>3, <1>8 DEF Sign, Answers, ReqInv, Sourced
<1> QED BY <1>1, <1>4, <1>5, <1>6, <1>7, <1>8

LEMMA StepGInv ==
  PInv /\ LInv /\ GInv /\ [GNext]_gvars => PInv' /\ LInv' /\ GInv'
<1> SUFFICES ASSUME PInv, LInv, GInv, [GNext]_gvars PROVE PInv' /\ LInv' /\ GInv'
  OBVIOUS
<1>1. PInv' /\ LInv'
  BY StoreStepIsNext, StepPInv, StepLInv
<1>2. ASSUME GCrash PROVE GInv'
  <2>1. \A c \in Clients : req'[c] = Idle
    BY <1>2 DEF GCrash
  <2>2. Idle \in ReqType
    BY BoundAssumption DEF Idle, ReqType, Answers
  <2>3. req' \in [Clients -> ReqType]
    BY <1>2, <2>2 DEF GCrash
  <2>4. storeVer' \in Nat
    BY <1>1 DEF PInv, TInv, TypeOK
  <2>5. /\ Idle.pc = "idle" /\ Idle.creds = NoCreds /\ Idle.from = 0 /\ Idle.resp = "none"
    BY DEF Idle
  <2>6. \A c \in Clients : ReqInv(c)' /\ PairInv(c)'
    BY <2>1, <2>4, <2>5 DEF ReqInv, PairInv
  <2> QED BY <2>3, <2>6 DEF GInv
<1>3. ASSUME UNCHANGED gvars PROVE GInv'
  <2>1. UNCHANGED <<env, proc, published, store, storeVer, req>>
    BY <1>3 DEF gvars
  <2> QED BY <2>1 DEF GInv, ReqInv, PairInv, Sourced
<1>4. GInv'
  BY <1>2, <1>3, RequestStepGInv, StoreStepGInv DEF GNext
<1> QED BY <1>1, <1>4

LEMMA InitGInv == GInit => PInv /\ LInv /\ GInv
<1> SUFFICES ASSUME GInit PROVE PInv /\ LInv /\ GInv
  OBVIOUS
<1>1. PInv /\ LInv /\ storeVer = 0
  BY InitPInv DEF GInit, Init, LInv
<1>2. Idle \in ReqType
  BY BoundAssumption DEF Idle, ReqType, Answers
<1>3. req = [c \in Clients |-> Idle]
  BY DEF GInit
<1>4. Idle.pc = "idle" /\ Idle.creds = NoCreds /\ Idle.from = 0 /\ Idle.resp = "none"
  BY DEF Idle
<1>5. \A c \in Clients : ReqInv(c) /\ PairInv(c)
  BY <1>1, <1>3, <1>4 DEF ReqInv, PairInv
<1> QED BY <1>1, <1>2, <1>3, <1>5 DEF GInv

-----------------------------------------------------------------------------
(* Store, watcher and requests keep their types: a pair in a request's     *)
(* context consists of a key and a secret, never of a hole in the map.     *)
THEOREM GateTypes == GSpec => []GTypeOK
<1>1. PInv /\ LInv /\ GInv => GTypeOK
  BY DEF PInv, TInv, GInv, GTypeOK
<1> QED BY <1>1, InitGInv, StepGInv, PTL DEF GSpec

(* A request never gets the empty 200 that validateClientCredential and    *)
(* handleS3Request would leave behind on a store that empties under them.  *)
THEOREM NeverEmptyAnswer == GSpec => []NoEmptyAnswer
<1>1. GInv => NoEmptyAnswer
  BY DEF GInv, ReqInv, NoEmptyAnswer
<1> QED BY <1>1, InitGInv, StepGInv, PTL DEF GSpec

(* Requests are signed with their own client's pair, from one version of   *)
(* the map that is no older than the one in force when they arrived        *)
(* (Lookup's result travels in the request context to the Director).       *)
THEOREM PairsAreOwnAndFresh == GSpec => []SignedWithOwnPair
<1>1. GInv => SignedWithOwnPair
  BY DEF GInv, PairInv, SignedWithOwnPair
<1> QED BY <1>1, InitGInv, StepGInv, PTL DEF GSpec

(* A strict proxy never uses the Director's fall-back pair, and sends      *)
(* nothing unsigned, whatever is reloaded meanwhile.                       *)
THEOREM FallbackIsDead == GSpec => []NoFallback
<1>1. GInv => NoFallback
  BY DEF GInv, ReqInv, NoFallback, Strict, Sourced
<1> QED BY <1>1, InitGInv, StepGInv, PTL DEF GSpec

-----------------------------------------------------------------------------
(* Refinement. `sessions` is the abstract request table.                   *)
sessions == [c \in Clients |-> SessionOf(req[c])]

LEMMA MovedSession ==
  ASSUME GInv, NEW d \in Clients, NEW r \in ReqType, Moves(d, r)
  PROVE  /\ sessions' = [sessions EXCEPT ![d] = SessionOf(r)]
         /\ store' = store /\ Strict' = Strict
<1>1. req' = [req EXCEPT ![d] = r] /\ req \in [Clients -> ReqType] /\ store' = store
      /\ Strict' = Strict
  BY DEF Moves, vars, GInv, Strict
<1>2. sessions' = [c \in Clients |-> SessionOf(req'[c])]
  BY DEF sessions
<1>3. \A c \in Clients : req'[c] = IF c = d THEN r ELSE req[c]
  BY <1>1
<1> QED BY <1>1, <1>2, <1>3 DEF sessions

LEMMA InitAuthority == GInit => Authority!AInit
<1> SUFFICES ASSUME GInit PROVE Authority!AInit
  OBVIOUS
<1>1. \A c \in Clients : SessionOf(req[c]) = Authority!NoSession
  BY DEF GInit, Idle, SessionOf, StateOf, Authority!NoSession, NoCreds
<1>2. Strict \in BOOLEAN
  BY EnvAssumption DEF GInit, Init, Strict
<1> QED BY <1>1, <1>2 DEF GInit, Init, Authority!AInit

LEMMA StoreStepAuthority ==
  PInv /\ StoreStep => [Authority!ANext]_(Authority!avars)
<1> SUFFICES ASSUME PInv, StoreStep PROVE [Authority!ANext]_(Authority!avars)
  OBVIOUS
<1>1. req' = req /\ sessions' = sessions /\ Strict' = Strict
  BY StoreMoves DEF sessions, Strict
<1>2. \/ store' = store \/ store' \in Maps \cup {LegacyMap}
  <2>1. CASE Seed
    BY <2>1 DEF Seed, PInv, TInv, TypeOK, StoreMaps
  <2>2. CASE ApplyReload
    <3>1. store' = published[readVer] /\ ParsesOK(published[readVer])
      BY <2>2 DEF ApplyReload, PInv, TInv, ReadInv
    <3> QED BY <3>1, ParsedIsMap
  <2>3. store' = store \/ Seed \/ ApplyReload
    BY DEF StoreStep, ProcessStep, WatcherStep, FileStep, LoadConfig, LoadedFrom,
         FatalExit, Unloaded, StartWatch, Receive, Ripen, Reload, WatcherEnds,
         WatcherKeeps, WriteFile, Touch, Stop, Restart
  <2> QED BY <2>1, <2>2, <2>3
<1>3. CASE store' = store
  BY <1>1, <1>3 DEF Authority!avars, sessions
<1>4. CASE store' \in Maps \cup {LegacyMap}
  BY <1>1, <1>4 DEF Authority!ANext, Authority!Configure, sessions
<1> QED BY <1>2, <1>3, <1>4

(* The abstract state of a request, by where its goroutine is. *)
LEMMA StateCases ==
  ASSUME NEW r \in ReqType
  PROVE  /\ r.pc = "idle" => StateOf(r) = "none"
         /\ r.pc \in {"gate", "validate", "lookup"} => StateOf(r) = "asked"
         /\ r.pc = "route" => StateOf(r) = "granted"
         /\ r.pc = "done" /\ r.resp \in {"handled", "signed", "fallback", "unsigned"}
              => StateOf(r) = "granted"
         /\ r.pc = "done" /\ r.resp \in {"AccessDenied", "InvalidAccessKeyId"}
              => StateOf(r) = "refused"
         /\ r.pc = "done" => StateOf(r) # "asked"
BY DEF StateOf, ReqType, Answers

LEMMA RequestStepAuthority ==
  PInv /\ LInv /\ GInv /\ RequestStep => [Authority!ANext]_(Authority!avars)
<1> SUFFICES ASSUME PInv, LInv, GInv, NEW d \in Clients,
                    \/ \E ak \in AccessKeys \cup {NoKey} : Arrive(d, ak)
                    \/ Gate(d) \/ Validate(d) \/ Lookup(d) \/ Handle(d) \/ Sign(d)
             PROVE  [Authority!ANext]_(Authority!avars)
  BY DEF RequestStep
<1> USE DEF sessions
<1>0. req[d] \in ReqType /\ ReqInv(d) /\ req \in [Clients -> ReqType] /\ store \in StoreMaps
  BY DEF GInv, PInv, TInv, TypeOK
<1>1. sessions[d].state = StateOf(req[d]) /\ sessions[d].ak = req[d].ak
      /\ sessions[d].pair = req[d].creds
      /\ sessions[d] = [state |-> StateOf(req[d]), ak |-> req[d].ak, pair |-> req[d].creds]
  BY DEF SessionOf
<1>2. ASSUME NEW r \in ReqType, Moves(d, r), SessionOf(r) = SessionOf(req[d])
      PROVE  UNCHANGED Authority!avars
  <2>1. sessions' = sessions /\ store' = store /\ Strict' = Strict
    BY <1>2, MovedSession
  <2> QED BY <2>1 DEF Authority!avars
<1>3. ASSUME NEW r \in ReqType, Moves(d, r), NEW state, NEW pair,
             StateOf(req[d]) = "asked", StateOf(r) = state, r.ak = req[d].ak, r.creds = pair
      PROVE  Authority!Decide(d, state, pair)
  <2>1. SessionOf(r) = [state |-> state, ak |-> sessions[d].ak, pair |-> pair]
    BY <1>1, <1>3 DEF SessionOf
  <2>2. sessions' = [sessions EXCEPT ![d] = SessionOf(r)] /\ store' = store /\ Strict' = Strict
    BY <1>3, MovedSession
  <2> QED BY <1>1, <1>3, <2>1, <2>2 DEF Authority!Decide
<1>4. ASSUME NEW ak \in AccessKeys \cup {NoKey}, Arrive(d, ak)
      PROVE  Authority!Ask(d, ak)
  <2> DEFINE r == [pc |-> "gate", ak |-> ak, creds |-> NoCreds, ver |-> 0,
                   from |-> storeVer, resp |-> "none"]
  <2>1. r.pc = "gate" /\ r.ak = ak /\ r.creds = NoCreds
    OBVIOUS
  <2>2. r \in ReqType /\ Moves(d, r) /\ StateOf(req[d]) # "asked"
    BY <1>0, <1>4, BoundAssumption, StateCases
    DEF Arrive, Moves, ReqType, Answers, PInv, TInv, TypeOK
  <2> HIDE DEF r
  <2>3. SessionOf(r) = [state |-> "asked", ak |-> ak, pair |-> <<>>]
    BY <2>1, <2>2, StateCases DEF SessionOf, NoCreds
  <2>4. sessions' = [sessions EXCEPT ![d] = SessionOf(r)] /\ store' = store /\ Strict' = Strict
    BY <2>2, MovedSession
  <2> QED BY <1>1, <2>2, <2>3, <2>4 DEF Authority!Ask
<1>5. ASSUME NEW pc \in {"validate", "lookup"}, Goes(d, pc), req[d].pc \in {"gate", "validate"}
      PROVE  UNCHANGED Authority!avars
  <2> DEFINE r == [req[d] EXCEPT !.pc = pc]
  <2>1. r \in ReqType /\ Moves(d, r) /\ r.pc = pc /\ r.ak = req[d].ak /\ r.creds = req[d].creds
    BY <1>0, <1>5 DEF Goes, Moves, ReqType
  <2> HIDE DEF r
  <2>2. SessionOf(r) = SessionOf(req[d])
    BY <1>0, <1>5, <2>1, StateCases DEF SessionOf
  <2> QED BY <1>2, <2>1, <2>2
<1>6. ASSUME NEW resp \in {"AccessDenied", "InvalidAccessKeyId"}, Answered(d, resp),
             req[d].pc \in {"validate", "lookup"}, store # EmptyMap,
             req[d].ak = NoKey \/ req[d].ak \notin DOMAIN store
      PROVE  Authority!Refuse(d)
  <2> DEFINE r == [req[d] EXCEPT !.pc = "done", !.resp = resp]
  <2>1. r \in ReqType /\ Moves(d, r) /\ r.pc = "done" /\ r.resp = resp
        /\ r.ak = req[d].ak /\ r.creds = req[d].creds /\ r.creds = <<>>
    BY <1>0, <1>6 DEF Answered, Moves, ReqType, Answers, ReqInv, NoCreds
  <2> HIDE DEF r
  <2>2. StateOf(r) = "refused" /\ StateOf(req[d]) = "asked"
    BY <1>0, <1>6, <2>1, StateCases
  <2>3. Authority!Decide(d, "refused", <<>>)
    BY <1>3, <2>1, <2>2
  <2> QED BY <1>1, <1>6, <2>3 DEF Authority!Refuse, Authority!Unknown
<1>7. ASSUME NEW resp \in {"handled", "signed", "fallback", "unsigned"}, Answered(d, resp),
             req[d].pc = "route"
      PROVE  UNCHANGED Authority!avars
  <2> DEFINE r == [req[d] EXCEPT !.pc = "done", !.resp = resp]
  <2>1. r \in ReqType /\ Moves(d, r) /\ r.pc = "done" /\ r.resp = resp
        /\ r.ak = req[d].ak /\ r.creds = req[d].creds
    BY <1>0, <1>7 DEF Answered, Moves, ReqType, Answers
  <2> HIDE DEF r
  <2>2. SessionOf(r) = SessionOf(req[d])
    BY <1>0, <1>7, <2>1, StateCases DEF SessionOf
  <2> QED BY <1>2, <2>1, <2>2
<1>8. ASSUME store = EmptyMap, Goes(d, "route"), req[d].pc = "gate"
      PROVE  Authority!PassThrough(d)
  <2> DEFINE r == [req[d] EXCEPT !.pc = "route"]
  <2>1. r \in ReqType /\ Moves(d, r) /\ r.pc = "route"
        /\ r.ak = req[d].ak /\ r.creds = <<>>
    BY <1>0, <1>8 DEF Goes, Moves, ReqType, ReqInv, NoCreds
  <2> HIDE DEF r
  <2>2. StateOf(r) = "granted" /\ StateOf(req[d]) = "asked"
    BY <1>0, <1>8, <2>1, StateCases
  <2> QED BY <1>3, <1>8, <2>1, <2>2 DEF Authority!PassThrough
<1>9. ASSUME Lookup(d), req[d].ak \in DOMAIN store PROVE Authority!Grant(d)
  <2> DEFINE pair == <<req[d].ak, store[req[d].ak]>>
             r == [req[d] EXCEPT !.pc = "route", !.creds = pair, !.ver = storeVer]
  <2>1. req[d].pc = "lookup" /\ req[d].ak \in AccessKeys
    BY <1>0, <1>9 DEF Lookup, ReqInv, ReqType
  <2>2. pair \in AccessKeys \X Secrets /\ storeVer \in 0..MaxPublish
    BY <1>0, <1>9, <2>1, HitIsPair DEF PInv, TInv, TypeOK
  <2>3. Moves(d, r)
    BY <1>0, <1>9 DEF Lookup, Moves
  <2> HIDE DEF pair
  <2>4. r \in ReqType /\ r.pc = "route" /\ r.ak = req[d].ak /\ r.creds = pair
    BY <1>0, <2>2 DEF ReqType
  <2> HIDE DEF r
  <2>5. StateOf(r) = "granted" /\ StateOf(req[d]) = "asked"
    BY <1>0, <2>1, <2>4, StateCases
  <2>6. Authority!Decide(d, "granted", pair)
    BY <1>3, <2>3, <2>4, <2>5
  <2> QED BY <1>1, <1>9, <2>6 DEF Authority!Grant, pair
<1>10. CASE \E ak \in AccessKeys \cup {NoKey} : Arrive(d, ak)
  BY <1>4, <1>10 DEF Authority!ANext
<1>11. CASE Gate(d)
  BY <1>5, <1>8, <1>11 DEF Gate, Authority!ANext
<1>12. CASE Validate(d)
  <2>1. store # EmptyMap
    BY <1>0, <1>12 DEF Validate, ReqInv
  <2> QED BY <1>5, <1>6, <1>12, <2>1 DEF Validate, Authority!ANext
<1>13. CASE Lookup(d)
  <2>1. store # EmptyMap /\ req[d].pc = "lookup"
    BY <1>0, <1>13 DEF Lookup, ReqInv
  <2> QED BY <1>6, <1>9, <1>13, <2>1 DEF Lookup, Authority!ANext
<1>14. CASE Handle(d) \/ Sign(d)
  BY <1>7, <1>14 DEF Handle, Sign
<1> QED BY <1>10, <1>11, <1>12, <1>13, <1>14

LEMMA CrashAuthority == GCrash => Authority!ANext
<1> SUFFICES ASSUME GCrash PROVE Authority!ANext
  OBVIOUS
<1>1. store' = EmptyMap
  BY DEF GCrash, Crash, Reset
<1>3. Strict' = Strict
  BY DEF GCrash, Crash, Strict
<1>2. \A c \in Clients : SessionOf(req'[c]) = Authority!NoSession
  BY DEF GCrash, Idle, SessionOf, StateOf, Authority!NoSession, NoCreds
<1> QED BY <1>1, <1>2, <1>3 DEF Authority!ANext, Authority!Forget

(* The gate implements the abstract authority: although a request loads    *)
(* the store three times while the watcher may replace it, its answer is   *)
(* the one a single atomic decision against one map would have given.      *)
THEOREM GateImplementsAuthority == GSpec => ImplementsAuthority
<1>1. PInv /\ LInv /\ GInv /\ [GNext]_gvars => [Authority!ANext]_(Authority!avars)
  <2>1. UNCHANGED gvars => UNCHANGED Authority!avars
    BY DEF gvars, Authority!avars, Strict
  <2> QED BY <2>1, RequestStepAuthority, StoreStepAuthority, CrashAuthority DEF GNext
<1> QED BY <1>1, InitAuthority, InitGInv, StepGInv, PTL
        DEF GSpec, ImplementsAuthority, Authority!ASpec
=============================================================================
