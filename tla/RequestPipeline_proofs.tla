---------------------- MODULE RequestPipeline_proofs ----------------------
(***************************************************************************)
(* Theorems about RequestPipeline, for any finite set of requests, any     *)
(* limit and any status codes: gauge and tokens are exact, and every       *)
(* request is counted under the status its client received.                *)
(***************************************************************************)
EXTENDS RequestPipeline, FiniteSetTheorems, TLAPS

(* The requests whose goroutine is in one of the stages P. *)
Within(f, P) == {r \in Requests : f[r].pc \in P}

Zero(c) == \A s \in Statuses : c[s] = 0
Once(c, status) == \A s \in Statuses : c[s] = IF s = status THEN 1 ELSE 0

(* What the counting writer believes is what the client got, so far. *)
Agree(q) ==
  /\ q.latched <=> q.wire # None
  /\ q.meter = IF q.latched THEN q.wire ELSE OK200

(* What the client will have received when the request ends. *)
Final(q) == IF q.wire = None THEN OK200 ELSE q.wire

(* After an informational answer the counting writer holds its status and  *)
(* lets no other one through: what the client gets it owes to the others.  *)
Hinted(q) == q.latched /\ q.meter \in Hints /\ q.wire \in {None, OK200, Error500}

(* One request and its counters, stage by stage. Counting happens between  *)
(* "meter" and the next stage; an informational answer breaks Agree.       *)
Local(q, c) ==
  /\ q.pc = "throttle" => ~q.hint
  /\ q.pc \in {"throttle", "handler"} /\ ~q.hint /\ q.answer = None => ~q.latched
  /\ q.hint /\ q.pc \in Metered \cup {"recover", "log", "finish", "done"} => Hinted(q)
  /\ q.hint /\ q.pc \in {"recover", "log", "finish", "done"} => Once(c, q.meter)
  /\ q.pc \in Metered \cup {"idle"} => Zero(c)
  /\ q.panic = "abort" => q.answer # None
  /\ q.pc \in Metered \cup {"recover"} /\ q.answer # None => q.latched
  /\ q.pc \in Metered \cup {"recover"} /\ ~q.hint => Agree(q)
  /\ q.pc = "recover" => q.panic # "no"
  /\ q.pc = "recover" /\ ~q.hint => Once(c, Label(q))
  /\ q.pc = "log" => q.panic # "abort"
  /\ q.pc \in {"log", "finish"} /\ ~q.hint => Once(c, Final(q))
  /\ q.pc = "finish" /\ q.panic = "abort" /\ ~q.hint => q.wire # None
  /\ q.pc = "done" /\ ~q.hint => q.wire # None /\ Once(c, q.wire)

Gauges ==
  Serving => /\ inFlight = Cardinality(Within(req, Metered))
             /\ inside = Cardinality(Within(req, Admitted))

Counts == \A r \in Requests : Local(req[r], counted[r])

PInv == TypeOK /\ Gauges /\ inside <= Limit /\ Counts

-----------------------------------------------------------------------------
LEMMA WithinIsFinite ==
  ASSUME NEW f, NEW P
  PROVE  IsFiniteSet(Within(f, P)) /\ Cardinality(Within(f, P)) \in Nat
<1>1. Within(f, P) \in SUBSET Requests
  BY DEF Within
<1> QED BY <1>1, PipelineAssumption, FS_Subset, FS_CardinalityType

(* How the number of requests in P changes when one request moves. *)
Here(q, P) == IF q.pc \in P THEN 1 ELSE 0

LEMMA OneMoves ==
  ASSUME NEW f \in [Requests -> ReqType], NEW r \in Requests, NEW q \in ReqType, NEW P
  PROVE  Cardinality(Within([f EXCEPT ![r] = q], P))
           = Cardinality(Within(f, P)) - Here(f[r], P) + Here(q, P)
<1> DEFINE g == [f EXCEPT ![r] = q]
           before == Within(f, P)
           after == Within(g, P)
<1>1. g[r] = q /\ \A x \in Requests \ {r} : g[x] = f[x]
  OBVIOUS
<1>2. IsFiniteSet(before) /\ Cardinality(before) \in Nat
  BY WithinIsFinite
<1>3. after \in SUBSET (before \cup {r}) /\ before \ {r} = after \ {r}
  BY <1>1 DEF Within
<1>4. (r \in before <=> f[r].pc \in P) /\ (r \in after <=> q.pc \in P)
  BY <1>1 DEF Within
<1>5. IsFiniteSet(after) /\ Cardinality(after) \in Nat
  BY WithinIsFinite
<1> HIDE DEF before, after, g
<1>6. Cardinality(before \ {r}) = Cardinality(before) - Here(f[r], P)
  <2>1. Cardinality(before \ {r}) = IF r \in before THEN Cardinality(before) - 1
                                                     ELSE Cardinality(before)
    BY <1>2, FS_RemoveElement
  <2> QED BY <2>1, <1>2, <1>4 DEF Here
<1>7. Cardinality(after \ {r}) = Cardinality(after) - Here(q, P)
  <2>1. Cardinality(after \ {r}) = IF r \in after THEN Cardinality(after) - 1
                                                   ELSE Cardinality(after)
    BY <1>5, FS_RemoveElement
  <2> QED BY <2>1, <1>5, <1>4 DEF Here
<1>8. Here(f[r], P) \in Nat /\ Here(q, P) \in Nat
  BY DEF Here
<1>9. Cardinality(after) = Cardinality(before) - Here(f[r], P) + Here(q, P)
  BY <1>2, <1>3, <1>5, <1>6, <1>7, <1>8
<1> QED BY <1>9 DEF before, after, g

-----------------------------------------------------------------------------
LEMMA StatusFacts ==
  /\ None \notin Statuses /\ Statuses \subseteq Nat
  /\ {OK200, Error500, Busy} \cup Finals \subseteq Statuses /\ Hints \subseteq Statuses
  /\ \A s \in {OK200, Error500, Busy} \cup Finals : s \notin Hints
BY PipelineAssumption DEF Statuses, None

LEMMA WriteHeaderFacts ==
  ASSUME NEW q \in ReqType, NEW code \in Statuses, NEW w, w = WriteHeader(q, code)
  PROVE  /\ w \in ReqType /\ w.latched
         /\ w.pc = q.pc /\ w.panic = q.panic /\ w.hint = q.hint /\ w.answer = q.answer
         /\ Agree(q) /\ code \notin Hints => Agree(w)
         /\ Hinted(q) => Hinted(w)
         /\ Agree(q) /\ ~q.latched /\ code \in Hints => Hinted(w)
<1>1. CASE q.latched
  BY <1>1 DEF WriteHeader, ReqType, Agree, Hinted
<1>2. CASE ~q.latched
  <2>1. OnWire(q.wire, code) \in Statuses \cup {None}
    BY DEF OnWire, ReqType
  <2>2. q.wire = None /\ code \notin Hints => OnWire(q.wire, code) = code
    BY DEF OnWire
  <2>3. /\ w = [q EXCEPT !.observed = code, !.latched = TRUE, !.meter = code,
                         !.logged = code, !.wire = OnWire(q.wire, code)]
    BY <1>2 DEF WriteHeader
  <2> DEFINE u == OnWire(q.wire, code)
  <2>4. u \in Statuses \cup {None} /\ (q.wire = None /\ code \notin Hints => u = code)
    BY <2>1, <2>2
  <2>5. w = [q EXCEPT !.observed = code, !.latched = TRUE, !.meter = code,
                      !.logged = code, !.wire = u]
    BY <2>3
  <2> HIDE DEF u
  <2>6. /\ w.latched /\ w.meter = code /\ w.wire = u
        /\ w.pc = q.pc /\ w.panic = q.panic /\ w.hint = q.hint /\ w.answer = q.answer
        /\ w \in ReqType
    BY <2>4, <2>5 DEF ReqType
  <2>7. Agree(q) => q.wire = None
    BY <1>2 DEF Agree
  <2>8. Agree(q) /\ code \notin Hints => Agree(w)
    BY <2>4, <2>6, <2>7, StatusFacts DEF Agree
  <2>9. Agree(q) /\ code \in Hints => Hinted(w)
    BY <2>6, <2>7 DEF Hinted, OnWire, u
  <2>10. ~Hinted(q)
    BY <1>2 DEF Hinted
  <2> QED BY <2>6, <2>8, <2>9, <2>10
<1> QED BY <1>1, <1>2

LEMMA WriteFacts ==
  ASSUME NEW q \in ReqType, NEW w, w = Write(q)
  PROVE  /\ w \in ReqType /\ w.latched
         /\ w.pc = q.pc /\ w.panic = q.panic /\ w.hint = q.hint /\ w.answer = q.answer
         /\ Agree(q) => Agree(w)
         /\ Hinted(q) => Hinted(w)
<1> DEFINE m == IF q.latched THEN q.meter ELSE OK200
           u == IF q.wire = None THEN OK200 ELSE q.wire
<1>1. w = [q EXCEPT !.latched = TRUE, !.meter = m, !.wire = u]
  BY DEF Write
<1>2. m \in Statuses /\ u \in Statuses
  BY StatusFacts DEF ReqType
<1>3. /\ Agree(q) => m = u /\ u # None
      /\ Hinted(q) => m = q.meter /\ u \in {OK200, Error500}
  BY StatusFacts DEF Agree, Hinted, ReqType
<1> HIDE DEF m, u
<1>4. /\ w.latched /\ w.meter = m /\ w.wire = u
      /\ w.pc = q.pc /\ w.panic = q.panic /\ w.hint = q.hint /\ w.answer = q.answer
      /\ w \in ReqType
  BY <1>1, <1>2 DEF ReqType
<1>5. Agree(q) => Agree(w)
  BY <1>3, <1>4 DEF Agree
<1>6. Hinted(q) => Hinted(w)
  BY <1>3, <1>4 DEF Hinted
<1> QED BY <1>4, <1>5, <1>6
-----------------------------------------------------------------------------
(* A step of one request keeps PInv if its own record and counters stay    *)
(* consistent and both gauges follow its stage.                            *)
LEMMA OneStep ==
  ASSUME PInv, Serving, UNCHANGED server,
         NEW r \in Requests, NEW q \in ReqType, Becomes(r, q),
         counted' \in [Requests -> [Statuses -> Nat]],
         \A x \in Requests \ {r} : counted'[x] = counted[x],
         Local(q, counted'[r]),
         inFlight' = inFlight - Here(req[r], Metered) + Here(q, Metered),
         inside' = inside - Here(req[r], Admitted) + Here(q, Admitted),
         inside' <= Limit,
         reqLog' \in BOOLEAN, line' \in [Requests -> Statuses \cup {None}],
         channel' \subseteq Requests, file' \subseteq Requests
  PROVE  PInv'
<1>1. req \in [Requests -> ReqType] /\ req' = [req EXCEPT ![r] = q]
  BY DEF PInv, TypeOK, Becomes
<1>2. req' \in [Requests -> ReqType] /\ req'[r] = q
      /\ \A x \in Requests \ {r} : req'[x] = req[x]
  BY <1>1
<1>3. /\ Cardinality(Within(req', Metered))
           = Cardinality(Within(req, Metered)) - Here(req[r], Metered) + Here(q, Metered)
      /\ Cardinality(Within(req', Admitted))
           = Cardinality(Within(req, Admitted)) - Here(req[r], Admitted) + Here(q, Admitted)
  BY <1>1, OneMoves
<1>4. /\ inFlight' = Cardinality(Within(req', Metered))
      /\ inside' = Cardinality(Within(req', Admitted))
  BY <1>3 DEF PInv, Gauges
<1>5. inFlight' \in Nat /\ inside' \in Nat
  BY <1>4, WithinIsFinite
<1>6. TypeOK'
  BY <1>2, <1>5 DEF PInv, TypeOK
<1>7. Gauges'
  BY <1>4 DEF Gauges
<1>8. Counts'
  BY <1>2 DEF PInv, Counts
<1> QED BY <1>6, <1>7, <1>8 DEF PInv

(* What PInv says of one request. *)
LEMMA OneRequest ==
  ASSUME PInv, NEW r \in Requests
  PROVE  /\ req[r] \in ReqType /\ Local(req[r], counted[r])
         /\ counted[r] \in [Statuses -> Nat]
         /\ inFlight \in Nat /\ inside \in Nat /\ inside <= Limit /\ Limit \in Nat
BY PipelineAssumption DEF PInv, TypeOK, Counts

(* A step in which nothing is counted and nothing is sent. *)
LEMMA QuietStep ==
  ASSUME PInv, Serving, Unlogged,
         NEW r \in Requests, NEW q \in ReqType, Becomes(r, q),
         Local(q, counted[r]),
         inFlight' = inFlight - Here(req[r], Metered) + Here(q, Metered),
         inside' = inside - Here(req[r], Admitted) + Here(q, Admitted),
         inside' <= Limit
  PROVE  PInv'
<1>1. /\ UNCHANGED server /\ counted' = counted
      /\ counted \in [Requests -> [Statuses -> Nat]]
      /\ reqLog' \in BOOLEAN /\ line' \in [Requests -> Statuses \cup {None}]
      /\ channel' \subseteq Requests /\ file' \subseteq Requests
  BY DEF Unlogged, PInv, TypeOK
<1>2. /\ counted' \in [Requests -> [Statuses -> Nat]]
      /\ \A x \in Requests \ {r} : counted'[x] = counted[x]
      /\ Local(q, counted'[r])
  BY <1>1
<1> QED BY <1>1, <1>2, OneStep

-----------------------------------------------------------------------------
(* On the way in. *)

LEMMA ArriveKeeps ==
  ASSUME PInv, NEW r \in Requests, Arrive(r)
  PROVE  PInv'
<1> DEFINE q == [Fresh EXCEPT !.pc = "throttle"]
<1>1. /\ q \in ReqType /\ q.pc = "throttle" /\ q.panic = "no" /\ q.answer = None
      /\ ~q.latched /\ ~q.hint /\ q.wire = None /\ q.meter = OK200
  BY StatusFacts DEF Fresh, ReqType, Stages, Metered
<1>2. /\ Serving /\ Unlogged /\ Becomes(r, q) /\ req[r].pc = "idle"
      /\ inFlight' = inFlight + 1 /\ inside' = inside
  BY DEF Arrive, Serving
<1> HIDE DEF q
<1>3. Local(q, counted[r])
  BY <1>1, <1>2, OneRequest DEF Local, Agree, Hinted, Metered
<1>4. /\ Here(req[r], Metered) = 0 /\ Here(q, Metered) = 1
      /\ Here(req[r], Admitted) = 0 /\ Here(q, Admitted) = 0
  BY <1>1, <1>2 DEF Here, Metered, Admitted
<1> QED BY <1>1, <1>2, <1>3, <1>4, OneRequest, QuietStep

LEMMA AdmitKeeps ==
  ASSUME PInv, NEW r \in Requests, Admit(r)
  PROVE  PInv'
<1> DEFINE q == [req[r] EXCEPT !.pc = "handler"]
<1>1. /\ q \in ReqType /\ q.pc = "handler" /\ q.panic = req[r].panic
      /\ q.answer = req[r].answer /\ q.latched = req[r].latched
      /\ q.wire = req[r].wire /\ q.meter = req[r].meter /\ q.hint = req[r].hint
  BY OneRequest DEF ReqType, Stages, Metered
<1>2. /\ Serving /\ Unlogged /\ Becomes(r, q) /\ req[r].pc = "throttle"
      /\ inFlight' = inFlight /\ inside' = inside + 1 /\ inside < Limit
  BY DEF Admit, At
<1> HIDE DEF q
<1>3. Local(q, counted[r])
  BY <1>1, <1>2, OneRequest DEF Local, Agree, Hinted, Metered
<1>4. /\ Here(req[r], Metered) = 1 /\ Here(q, Metered) = 1
      /\ Here(req[r], Admitted) = 0 /\ Here(q, Admitted) = 1
  BY <1>1, <1>2 DEF Here, Metered, Admitted
<1> QED BY <1>1, <1>2, <1>3, <1>4, OneRequest, QuietStep

LEMMA RejectKeeps ==
  ASSUME PInv, NEW r \in Requests, Reject(r)
  PROVE  PInv'
<1> DEFINE h == WriteHeader(req[r], Busy)
           w == Write(h)
           q == [w EXCEPT !.pc = "observe", !.answer = Busy]
<1>1. req[r].pc = "throttle" /\ Serving /\ Unlogged /\ Becomes(r, q)
      /\ inFlight' = inFlight /\ inside' = inside
  BY DEF Reject, At
<1>2. Busy \in Statuses /\ Busy \notin Hints
  BY StatusFacts
<1>3. /\ h \in ReqType /\ h.latched /\ h.panic = req[r].panic /\ h.hint = req[r].hint
      /\ Agree(req[r]) => Agree(h)
  BY <1>2, OneRequest, WriteHeaderFacts
<1> HIDE DEF h
<1>4. /\ w \in ReqType /\ w.latched /\ w.panic = req[r].panic /\ w.hint = req[r].hint
      /\ Agree(req[r]) => Agree(w)
  BY <1>3, WriteFacts
<1> HIDE DEF w
<1>5. /\ q \in ReqType /\ q.pc = "observe" /\ q.answer = Busy /\ q.latched
      /\ q.panic = req[r].panic /\ q.hint = req[r].hint
      /\ q.latched = w.latched /\ q.wire = w.wire /\ q.meter = w.meter
  BY <1>2, <1>4 DEF ReqType, Stages, Metered
<1> HIDE DEF q
<1>6. Agree(req[r]) => Agree(q)
  BY <1>4, <1>5 DEF Agree
<1>7. Local(q, counted[r])
  BY <1>1, <1>2, <1>5, <1>6, OneRequest, StatusFacts DEF Local, Metered
<1>8. /\ Here(req[r], Metered) = 1 /\ Here(q, Metered) = 1
      /\ Here(req[r], Admitted) = 0 /\ Here(q, Admitted) = 0
  BY <1>1, <1>5 DEF Here, Metered, Admitted
<1> QED BY <1>1, <1>5, <1>7, <1>8, OneRequest, QuietStep

-----------------------------------------------------------------------------
(* In the handler, and the token it gives back. *)

(* The handler writes: its record changes, its stage does not. *)
LEMMA HandlerWrites ==
  ASSUME PInv, NEW r \in Requests, At(r, "handler"), HandlerKeeps,
         NEW q \in ReqType, Becomes(r, q), q.pc = "handler",
         q.panic = req[r].panic, q.latched, req[r].hint => q.hint,
         q.panic = "abort" => q.answer # None,
         q.hint \/ q.answer # None,
         Agree(req[r]) /\ ~q.hint => Agree(q),
         q.hint => Hinted(q)
  PROVE  PInv'
<1>1. Serving /\ Unlogged /\ req[r].pc = "handler" /\ inFlight' = inFlight /\ inside' = inside
  BY DEF At, HandlerKeeps
<1>2. Local(q, counted[r])
  BY <1>1, OneRequest DEF Local, Metered
<1>3. /\ Here(req[r], Metered) = 1 /\ Here(q, Metered) = 1
      /\ Here(req[r], Admitted) = 1 /\ Here(q, Admitted) = 1
  BY <1>1 DEF Here, Metered, Admitted
<1> QED BY <1>1, <1>2, <1>3, OneRequest, QuietStep

LEMMA InformKeeps ==
  ASSUME PInv, NEW r \in Requests, Inform(r)
  PROVE  PInv'
<1>1. PICK code \in Hints : Becomes(r, [WriteHeader(req[r], code) EXCEPT !.hint = TRUE])
  BY DEF Inform
<1> DEFINE w == WriteHeader(req[r], code)
           q == [w EXCEPT !.hint = TRUE]
<1>2. req[r] \in ReqType /\ code \in Statuses
  BY OneRequest, StatusFacts
<1>3. /\ w \in ReqType /\ w.latched /\ w.pc = req[r].pc
      /\ w.panic = req[r].panic /\ w.answer = req[r].answer
      /\ Hinted(req[r]) => Hinted(w)
      /\ Agree(req[r]) /\ ~req[r].latched => Hinted(w)
  BY <1>2, WriteHeaderFacts
<1>4. Becomes(r, q)
  BY <1>1
<1> HIDE DEF w
<1>5. /\ q \in ReqType /\ q.latched /\ q.pc = req[r].pc /\ q.hint
      /\ q.panic = req[r].panic /\ q.answer = req[r].answer
      /\ q.latched = w.latched /\ q.wire = w.wire /\ q.meter = w.meter
  BY <1>3 DEF ReqType
<1> HIDE DEF q
<1>6. At(r, "handler") /\ HandlerKeeps /\ req[r].pc = "handler" /\ req[r].answer = None
  BY DEF Inform, At
<1>7. q.panic = "abort" => q.answer # None
  BY <1>5, OneRequest DEF Local
<1>8. Hinted(req[r]) \/ (Agree(req[r]) /\ ~req[r].latched)
  BY <1>6, OneRequest DEF Local, Metered
<1>9. Hinted(q)
  BY <1>3, <1>5, <1>8 DEF Hinted
<1> QED BY <1>4, <1>5, <1>6, <1>7, <1>9, HandlerWrites

LEMMA AnswerKeeps ==
  ASSUME PInv, NEW r \in Requests, Answer(r)
  PROVE  PInv'
<1>1. PICK code \in Finals : Becomes(r, [WriteHeader(req[r], code) EXCEPT !.answer = code])
  BY DEF Answer
<1> DEFINE w == WriteHeader(req[r], code)
           q == [w EXCEPT !.answer = code]
<1>2. code \in Statuses /\ code \notin Hints /\ code # None
  BY StatusFacts
<1>3. /\ w \in ReqType /\ w.latched /\ w.pc = req[r].pc /\ w.hint = req[r].hint
      /\ w.panic = req[r].panic
      /\ Agree(req[r]) => Agree(w)
      /\ Hinted(req[r]) => Hinted(w)
  BY <1>2, OneRequest, WriteHeaderFacts
<1>4. Becomes(r, q)
  BY <1>1
<1> HIDE DEF w
<1>5. /\ q \in ReqType /\ q.latched /\ q.pc = req[r].pc /\ q.hint = req[r].hint
      /\ q.panic = req[r].panic /\ q.answer = code
      /\ q.latched = w.latched /\ q.wire = w.wire /\ q.meter = w.meter
  BY <1>2, <1>3 DEF ReqType
<1> HIDE DEF q
<1>6. Agree(req[r]) => Agree(q)
  BY <1>3, <1>5 DEF Agree
<1>7. At(r, "handler") /\ HandlerKeeps /\ req[r].pc = "handler"
  BY DEF Answer, At
<1>8. q.hint => Hinted(q)
  <2>1. q.hint => Hinted(req[r])
    BY <1>5, <1>7, OneRequest DEF Local, Metered
  <2> QED BY <1>3, <1>5, <2>1 DEF Hinted
<1> QED BY <1>2, <1>4, <1>5, <1>6, <1>7, <1>8, HandlerWrites

LEMMA BodyKeeps ==
  ASSUME PInv, NEW r \in Requests, Body(r)
  PROVE  PInv'
<1> DEFINE q == Write(req[r])
<1>1. /\ q \in ReqType /\ q.latched /\ q.pc = req[r].pc /\ q.hint = req[r].hint
      /\ q.panic = req[r].panic /\ q.answer = req[r].answer
      /\ Agree(req[r]) => Agree(q)
      /\ Hinted(req[r]) => Hinted(q)
  BY OneRequest, WriteFacts
<1>2. /\ At(r, "handler") /\ HandlerKeeps /\ req[r].pc = "handler" /\ Becomes(r, q)
      /\ req[r].answer # None
  BY DEF Body, At
<1> HIDE DEF q
<1>3. q.hint => Hinted(q)
  BY <1>1, <1>2, OneRequest DEF Local, Metered
<1> QED BY <1>1, <1>2, <1>3, HandlerWrites

LEMMA ReturnKeeps ==
  ASSUME PInv, NEW r \in Requests, Return(r)
  PROVE  PInv'
<1> DEFINE q == [req[r] EXCEPT !.pc = "release"]
<1>1. /\ q \in ReqType /\ q.pc = "release" /\ q.panic = req[r].panic
      /\ q.answer = req[r].answer /\ q.latched = req[r].latched
      /\ q.wire = req[r].wire /\ q.meter = req[r].meter /\ q.hint = req[r].hint
  BY OneRequest DEF ReqType, Stages, Metered
<1>2. /\ Serving /\ Unlogged /\ Becomes(r, q) /\ req[r].pc = "handler"
      /\ inFlight' = inFlight /\ inside' = inside
  BY DEF Return, At, HandlerKeeps
<1> HIDE DEF q
<1>3. Local(q, counted[r])
  BY <1>1, <1>2, OneRequest DEF Local, Agree, Hinted, Metered
<1>4. /\ Here(req[r], Metered) = 1 /\ Here(q, Metered) = 1
      /\ Here(req[r], Admitted) = 1 /\ Here(q, Admitted) = 1
  BY <1>1, <1>2 DEF Here, Metered, Admitted
<1> QED BY <1>1, <1>2, <1>3, <1>4, OneRequest, QuietStep

LEMMA PanicKeeps ==
  ASSUME PInv, NEW r \in Requests, Panic(r)
  PROVE  PInv'
<1>1. PICK kind \in {"bug", "abort"} :
        /\ kind = "abort" => req[r].answer # None
        /\ Becomes(r, [req[r] EXCEPT !.pc = "release", !.panic = kind])
  BY DEF Panic
<1> DEFINE q == [req[r] EXCEPT !.pc = "release", !.panic = kind]
<1>2. /\ q \in ReqType /\ q.pc = "release" /\ q.panic = kind
      /\ q.answer = req[r].answer /\ q.latched = req[r].latched
      /\ q.wire = req[r].wire /\ q.meter = req[r].meter /\ q.hint = req[r].hint
  BY OneRequest DEF ReqType, Stages, Metered
<1>3. /\ Serving /\ Unlogged /\ Becomes(r, q) /\ req[r].pc = "handler"
      /\ inFlight' = inFlight /\ inside' = inside
  BY <1>1 DEF Panic, At, HandlerKeeps
<1> HIDE DEF q
<1>4. Local(q, counted[r])
  BY <1>1, <1>2, <1>3, OneRequest DEF Local, Agree, Hinted, Metered
<1>5. /\ Here(req[r], Metered) = 1 /\ Here(q, Metered) = 1
      /\ Here(req[r], Admitted) = 1 /\ Here(q, Admitted) = 1
  BY <1>2, <1>3 DEF Here, Metered, Admitted
<1> QED BY <1>2, <1>3, <1>4, <1>5, OneRequest, QuietStep

LEMMA ReleaseKeeps ==
  ASSUME PInv, NEW r \in Requests, Release(r)
  PROVE  PInv'
<1> DEFINE q == [req[r] EXCEPT !.pc = "observe"]
<1>1. /\ q \in ReqType /\ q.pc = "observe" /\ q.panic = req[r].panic
      /\ q.answer = req[r].answer /\ q.latched = req[r].latched
      /\ q.wire = req[r].wire /\ q.meter = req[r].meter /\ q.hint = req[r].hint
  BY OneRequest DEF ReqType, Stages, Metered
<1>2. /\ Serving /\ Unlogged /\ Becomes(r, q) /\ req[r].pc = "release"
      /\ inFlight' = inFlight /\ inside' = inside - 1
  BY DEF Release, At
<1> HIDE DEF q
<1>3. Local(q, counted[r])
  BY <1>1, <1>2, OneRequest DEF Local, Agree, Hinted, Metered
<1>4. /\ Here(req[r], Metered) = 1 /\ Here(q, Metered) = 1
      /\ Here(req[r], Admitted) = 1 /\ Here(q, Admitted) = 0
  BY <1>1, <1>2 DEF Here, Metered, Admitted
<1> QED BY <1>1, <1>2, <1>3, <1>4, OneRequest, QuietStep

-----------------------------------------------------------------------------
(* On the way out. *)

LEMMA ObserveKeeps ==
  ASSUME PInv, NEW r \in Requests, Observe(r)
  PROVE  PInv'
<1> DEFINE q == [req[r] EXCEPT !.pc = "meter"]
<1>1. /\ q \in ReqType /\ q.pc = "meter" /\ q.panic = req[r].panic
      /\ q.answer = req[r].answer /\ q.latched = req[r].latched
      /\ q.wire = req[r].wire /\ q.meter = req[r].meter /\ q.hint = req[r].hint
  BY OneRequest DEF ReqType, Stages, Metered
<1>2. /\ Serving /\ Becomes(r, q) /\ req[r].pc = "observe"
      /\ inFlight' = inFlight /\ inside' = inside /\ UNCHANGED server
      /\ reqLog' = reqLog /\ counted' = counted /\ channel' = channel /\ file' = file
  BY DEF Observe, At
<1> HIDE DEF q
<1>3. Local(q, counted[r])
  BY <1>1, <1>2, OneRequest DEF Local, Agree, Hinted, Metered
<1>4. /\ Here(req[r], Metered) = 1 /\ Here(q, Metered) = 1
      /\ Here(req[r], Admitted) = 0 /\ Here(q, Admitted) = 0
  BY <1>1, <1>2 DEF Here, Metered, Admitted
<1>5. line' \in [Requests -> Statuses \cup {None}]
  <2>1. line \in [Requests -> Statuses \cup {None}]
    BY DEF PInv, TypeOK
  <2>2. req[r].observed \in Statuses
    BY OneRequest DEF ReqType
  <2> QED BY <2>1, <2>2 DEF Observe
<1>6. /\ reqLog' \in BOOLEAN /\ channel' \subseteq Requests /\ file' \subseteq Requests
      /\ counted' \in [Requests -> [Statuses -> Nat]]
      /\ \A x \in Requests \ {r} : counted'[x] = counted[x]
      /\ Local(q, counted'[r])
  BY <1>2, <1>3 DEF PInv, TypeOK
<1> QED BY <1>1, <1>2, <1>4, <1>5, <1>6, OneRequest, OneStep

LEMMA MeterKeeps ==
  ASSUME PInv, NEW r \in Requests, Meter(r)
  PROVE  PInv'
<1> DEFINE stage == IF req[r].panic = "no" THEN "log" ELSE "recover"
           q == [req[r] EXCEPT !.pc = stage]
           label == Label(req[r])
           c == [counted[r] EXCEPT ![label] = @ + 1]
<1>1. /\ q \in ReqType /\ q.pc = stage /\ q.panic = req[r].panic
      /\ q.answer = req[r].answer /\ q.latched = req[r].latched
      /\ q.wire = req[r].wire /\ q.meter = req[r].meter /\ q.hint = req[r].hint
  BY OneRequest DEF ReqType, Stages, Metered
<1>2. /\ Serving /\ Becomes(r, q) /\ req[r].pc = "meter"
      /\ inFlight' = inFlight - 1 /\ inside' = inside /\ UNCHANGED server
      /\ reqLog' = reqLog /\ line' = line /\ channel' = channel /\ file' = file
      /\ counted' = [counted EXCEPT ![r] = c]
  BY DEF Meter, At
<1>3. label \in Statuses /\ label = Label(q)
  BY <1>1, OneRequest, StatusFacts DEF Label, ReqType
<1>4. Zero(counted[r]) /\ counted[r] \in [Statuses -> Nat]
  BY <1>2, OneRequest DEF Local, Metered
<1>5. c \in [Statuses -> Nat] /\ Once(c, label)
  BY <1>3, <1>4 DEF Zero, Once
<1>6. /\ counted \in [Requests -> [Statuses -> Nat]] /\ counted'[r] = c
      /\ counted' \in [Requests -> [Statuses -> Nat]]
      /\ \A x \in Requests \ {r} : counted'[x] = counted[x]
  BY <1>2, <1>5 DEF PInv, TypeOK
<1>7. stage \in {"log", "recover"} /\ (stage = "log" <=> req[r].panic = "no")
  OBVIOUS
<1> HIDE DEF q, c, label, stage
<1>8. q.panic = "no" /\ ~q.hint => label = Final(q)
  BY <1>1, <1>2, <1>3, OneRequest, StatusFacts DEF Local, Agree, Metered, Label, Final, ReqType
<1>9. q.hint => Hinted(q) /\ label = q.meter
  BY <1>1, <1>2, <1>3, OneRequest DEF Local, Hinted, Metered, Label
<1>10. Local(q, counted'[r])
  BY <1>1, <1>2, <1>3, <1>5, <1>6, <1>7, <1>8, <1>9, OneRequest DEF Local, Agree, Metered
<1>11. /\ Here(req[r], Metered) = 1 /\ Here(q, Metered) = 0
       /\ Here(req[r], Admitted) = 0 /\ Here(q, Admitted) = 0
  BY <1>1, <1>2, <1>7 DEF Here, Metered, Admitted
<1>12. /\ reqLog' \in BOOLEAN /\ channel' \subseteq Requests /\ file' \subseteq Requests
       /\ line' \in [Requests -> Statuses \cup {None}]
  BY <1>2 DEF PInv, TypeOK
<1> QED BY <1>1, <1>2, <1>6, <1>10, <1>11, <1>12, OneRequest, OneStep

(* Recoverer: an abort goes on, with its answer begun; any other panic ends *)
(* in a 500, unless the answer has begun.                                  *)
LEMMA RecoverKeeps ==
  ASSUME PInv, NEW r \in Requests, Recover(r)
  PROVE  PInv'
<1>1. /\ Serving /\ Unlogged /\ req[r].pc = "recover" /\ req[r].panic # "no"
      /\ inFlight' = inFlight /\ inside' = inside
      /\ ~req[r].hint => Agree(req[r]) /\ Once(counted[r], Label(req[r]))
      /\ req[r].hint => Hinted(req[r]) /\ Once(counted[r], req[r].meter)
      /\ req[r].panic = "abort" => req[r].latched /\ req[r].answer # None
  BY OneRequest DEF Recover, At, HandlerKeeps, Local
<1>2. CASE req[r].panic = "abort"
  <2> DEFINE q == [req[r] EXCEPT !.pc = "finish"]
  <2>1. /\ q \in ReqType /\ q.pc = "finish" /\ q.panic = "abort"
        /\ q.answer = req[r].answer /\ q.wire = req[r].wire /\ q.hint = req[r].hint
        /\ q.latched = req[r].latched /\ q.meter = req[r].meter
    BY <1>2, OneRequest DEF ReqType, Stages, Metered
  <2>2. Becomes(r, q)
    BY <1>2 DEF Recover
  <2> HIDE DEF q
  <2>3. ~q.hint => q.wire # None /\ Label(req[r]) = Final(q)
    BY <1>1, <1>2, <2>1 DEF Agree, Label, Final
  <2>4. Local(q, counted[r])
    BY <1>1, <1>2, <2>1, <2>3 DEF Local, Hinted, Metered
  <2>5. /\ Here(req[r], Metered) = 0 /\ Here(q, Metered) = 0
        /\ Here(req[r], Admitted) = 0 /\ Here(q, Admitted) = 0
    BY <1>1, <2>1 DEF Here, Metered, Admitted
  <2> QED BY <1>1, <2>1, <2>2, <2>4, <2>5, OneRequest, QuietStep
<1>3. CASE req[r].panic # "abort"
  <2> DEFINE u == OnWire(req[r].wire, Error500)
             q == [req[r] EXCEPT !.pc = "log", !.logged = Error500, !.wire = u]
  <2>1. /\ u = IF req[r].wire = None THEN Error500 ELSE req[r].wire
        /\ u \in Statuses /\ u # None /\ Error500 \in Statuses
    BY OneRequest, StatusFacts DEF OnWire, ReqType
  <2>2. Becomes(r, q)
    BY <1>3 DEF Recover
  <2> HIDE DEF u
  <2>3. /\ q \in ReqType /\ q.pc = "log" /\ q.panic = req[r].panic
        /\ q.answer = req[r].answer /\ q.wire = u /\ q.hint = req[r].hint
        /\ q.latched = req[r].latched /\ q.meter = req[r].meter
    BY <2>1, OneRequest DEF ReqType, Stages, Metered
  <2> HIDE DEF q
  <2>4. ~q.hint => Label(req[r]) = Final(q)
    BY <1>1, <1>3, <2>1, <2>3 DEF Agree, Label, Final
  <2>5. Local(q, counted[r])
    BY <1>1, <1>3, <2>1, <2>3, <2>4 DEF Local, Hinted, Metered
  <2>6. /\ Here(req[r], Metered) = 0 /\ Here(q, Metered) = 0
        /\ Here(req[r], Admitted) = 0 /\ Here(q, Admitted) = 0
    BY <1>1, <2>3 DEF Here, Metered, Admitted
  <2> QED BY <1>1, <2>2, <2>3, <2>5, <2>6, OneRequest, QuietStep
<1> QED BY <1>2, <1>3

LEMMA LogLineKeeps ==
  ASSUME PInv, NEW r \in Requests, LogLine(r)
  PROVE  PInv'
<1> DEFINE q == [req[r] EXCEPT !.pc = "finish"]
<1>1. /\ q \in ReqType /\ q.pc = "finish" /\ q.panic = req[r].panic
      /\ q.answer = req[r].answer /\ q.wire = req[r].wire /\ q.hint = req[r].hint
      /\ q.latched = req[r].latched /\ q.meter = req[r].meter
  BY OneRequest DEF ReqType, Stages, Metered
<1>2. /\ Serving /\ Becomes(r, q) /\ req[r].pc = "log"
      /\ inFlight' = inFlight /\ inside' = inside /\ UNCHANGED server
      /\ reqLog' = reqLog /\ counted' = counted /\ line' = line /\ file' = file
  BY DEF LogLine, At
<1> HIDE DEF q
<1>3. Local(q, counted[r])
  BY <1>1, <1>2, OneRequest DEF Local, Final, Hinted, Metered
<1>4. /\ Here(req[r], Metered) = 0 /\ Here(q, Metered) = 0
      /\ Here(req[r], Admitted) = 0 /\ Here(q, Admitted) = 0
  BY <1>1, <1>2 DEF Here, Metered, Admitted
<1>5. /\ reqLog' \in BOOLEAN /\ line' \in [Requests -> Statuses \cup {None}]
      /\ channel' \subseteq Requests /\ file' \subseteq Requests
      /\ counted' \in [Requests -> [Statuses -> Nat]]
      /\ \A x \in Requests \ {r} : counted'[x] = counted[x]
      /\ Local(q, counted'[r])
  BY <1>2, <1>3 DEF PInv, TypeOK, LogLine
<1> QED BY <1>1, <1>2, <1>4, <1>5, OneRequest, OneStep

LEMMA FinishKeeps ==
  ASSUME PInv, NEW r \in Requests, Finish(r)
  PROVE  PInv'
<1> DEFINE u == IF req[r].wire = None /\ req[r].panic # "abort" THEN OK200 ELSE req[r].wire
           q == [req[r] EXCEPT !.pc = "done", !.wire = u]
<1>1. /\ Serving /\ Unlogged /\ Becomes(r, q) /\ req[r].pc = "finish"
      /\ inFlight' = inFlight /\ inside' = inside
  BY DEF Finish, At, HandlerKeeps
<1>2. u \in Statuses \cup {None}
  BY OneRequest, StatusFacts DEF ReqType
<1>3. /\ ~req[r].hint => u = Final(req[r]) /\ u # None
      /\ u \in {req[r].wire, OK200}
  BY <1>1, OneRequest, StatusFacts DEF Local, Final
<1> HIDE DEF u
<1>4. /\ q \in ReqType /\ q.pc = "done" /\ q.panic = req[r].panic
      /\ q.answer = req[r].answer /\ q.wire = u /\ q.hint = req[r].hint
      /\ q.latched = req[r].latched /\ q.meter = req[r].meter
  BY <1>2, OneRequest DEF ReqType, Stages, Metered
<1> HIDE DEF q
<1>5. Local(q, counted[r])
  BY <1>1, <1>3, <1>4, OneRequest DEF Local, Hinted, Metered
<1>6. /\ Here(req[r], Metered) = 0 /\ Here(q, Metered) = 0
      /\ Here(req[r], Admitted) = 0 /\ Here(q, Admitted) = 0
  BY <1>1, <1>4 DEF Here, Metered, Admitted
<1> QED BY <1>1, <1>4, <1>5, <1>6, OneRequest, QuietStep

-----------------------------------------------------------------------------
(* The writer of the log, and the end of the process.                      *)

LEMMA WriteLineKeeps ==
  ASSUME PInv, NEW r \in Requests, WriteLine(r)
  PROVE  PInv'
<1>1. TypeOK'
  BY DEF WriteLine, PInv, TypeOK
<1>2. UNCHANGED <<server, req, inFlight, inside, counted>>
  BY DEF WriteLine
<1> QED BY <1>1, <1>2 DEF PInv, Gauges, Serving, Within, Counts

LEMMA SignalKeeps ==
  ASSUME PInv, Signal
  PROVE  PInv'
<1>1. TypeOK'
  BY DEF Signal, PInv, TypeOK
<1>2. UNCHANGED <<req, inFlight, inside, counted>> /\ Serving
  BY DEF Signal, Serving
<1> QED BY <1>1, <1>2 DEF PInv, Gauges, Within, Counts

LEMMA ExitKeeps ==
  ASSUME PInv, Exit
  PROVE  PInv'
<1> DEFINE still(r) == req[r].pc \in {"idle", "done"}
           cut(r) == [req[r] EXCEPT !.pc = "cut"]
<1>1. /\ req' = [r \in Requests |-> IF still(r) THEN req[r] ELSE cut(r)]
      /\ server' = "gone" /\ channel' = {} /\ inFlight' = 0 /\ inside' = 0
      /\ UNCHANGED <<reqLog, counted, line, file>>
  BY DEF Exit
<1>2. ASSUME NEW r \in Requests
      PROVE  req'[r] \in ReqType /\ Local(req'[r], counted[r])
  <2>1. CASE still(r)
    BY <1>1, <2>1, OneRequest
  <2>2. CASE ~still(r)
    <3> DEFINE q == cut(r)
    <3>1. /\ q \in ReqType /\ q.pc = "cut"
          /\ q.panic = req[r].panic /\ q.answer = req[r].answer
      BY OneRequest DEF ReqType, Stages
    <3>2. req'[r] = q
      BY <1>1, <2>2
    <3> HIDE DEF q
    <3>3. Local(q, counted[r])
      BY <3>1, OneRequest DEF Local, Metered
    <3> QED BY <3>1, <3>2, <3>3
  <2> QED BY <2>1, <2>2
<1>3. req' \in [Requests -> ReqType]
  <2>1. req' = [r \in Requests |-> req'[r]]
    BY <1>1
  <2> QED BY <1>2, <2>1
<1>4. TypeOK'
  BY <1>1, <1>3 DEF PInv, TypeOK
<1>5. Gauges'
  BY <1>1 DEF Gauges, Serving
<1>6. Counts'
  BY <1>1, <1>2 DEF Counts
<1>7. (inside <= Limit)'
  BY <1>1, OneRequest, PipelineAssumption
<1> QED BY <1>4, <1>5, <1>6, <1>7 DEF PInv

-----------------------------------------------------------------------------
LEMMA InitEstablishesPInv ==
  Init => PInv
<1> SUFFICES ASSUME Init PROVE PInv
  OBVIOUS
<1>1. /\ Fresh \in ReqType /\ Fresh.pc = "idle" /\ Fresh.panic = "no"
  BY StatusFacts DEF Fresh, ReqType, Stages, Metered
<1>2. req = [r \in Requests |-> Fresh] /\ inFlight = 0 /\ inside = 0
      /\ counted = [r \in Requests |-> [s \in Statuses |-> 0]]
  BY DEF Init
<1> DEFINE zero == [s \in Statuses |-> 0]
<1>3. zero \in [Statuses -> Nat] /\ Zero(zero)
  BY DEF Zero
<1>4. TypeOK
  BY <1>1, <1>2, <1>3 DEF Init, TypeOK
<1> HIDE DEF zero
<1>5. Counts
  <2> SUFFICES ASSUME NEW r \in Requests PROVE Local(req[r], counted[r])
    BY DEF Counts
  <2>1. req[r] = Fresh /\ counted[r] = zero
    BY <1>2 DEF zero
  <2> QED BY <1>1, <1>3, <2>1 DEF Local, Metered
<1>6. Gauges
  <2>1. Within(req, Metered) = {} /\ Within(req, Admitted) = {}
    BY <1>1, <1>2 DEF Within, Metered, Admitted
  <2> QED BY <1>2, <2>1, FS_EmptySet DEF Gauges
<1>7. inside <= Limit
  BY <1>2, PipelineAssumption
<1> QED BY <1>4, <1>5, <1>6, <1>7 DEF PInv

LEMMA NextKeepsPInv ==
  PInv /\ [Next]_vars => PInv'
<1> SUFFICES ASSUME PInv, [Next]_vars PROVE PInv'
  OBVIOUS
<1>1. ASSUME NEW r \in Requests, WayIn(r) PROVE PInv'
  BY <1>1, ArriveKeeps, AdmitKeeps, RejectKeeps DEF WayIn
<1>2. ASSUME NEW r \in Requests, Handler(r) PROVE PInv'
  BY <1>2, InformKeeps, AnswerKeeps, BodyKeeps, ReturnKeeps, PanicKeeps DEF Handler
<1>3. ASSUME NEW r \in Requests, WayOut(r) PROVE PInv'
  BY <1>3, ReleaseKeeps, ObserveKeeps, MeterKeeps, RecoverKeeps, LogLineKeeps,
     FinishKeeps, WriteLineKeeps DEF WayOut
<1>4. ASSUME Life PROVE PInv'
  BY <1>4, SignalKeeps, ExitKeeps DEF Life, Drained, DrainTimeout, ServerError
<1>5. CASE UNCHANGED vars
  <2>1. TypeOK'
    BY <1>5 DEF vars, PInv, TypeOK
  <2> QED BY <1>5, <2>1 DEF vars, PInv, Gauges, Serving, Within, Counts
<1> QED BY <1>1, <1>2, <1>3, <1>4, <1>5 DEF Next

(* The inductive invariant: gauges follow the stages of the requests, and  *)
(* the record of each request agrees with its counters (WithMetrics).      *)
THEOREM Invariant ==
  Spec => []PInv
BY InitEstablishesPInv, NextKeepsPInv, PTL DEF Spec

-----------------------------------------------------------------------------
(* Every variable keeps its type: no gauge goes below zero, and every      *)
(* status the recorders hold is one that was written (main.go:477, :488).  *)
THEOREM TypeCorrect ==
  Spec => []TypeOK
<1>1. PInv => TypeOK
  BY DEF PInv
<1> QED BY <1>1, Invariant, PTL

(* However requests end, by an answer, a rejection, a panic, or with the   *)
(* process, s3proxy_in_flight_requests is the number of requests that are  *)
(* in the server (WithMetrics).                                            *)
THEOREM GaugeExact ==
  Spec => []GaugeIsExact
<1>1. PInv => GaugeIsExact
  BY DEF PInv, Gauges, GaugeIsExact, Within
<1> QED BY <1>1, Invariant, PTL

(* No interleaving lets more than Limit requests into the handler, and no  *)
(* panic loses a token of the throttle (main.go, MAX_CONCURRENT_REQUESTS). *)
THEOREM TokensKept ==
  Spec => []TokensConserved
<1>1. PInv => TokensConserved
  BY DEF PInv, Gauges, TokensConserved, Within
<1> QED BY <1>1, Invariant, PTL

(* Every request that ended is counted exactly once in                     *)
(* s3proxy_http_requests_total, under the status its client received, or,  *)
(* if an informational answer went before, under that one's (WithMetrics). *)
THEOREM CountsWhatClientsReceive ==
  Spec => []CountedAsReceived
<1>1. ASSUME PInv, NEW r \in Requests, req[r].pc = "done"
      PROVE  \E label \in Statuses :
               /\ Once(counted[r], label)
               /\ IF req[r].hint THEN label \in Hints /\ req[r].wire \in {OK200, Error500, None}
                  ELSE label = req[r].wire
  <2>1. Local(req[r], counted[r]) /\ req[r] \in ReqType
    BY <1>1, OneRequest
  <2>2. CASE req[r].hint
    BY <1>1, <2>1, <2>2, StatusFacts DEF Local, Hinted
  <2>3. CASE ~req[r].hint
    <3>1. Once(counted[r], req[r].wire) /\ req[r].wire \in Statuses
      BY <1>1, <2>1, <2>3 DEF Local, ReqType
    <3> QED BY <2>3, <3>1
  <2> QED BY <2>2, <2>3
<1>2. PInv => CountedAsReceived
  BY <1>1 DEF Once, CountedAsReceived
<1> QED BY <1>2, Invariant, PTL

-----------------------------------------------------------------------------
(* Both logs. What the two recorders hold agrees with the counting writer  *)
(* until Recoverer writes, unless an informational answer came between.    *)

(* A record of reqlog that differs from what the client got is a late 500. *)
LateError(q) == q.panic = "bug" /\ q.latched /\ q.logged = Error500

Recorded(q, c, ln) ==
  /\ q.pc = "throttle" => q.answer = None
  /\ q.pc \in Metered \cup {"recover"} /\ ~q.hint =>
       q.observed = q.meter /\ q.logged = q.meter /\ (q.answer = None => ~q.latched)
  /\ q.pc \in Metered \cup {"idle", "recover"} /\ ln # None =>
       q.pc = "meter" /\ q.panic = "no" /\ (~q.hint => ln = q.meter)
  /\ q.pc \in {"log", "finish", "done"} /\ ~q.hint /\ ln # None => c[ln] = 1
  /\ q.pc \in {"log", "finish"} /\ ~q.hint /\ q.panic # "abort" =>
       q.logged = Final(q) \/ LateError(q)
  /\ q.pc = "done" /\ ~q.hint /\ q.panic # "abort" => q.logged = q.wire \/ LateError(q)

Ended == {"finish", "done", "cut"}
Written == channel \cup file

RInv ==
  /\ \A r \in Requests : Recorded(req[r], counted[r], line[r])
  /\ \A r \in Written : req[r].pc \in Ended /\ req[r].panic # "abort"
  /\ Serving /\ reqLog => \A r \in Requests :
       req[r].pc \in {"finish", "done"} /\ req[r].panic # "abort" => r \in Written

(* A step of one request keeps RInv if its own record, line and log line do. *)
LEMMA OneRecord ==
  ASSUME PInv, RInv, UNCHANGED <<server, reqLog>>,
         NEW r \in Requests, NEW q \in ReqType, Becomes(r, q),
         \A x \in Requests \ {r} : counted'[x] = counted[x] /\ line'[x] = line[x],
         \A x \in Requests \ {r} : x \in Written' <=> x \in Written,
         Written' \subseteq Requests,
         Recorded(q, counted'[r], line'[r]),
         r \in Written' => q.pc \in Ended /\ q.panic # "abort",
         reqLog /\ q.pc \in {"finish", "done"} /\ q.panic # "abort" => r \in Written'
  PROVE  RInv'
<1>1. req \in [Requests -> ReqType] /\ req' = [req EXCEPT ![r] = q]
  BY DEF PInv, TypeOK, Becomes
<1>2. req'[r] = q /\ \A x \in Requests \ {r} : req'[x] = req[x]
  BY <1>1
<1>3. \A x \in Requests : Recorded(req'[x], counted'[x], line'[x])
  BY <1>2 DEF RInv
<1>4. \A x \in Written' : req'[x].pc \in Ended /\ req'[x].panic # "abort"
  BY <1>2 DEF RInv
<1>5. ASSUME Serving', reqLog', NEW x \in Requests, req'[x].pc \in {"finish", "done"},
             req'[x].panic # "abort"
      PROVE  x \in Written'
  BY <1>2, <1>5 DEF RInv, Serving
<1> QED BY <1>3, <1>4, <1>5 DEF RInv

(* A step before the request's line in the reqlog, with nothing counted.   *)
LEMMA QuietRecord ==
  ASSUME PInv, RInv, Unlogged, NEW r \in Requests, NEW q \in ReqType, Becomes(r, q),
         Recorded(q, counted[r], line[r]),
         req[r].pc \notin Ended, q.pc \in {"finish", "done"} => q.panic = "abort"
  PROVE  RInv'
<1>1. UNCHANGED <<server, reqLog>> /\ counted' = counted /\ line' = line
      /\ channel' = channel /\ file' = file
  BY DEF Unlogged
<1>2. Written' = Written /\ Written \subseteq Requests /\ r \notin Written
  BY <1>1 DEF Written, PInv, TypeOK, RInv
<1> QED BY <1>1, <1>2, OneRecord

(* The same for a step that changes the stage of a request and no record.  *)
LEMMA StageRecord ==
  ASSUME PInv, RInv, Unlogged, NEW r \in Requests, NEW q \in ReqType, Becomes(r, q),
         req[r].pc \in {"throttle", "handler", "release"},
         q.pc \in {"handler", "release", "observe"},
         q.hint = req[r].hint, q.answer = req[r].answer, q.latched = req[r].latched,
         q.meter = req[r].meter, q.observed = req[r].observed, q.logged = req[r].logged
  PROVE  RInv'
<1>1. Recorded(req[r], counted[r], line[r])
  BY DEF RInv
<1>2. Recorded(q, counted[r], line[r])
  BY <1>1 DEF Recorded, Metered
<1> QED BY <1>2, QuietRecord DEF Ended

LEMMA HeaderRecords ==
  ASSUME NEW q \in ReqType, NEW code \in Statuses, NEW w, w = WriteHeader(q, code), ~q.latched
  PROVE  w.observed = code /\ w.meter = code /\ w.logged = code
BY DEF WriteHeader, ReqType

LEMMA BodyRecords ==
  ASSUME NEW q \in ReqType, NEW w, w = Write(q), q.latched
  PROVE  w.observed = q.observed /\ w.meter = q.meter /\ w.logged = q.logged
BY DEF Write, ReqType

LEMMA ArriveRecords ==
  ASSUME PInv, RInv, NEW r \in Requests, Arrive(r)
  PROVE  RInv'
<1> DEFINE q == [Fresh EXCEPT !.pc = "throttle"]
<1>1. /\ q \in ReqType /\ q.pc = "throttle" /\ q.answer = None /\ ~q.latched
      /\ q.meter = OK200 /\ q.observed = OK200 /\ q.logged = OK200
  BY StatusFacts DEF Fresh, ReqType, Stages, Metered
<1>2. Unlogged /\ Becomes(r, q) /\ req[r].pc = "idle"
  BY DEF Arrive
<1> HIDE DEF q
<1>3. Recorded(req[r], counted[r], line[r])
  BY DEF RInv
<1>4. Recorded(q, counted[r], line[r])
  BY <1>1, <1>2, <1>3 DEF Recorded, Metered
<1> QED BY <1>1, <1>2, <1>4, QuietRecord DEF Ended

LEMMA AdmitRecords ==
  ASSUME PInv, RInv, NEW r \in Requests, Admit(r)
  PROVE  RInv'
<1> DEFINE q == [req[r] EXCEPT !.pc = "handler"]
<1>1. /\ q \in ReqType /\ q.pc = "handler" /\ q.hint = req[r].hint
      /\ q.answer = req[r].answer /\ q.latched = req[r].latched /\ q.meter = req[r].meter
      /\ q.observed = req[r].observed /\ q.logged = req[r].logged
  BY OneRequest DEF ReqType, Stages, Metered
<1>2. Unlogged /\ Becomes(r, q) /\ req[r].pc = "throttle"
  BY DEF Admit, At
<1> HIDE DEF q
<1> QED BY <1>1, <1>2, StageRecord

LEMMA RejectRecords ==
  ASSUME PInv, RInv, NEW r \in Requests, Reject(r)
  PROVE  RInv'
<1> DEFINE h == WriteHeader(req[r], Busy)
           w == Write(h)
           q == [w EXCEPT !.pc = "observe", !.answer = Busy]
<1>1. req[r].pc = "throttle" /\ Unlogged /\ Becomes(r, q)
  BY DEF Reject, At
<1>2. Recorded(req[r], counted[r], line[r]) /\ req[r] \in ReqType /\ Busy \in Statuses
  BY OneRequest, StatusFacts DEF RInv
<1>3. h \in ReqType /\ h.latched /\ h.hint = req[r].hint
  BY <1>2, WriteHeaderFacts
<1>4. ~req[r].hint => h.observed = Busy /\ h.meter = Busy /\ h.logged = Busy
  <2>1. ~req[r].hint => ~req[r].latched
    BY <1>1, <1>2 DEF Recorded, Metered
  <2> QED BY <1>2, <2>1, HeaderRecords
<1> HIDE DEF h
<1>5. /\ w \in ReqType /\ w.latched /\ w.hint = req[r].hint
      /\ w.observed = h.observed /\ w.meter = h.meter /\ w.logged = h.logged
  BY <1>3, WriteFacts, BodyRecords
<1> HIDE DEF w
<1>6. /\ q \in ReqType /\ q.pc = "observe" /\ q.answer = Busy /\ q.hint = req[r].hint
      /\ q.observed = h.observed /\ q.meter = h.meter /\ q.logged = h.logged
  BY <1>2, <1>5 DEF ReqType, Stages, Metered
<1> HIDE DEF q
<1>7. Recorded(q, counted[r], line[r])
  BY <1>1, <1>2, <1>4, <1>6, StatusFacts DEF Recorded, Metered
<1> QED BY <1>1, <1>6, <1>7, QuietRecord DEF Ended

-----------------------------------------------------------------------------
LEMMA InformRecords ==
  ASSUME PInv, RInv, NEW r \in Requests, Inform(r)
  PROVE  RInv'
<1>1. PICK code \in Hints : Becomes(r, [WriteHeader(req[r], code) EXCEPT !.hint = TRUE])
  BY DEF Inform
<1> DEFINE w == WriteHeader(req[r], code)
           q == [w EXCEPT !.hint = TRUE]
<1>2. w \in ReqType /\ w.pc = req[r].pc
  BY OneRequest, StatusFacts, WriteHeaderFacts
<1>3. Becomes(r, q) /\ Unlogged /\ req[r].pc = "handler"
  BY <1>1 DEF Inform, At, HandlerKeeps
<1> HIDE DEF w
<1>4. q \in ReqType /\ q.pc = "handler" /\ q.hint
  BY <1>2, <1>3 DEF ReqType
<1> HIDE DEF q
<1>5. Recorded(req[r], counted[r], line[r])
  BY DEF RInv
<1>6. Recorded(q, counted[r], line[r])
  BY <1>3, <1>4, <1>5 DEF Recorded, Metered
<1> QED BY <1>3, <1>4, <1>6, QuietRecord DEF Ended

LEMMA AnswerRecords ==
  ASSUME PInv, RInv, NEW r \in Requests, Answer(r)
  PROVE  RInv'
<1>1. PICK code \in Finals : Becomes(r, [WriteHeader(req[r], code) EXCEPT !.answer = code])
  BY DEF Answer
<1> DEFINE w == WriteHeader(req[r], code)
           q == [w EXCEPT !.answer = code]
<1>2. code \in Statuses /\ code # None /\ req[r] \in ReqType
  BY OneRequest, StatusFacts
<1>3. Becomes(r, q) /\ Unlogged /\ req[r].pc = "handler" /\ req[r].answer = None
  BY <1>1 DEF Answer, At, HandlerKeeps
<1>4. Recorded(req[r], counted[r], line[r])
  BY DEF RInv
<1>5. w \in ReqType /\ w.pc = req[r].pc /\ w.hint = req[r].hint
  BY <1>2, WriteHeaderFacts
<1>6. ~req[r].hint => w.observed = code /\ w.meter = code /\ w.logged = code
  <2>1. ~req[r].hint => ~req[r].latched
    BY <1>3, <1>4 DEF Recorded, Metered
  <2> QED BY <1>2, <2>1, HeaderRecords
<1> HIDE DEF w
<1>7. /\ q \in ReqType /\ q.pc = "handler" /\ q.hint = req[r].hint /\ q.answer = code
      /\ q.observed = w.observed /\ q.meter = w.meter /\ q.logged = w.logged
  BY <1>2, <1>3, <1>5 DEF ReqType
<1> HIDE DEF q
<1>8. Recorded(q, counted[r], line[r])
  BY <1>2, <1>3, <1>4, <1>6, <1>7 DEF Recorded, Metered
<1> QED BY <1>3, <1>7, <1>8, QuietRecord DEF Ended

LEMMA BodyKeepsRecords ==
  ASSUME PInv, RInv, NEW r \in Requests, Body(r)
  PROVE  RInv'
<1> DEFINE q == Write(req[r])
<1>1. /\ Becomes(r, q) /\ Unlogged /\ req[r].pc = "handler" /\ req[r].answer # None
      /\ req[r] \in ReqType
  BY OneRequest DEF Body, At, HandlerKeeps
<1>2. req[r].latched
  BY <1>1, OneRequest DEF Local, Metered
<1>3. /\ q \in ReqType /\ q.pc = "handler" /\ q.hint = req[r].hint
      /\ q.answer = req[r].answer
      /\ q.observed = req[r].observed /\ q.meter = req[r].meter /\ q.logged = req[r].logged
  BY <1>1, <1>2, WriteFacts, BodyRecords
<1> HIDE DEF q
<1>4. Recorded(req[r], counted[r], line[r])
  BY DEF RInv
<1>5. Recorded(q, counted[r], line[r])
  BY <1>1, <1>3, <1>4 DEF Recorded, Metered
<1> QED BY <1>1, <1>3, <1>5, QuietRecord DEF Ended

LEMMA ReturnRecords ==
  ASSUME PInv, RInv, NEW r \in Requests, Return(r)
  PROVE  RInv'
<1> DEFINE q == [req[r] EXCEPT !.pc = "release"]
<1>1. /\ q \in ReqType /\ q.pc = "release" /\ q.hint = req[r].hint
      /\ q.answer = req[r].answer /\ q.latched = req[r].latched /\ q.meter = req[r].meter
      /\ q.observed = req[r].observed /\ q.logged = req[r].logged
  BY OneRequest DEF ReqType, Stages, Metered
<1>2. Unlogged /\ Becomes(r, q) /\ req[r].pc = "handler"
  BY DEF Return, At, HandlerKeeps
<1> HIDE DEF q
<1> QED BY <1>1, <1>2, StageRecord

LEMMA PanicRecords ==
  ASSUME PInv, RInv, NEW r \in Requests, Panic(r)
  PROVE  RInv'
<1>1. PICK kind \in {"bug", "abort"} :
        Becomes(r, [req[r] EXCEPT !.pc = "release", !.panic = kind])
  BY DEF Panic
<1> DEFINE q == [req[r] EXCEPT !.pc = "release", !.panic = kind]
<1>2. /\ q \in ReqType /\ q.pc = "release" /\ q.hint = req[r].hint
      /\ q.answer = req[r].answer /\ q.latched = req[r].latched /\ q.meter = req[r].meter
      /\ q.observed = req[r].observed /\ q.logged = req[r].logged
  BY OneRequest DEF ReqType, Stages, Metered
<1>3. Unlogged /\ Becomes(r, q) /\ req[r].pc = "handler"
  BY <1>1 DEF Panic, At, HandlerKeeps
<1> HIDE DEF q
<1> QED BY <1>2, <1>3, StageRecord

LEMMA ReleaseRecords ==
  ASSUME PInv, RInv, NEW r \in Requests, Release(r)
  PROVE  RInv'
<1> DEFINE q == [req[r] EXCEPT !.pc = "observe"]
<1>1. /\ q \in ReqType /\ q.pc = "observe" /\ q.hint = req[r].hint
      /\ q.answer = req[r].answer /\ q.latched = req[r].latched /\ q.meter = req[r].meter
      /\ q.observed = req[r].observed /\ q.logged = req[r].logged
  BY OneRequest DEF ReqType, Stages, Metered
<1>2. Unlogged /\ Becomes(r, q) /\ req[r].pc = "release"
  BY DEF Release, At
<1> HIDE DEF q
<1> QED BY <1>1, <1>2, StageRecord

(* A step that leaves both ends of the reqlog alone. *)
LEMMA UnwrittenRecord ==
  ASSUME PInv, RInv, UNCHANGED <<server, reqLog, channel, file>>,
         NEW r \in Requests, NEW q \in ReqType, Becomes(r, q),
         \A x \in Requests \ {r} : counted'[x] = counted[x] /\ line'[x] = line[x],
         Recorded(q, counted'[r], line'[r]), req[r].pc \notin Ended, q.pc \notin Ended
  PROVE  RInv'
<1>1. Written' = Written /\ Written \subseteq Requests /\ r \notin Written
  BY DEF Written, PInv, TypeOK, RInv
<1> QED BY <1>1, OneRecord DEF Ended

LEMMA ObserveRecords ==
  ASSUME PInv, RInv, NEW r \in Requests, Observe(r)
  PROVE  RInv'
<1> DEFINE q == [req[r] EXCEPT !.pc = "meter"]
<1>1. /\ q \in ReqType /\ q.pc = "meter" /\ q.panic = req[r].panic /\ q.hint = req[r].hint
      /\ q.answer = req[r].answer /\ q.latched = req[r].latched /\ q.meter = req[r].meter
      /\ q.observed = req[r].observed /\ q.logged = req[r].logged
  BY OneRequest DEF ReqType, Stages, Metered
<1>2. /\ UNCHANGED <<server, reqLog, channel, file>> /\ counted' = counted
      /\ Becomes(r, q) /\ req[r].pc = "observe"
      /\ line' = IF req[r].panic = "no" THEN [line EXCEPT ![r] = req[r].observed] ELSE line
  BY DEF Observe, At
<1> HIDE DEF q
<1>3. line \in [Requests -> Statuses \cup {None}]
  BY DEF PInv, TypeOK
<1>4. /\ \A x \in Requests \ {r} : counted'[x] = counted[x] /\ line'[x] = line[x]
      /\ line'[r] = IF req[r].panic = "no" THEN req[r].observed ELSE line[r]
  BY <1>2, <1>3
<1>5. Recorded(req[r], counted[r], line[r])
  BY DEF RInv
<1>6. Recorded(q, counted'[r], line'[r])
  BY <1>1, <1>2, <1>4, <1>5 DEF Recorded, Metered
<1> QED BY <1>1, <1>2, <1>4, <1>6, UnwrittenRecord DEF Ended

(* Counted under the status of its line, if it has one: what Label returns *)
(* for a request that did not panic is what all three writers hold.        *)
LEMMA MeterRecords ==
  ASSUME PInv, RInv, NEW r \in Requests, Meter(r)
  PROVE  RInv'
<1> DEFINE stage == IF req[r].panic = "no" THEN "log" ELSE "recover"
           q == [req[r] EXCEPT !.pc = stage]
           label == Label(req[r])
           c == [counted[r] EXCEPT ![label] = @ + 1]
<1>1. /\ q \in ReqType /\ q.pc = stage /\ q.panic = req[r].panic /\ q.hint = req[r].hint
      /\ q.answer = req[r].answer /\ q.latched = req[r].latched /\ q.meter = req[r].meter
      /\ q.observed = req[r].observed /\ q.logged = req[r].logged /\ q.wire = req[r].wire
  BY OneRequest DEF ReqType, Stages, Metered
<1>2. /\ UNCHANGED <<server, reqLog, channel, file>> /\ line' = line
      /\ Becomes(r, q) /\ req[r].pc = "meter"
      /\ counted' = [counted EXCEPT ![r] = c]
  BY DEF Meter, At
<1>3. label \in Statuses /\ (req[r].panic = "no" => label = req[r].meter)
  BY OneRequest, StatusFacts DEF Label, ReqType
<1>4. Zero(counted[r]) /\ counted[r] \in [Statuses -> Nat] /\ counted \in [Requests -> [Statuses -> Nat]]
  BY <1>2, OneRequest DEF Local, Metered, PInv, TypeOK
<1>5. c[label] = 1
  BY <1>3, <1>4 DEF Zero
<1>6. counted'[r] = c /\ \A x \in Requests \ {r} : counted'[x] = counted[x]
  BY <1>2, <1>4
<1>7. stage \in {"log", "recover"} /\ (stage = "log" <=> req[r].panic = "no")
  OBVIOUS
<1> HIDE DEF q, c, label, stage
<1>8. Recorded(req[r], counted[r], line[r]) /\ Local(req[r], counted[r])
  BY OneRequest DEF RInv
<1>9. ~q.hint /\ q.panic = "no" => q.logged = Final(q)
  BY <1>1, <1>2, <1>8, StatusFacts DEF Recorded, Local, Metered, Agree, Final
<1>10. Recorded(q, counted'[r], line'[r])
  BY <1>1, <1>2, <1>3, <1>5, <1>6, <1>7, <1>8, <1>9 DEF Recorded, Metered
<1> QED BY <1>1, <1>2, <1>6, <1>7, <1>10, UnwrittenRecord DEF Ended

(* Recoverer's 500 is what reqlog keeps, and what the client got if its    *)
(* answer had not begun.                                                   *)
LEMMA RecoverRecords ==
  ASSUME PInv, RInv, NEW r \in Requests, Recover(r)
  PROVE  RInv'
<1>1. /\ Unlogged /\ req[r].pc = "recover" /\ req[r].panic # "no" /\ req[r] \in ReqType
      /\ ~req[r].hint => Agree(req[r])
      /\ Recorded(req[r], counted[r], line[r])
  BY OneRequest DEF Recover, At, HandlerKeeps, Local, RInv
<1>2. line[r] = None
  BY <1>1 DEF Recorded
<1>3. CASE req[r].panic = "abort"
  <2> DEFINE q == [req[r] EXCEPT !.pc = "finish"]
  <2>1. q \in ReqType /\ q.pc = "finish" /\ q.panic = "abort"
    BY <1>1, <1>3 DEF ReqType, Stages, Metered
  <2>2. Becomes(r, q)
    BY <1>3 DEF Recover
  <2> HIDE DEF q
  <2>3. Recorded(q, counted[r], line[r])
    BY <1>2, <2>1 DEF Recorded, Metered
  <2> QED BY <1>1, <2>1, <2>2, <2>3, QuietRecord DEF Ended
<1>4. CASE req[r].panic # "abort"
  <2> DEFINE u == OnWire(req[r].wire, Error500)
             q == [req[r] EXCEPT !.pc = "log", !.logged = Error500, !.wire = u]
  <2>1. /\ u = IF req[r].wire = None THEN Error500 ELSE req[r].wire
        /\ u \in Statuses /\ u # None /\ Error500 \in Statuses
    BY <1>1, StatusFacts DEF OnWire, ReqType
  <2>2. Becomes(r, q)
    BY <1>4 DEF Recover
  <2> HIDE DEF u
  <2>3. /\ q \in ReqType /\ q.pc = "log" /\ q.panic = "bug" /\ q.hint = req[r].hint
        /\ q.wire = u /\ q.logged = Error500 /\ q.latched = req[r].latched
    BY <1>1, <1>4, <2>1 DEF ReqType, Stages, Metered
  <2> HIDE DEF q
  <2>4. ~q.hint => q.logged = Final(q) \/ LateError(q)
    BY <1>1, <2>1, <2>3 DEF Agree, Final, LateError
  <2>5. Recorded(q, counted[r], line[r])
    BY <1>2, <2>3, <2>4 DEF Recorded, Metered
  <2> QED BY <1>1, <2>2, <2>3, <2>5, QuietRecord DEF Ended
<1> QED BY <1>3, <1>4

LEMMA LogLineRecords ==
  ASSUME PInv, RInv, NEW r \in Requests, LogLine(r)
  PROVE  RInv'
<1> DEFINE q == [req[r] EXCEPT !.pc = "finish"]
<1>1. /\ q \in ReqType /\ q.pc = "finish" /\ q.panic = req[r].panic /\ q.hint = req[r].hint
      /\ q.latched = req[r].latched /\ q.logged = req[r].logged /\ q.wire = req[r].wire
  BY OneRequest DEF ReqType, Stages, Metered
<1>2. /\ UNCHANGED <<server, reqLog>> /\ counted' = counted /\ line' = line /\ file' = file
      /\ Becomes(r, q) /\ req[r].pc = "log"
      /\ channel' = IF reqLog THEN channel \cup {r} ELSE channel
  BY DEF LogLine, At
<1> HIDE DEF q
<1>3. Recorded(req[r], counted[r], line[r]) /\ q.panic # "abort"
  BY <1>1, <1>2, OneRequest DEF RInv, Local
<1>4. Recorded(q, counted'[r], line'[r])
  BY <1>1, <1>2, <1>3 DEF Recorded, Metered, Final, LateError
<1>5. /\ \A x \in Requests \ {r} : x \in Written' <=> x \in Written
      /\ Written' \subseteq Requests /\ (reqLog => r \in Written')
  BY <1>2 DEF Written, PInv, TypeOK
<1> QED BY <1>1, <1>2, <1>3, <1>4, <1>5, OneRecord DEF Ended

LEMMA FinishRecords ==
  ASSUME PInv, RInv, NEW r \in Requests, Finish(r)
  PROVE  RInv'
<1> DEFINE u == IF req[r].wire = None /\ req[r].panic # "abort" THEN OK200 ELSE req[r].wire
           q == [req[r] EXCEPT !.pc = "done", !.wire = u]
<1>1. Serving /\ Unlogged /\ Becomes(r, q) /\ req[r].pc = "finish"
  BY DEF Finish, At, HandlerKeeps
<1>2. u \in Statuses \cup {None} /\ (req[r].panic # "abort" => u = Final(req[r]))
  BY OneRequest, StatusFacts DEF ReqType, Final
<1> HIDE DEF u
<1>3. /\ q \in ReqType /\ q.pc = "done" /\ q.panic = req[r].panic /\ q.hint = req[r].hint
      /\ q.latched = req[r].latched /\ q.logged = req[r].logged /\ q.wire = u
  BY <1>2, OneRequest DEF ReqType, Stages, Metered
<1> HIDE DEF q
<1>4. Recorded(req[r], counted[r], line[r])
  BY DEF RInv
<1>5. Recorded(q, counted[r], line[r])
  BY <1>1, <1>2, <1>3, <1>4 DEF Recorded, Metered, LateError
<1>6. UNCHANGED <<server, reqLog>> /\ counted' = counted /\ line' = line
      /\ channel' = channel /\ file' = file
  BY <1>1 DEF Unlogged
<1>7. Written' = Written /\ Written \subseteq Requests
  BY <1>6 DEF Written, PInv, TypeOK
<1>8. /\ r \in Written => q.panic # "abort"
      /\ reqLog /\ q.panic # "abort" => r \in Written
  BY <1>1, <1>3 DEF RInv
<1> QED BY <1>1, <1>3, <1>5, <1>6, <1>7, <1>8, OneRecord DEF Ended

-----------------------------------------------------------------------------
LEMMA WriteLineRecords ==
  ASSUME PInv, RInv, NEW r \in Requests, WriteLine(r)
  PROVE  RInv'
<1>1. UNCHANGED <<server, reqLog, req, counted, line>> /\ Written' = Written
  BY DEF WriteLine, Written
<1> QED BY <1>1 DEF RInv, Serving

LEMMA SignalRecords ==
  ASSUME RInv, Signal
  PROVE  RInv'
<1>1. UNCHANGED <<reqLog, req, counted, line>> /\ Written' = Written /\ Serving
  BY DEF Signal, Serving, Written
<1> QED BY <1>1 DEF RInv

(* What the file says of requests that had ended stays true of them.       *)
LEMMA ExitRecords ==
  ASSUME PInv, RInv, Exit
  PROVE  RInv'
<1> DEFINE still(r) == req[r].pc \in {"idle", "done"}
           cut(r) == [req[r] EXCEPT !.pc = "cut"]
<1>1. /\ req' = [r \in Requests |-> IF still(r) THEN req[r] ELSE cut(r)]
      /\ server' = "gone" /\ Written' = file
      /\ UNCHANGED <<counted, line>>
  BY DEF Exit, Written
<1>2. file \subseteq Written /\ Written \subseteq Requests
  BY DEF Written, PInv, TypeOK
<1>3. ASSUME NEW r \in Requests
      PROVE  /\ Recorded(req'[r], counted[r], line[r])
             /\ r \in Written => req'[r].pc \in Ended /\ req'[r].panic # "abort"
  <2>1. Recorded(req[r], counted[r], line[r]) /\ req[r] \in ReqType
    BY OneRequest DEF RInv
  <2>2. r \in Written => req[r].pc \in Ended /\ req[r].panic # "abort"
    BY DEF RInv
  <2>3. CASE still(r)
    <3>1. req'[r] = req[r]
      BY <1>1, <2>3
    <3> QED BY <2>1, <2>2, <3>1
  <2>4. CASE ~still(r)
    <3> DEFINE q == cut(r)
    <3>1. q.pc = "cut" /\ q.panic = req[r].panic
      BY <2>1 DEF ReqType
    <3>2. req'[r] = q
      BY <1>1, <2>4
    <3> HIDE DEF q
    <3>3. Recorded(q, counted[r], line[r])
      BY <3>1 DEF Recorded, Metered
    <3> QED BY <2>2, <3>1, <3>2, <3>3 DEF Ended
  <2> QED BY <2>3, <2>4
<1>4. ~Serving'
  BY <1>1 DEF Serving
<1>5. \A r \in Requests : Recorded(req'[r], counted'[r], line'[r])
  BY <1>1, <1>3
<1>6. \A r \in Written' : req'[r].pc \in Ended /\ req'[r].panic # "abort"
  BY <1>1, <1>2, <1>3
<1> QED BY <1>4, <1>5, <1>6 DEF RInv

LEMMA InitEstablishesRInv ==
  Init => RInv
<1> SUFFICES ASSUME Init PROVE RInv
  OBVIOUS
<1>1. Fresh.pc = "idle"
  BY DEF Fresh
<1>2. ASSUME NEW r \in Requests PROVE req[r].pc = "idle" /\ line[r] = None
  BY <1>1 DEF Init
<1>3. Written = {}
  BY DEF Init, Written
<1>4. ASSUME NEW r \in Requests PROVE Recorded(req[r], counted[r], line[r])
  BY <1>2 DEF Recorded, Metered
<1> QED BY <1>2, <1>3, <1>4 DEF RInv

LEMMA NextKeepsRInv ==
  PInv /\ RInv /\ [Next]_vars => RInv'
<1> SUFFICES ASSUME PInv, RInv, [Next]_vars PROVE RInv'
  OBVIOUS
<1>1. ASSUME NEW r \in Requests, WayIn(r) PROVE RInv'
  BY <1>1, ArriveRecords, AdmitRecords, RejectRecords DEF WayIn
<1>2. ASSUME NEW r \in Requests, Handler(r) PROVE RInv'
  BY <1>2, InformRecords, AnswerRecords, BodyKeepsRecords, ReturnRecords, PanicRecords
     DEF Handler
<1>3. ASSUME NEW r \in Requests, WayOut(r) PROVE RInv'
  BY <1>3, ReleaseRecords, ObserveRecords, MeterRecords, RecoverRecords, LogLineRecords,
     FinishRecords, WriteLineRecords DEF WayOut
<1>4. ASSUME Life PROVE RInv'
  BY <1>4, SignalRecords, ExitRecords DEF Life, Drained, DrainTimeout, ServerError
<1>5. CASE UNCHANGED vars
  <2>1. UNCHANGED <<server, reqLog, req, counted, line>> /\ Written' = Written
    BY <1>5 DEF vars, Written
  <2> QED BY <2>1 DEF RInv, Serving
<1> QED BY <1>1, <1>2, <1>3, <1>4, <1>5 DEF Next

(* The invariant of both logs, on top of the one of the counters.          *)
THEOREM RecordsInvariant ==
  Spec => []RInv
<1>1. Init => PInv /\ RInv
  BY InitEstablishesPInv, InitEstablishesRInv
<1>2. (PInv /\ RInv) /\ [Next]_vars => (PInv /\ RInv)'
  BY NextKeepsPInv, NextKeepsRInv
<1> QED BY <1>1, <1>2, PTL DEF Spec

(* No line of the structured log contradicts the counters                  *)
(* (observabilityMiddleware, WithMetrics).                                 *)
THEOREM LinesAgree ==
  Spec => []LineAgreesWithLabel
<1>1. RInv => LineAgreesWithLabel
  BY DEF RInv, Recorded, LineAgreesWithLabel
<1> QED BY <1>1, RecordsInvariant, PTL

(* The reqlog file differs from what the client received only after a late *)
(* panic (reqlog.Middleware outside of Recoverer).                         *)
THEOREM FileTells ==
  Spec => []FileTellsStatus
<1>1. RInv => FileTellsStatus
  <2> SUFFICES ASSUME RInv, NEW r \in Requests, req[r].pc = "done", r \in channel \cup file,
                      ~req[r].hint, req[r].logged # req[r].wire
               PROVE  LateError(req[r])
    BY DEF FileTellsStatus, LateError
  <2>1. Recorded(req[r], counted[r], line[r]) /\ req[r].panic # "abort"
    BY DEF RInv, Written
  <2> QED BY <2>1 DEF Recorded
<1> QED BY <1>1, RecordsInvariant, PTL

(* Only a request that was aborted ends without its line in the reqlog.    *)
THEOREM AbortsOnly ==
  Spec => []OnlyAbortsUnlogged
<1>1. RInv => OnlyAbortsUnlogged
  BY DEF RInv, Written, OnlyAbortsUnlogged
<1> QED BY <1>1, RecordsInvariant, PTL

=============================================================================
