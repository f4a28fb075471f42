----------------------- MODULE BucketConfig_proofs -----------------------
(***************************************************************************)
(* Theorems about BucketConfig, for any number of requests, any of the     *)
(* four subresources and any configurations.                               *)
(***************************************************************************)
EXTENDS BucketConfig, TLAPS

(* One request and how often GCS executed its call. *)
RequestInv(q, times) ==
  /\ times \in {0, 1}
  /\ q.pc = "idle" => q = Idle /\ times = 0
  /\ dryRun => ~q.out /\ q.pc # "call"
  /\ q.out => /\ times = 0 /\ q.reply = "none" /\ q.sub \in Subs
              /\ q.pc = "call" \/ (q.pc = "done" /\ q.answer = "InternalError")
  /\ q.pc = "call" => q.sub \in Subs /\ q.answer = "none"
  /\ q.reply = "ok" => times = 1
  /\ times = 0 => q.seen = Nothing
  /\ q.pc # "idle" /\ q.answer # "rejected" =>
       \/ q.op = "PUT" /\ q.patch \in {Keep, Meant(q)}
       \/ q.op = "DELETE" /\ q.patch = Nothing
       \/ q.op = "GET" /\ q.patch = Keep

BInv == TypeOK /\ \A r \in Requests : RequestInv(req[r], applied[r])

(* What the requests are to the registers. *)
operations == [r \in Requests |-> OperationOf(req[r], applied[r])]

-----------------------------------------------------------------------------
(* One request moves: its goroutine, its call, or GCS executing it.        *)
Moves(r, q, times) ==
  /\ req' = [req EXCEPT ![r] = q] /\ applied' = [applied EXCEPT ![r] = times]
  /\ dryRun' = dryRun

LEMMA OneMoves ==
  ASSUME BInv, NEW r \in Requests, NEW q \in ReqType, NEW times \in Nat, Moves(r, q, times),
         config' \in [Subs -> Configs], RequestInv(q, times)
  PROVE  BInv' /\ operations' = [operations EXCEPT ![r] = OperationOf(q, times)]
<1>1. /\ req' = [req EXCEPT ![r] = q] /\ applied' = [applied EXCEPT ![r] = times]
      /\ req \in [Requests -> ReqType] /\ applied \in [Requests -> Nat] /\ dryRun' = dryRun
      /\ dryRun \in BOOLEAN
  BY DEF BInv, TypeOK, Moves
<1>2. /\ \A x \in Requests : req'[x] = IF x = r THEN q ELSE req[x]
      /\ \A x \in Requests : applied'[x] = IF x = r THEN times ELSE applied[x]
      /\ req' \in [Requests -> ReqType] /\ applied' \in [Requests -> Nat]
  BY <1>1
<1>3. TypeOK'
  BY <1>1, <1>2 DEF TypeOK
<1>4. \A x \in Requests : RequestInv(req[x], applied[x])'
  <2> SUFFICES ASSUME NEW x \in Requests PROVE RequestInv(req[x], applied[x])'
    OBVIOUS
  <2>1. CASE x = r
    BY <1>1, <1>2, <2>1 DEF RequestInv
  <2>2. CASE x # r
    BY <1>1, <1>2, <2>2 DEF BInv, RequestInv
  <2> QED BY <2>1, <2>2
<1>5. \A x \in Requests : OperationOf(req[x], applied[x])'
                            = IF x = r THEN OperationOf(q, times)
                              ELSE OperationOf(req[x], applied[x])
  BY <1>1, <1>2 DEF OperationOf, Promises
<1>6. operations' = [operations EXCEPT ![r] = OperationOf(q, times)]
  <2>1. operations' = [x \in Requests |-> OperationOf(req[x], applied[x])']
    BY DEF operations
  <2> QED BY <1>5, <2>1 DEF operations
<1> QED BY <1>3, <1>4, <1>6 DEF BInv

(* What BInv says of one request. *)
LEMMA OneRequest ==
  ASSUME BInv, NEW r \in Requests
  PROVE  /\ req[r] \in ReqType /\ applied[r] \in Nat /\ RequestInv(req[r], applied[r])
         /\ operations[r] = OperationOf(req[r], applied[r])
         /\ operations = [operations EXCEPT ![r] = operations[r]]
         /\ config \in [Subs -> Configs]
BY DEF BInv, TypeOK, operations

(* What a request is to its register, by what became of it.                *)
LEMMA OperationCases ==
  ASSUME NEW q \in ReqType, NEW times \in Nat
  PROVE  /\ ~Promises(q) => OperationOf(q, times) = Unmade
         /\ Promises(q) => OperationOf(q, times) =
              [phase |-> PhaseOf(q), kind |-> q.op, sub |-> q.sub, want |-> Meant(q),
               done |-> times > 0, got |-> IF q.op = "GET" THEN q.seen ELSE Nothing]
BY DEF OperationOf

(* A move that its register does not notice. *)
LEMMA Unnoticed ==
  ASSUME BInv, NEW r \in Requests, NEW q \in ReqType, NEW times \in Nat, Moves(r, q, times),
         config' = config, RequestInv(q, times),
         OperationOf(q, times) = OperationOf(req[r], applied[r])
  PROVE  BInv' /\ UNCHANGED Registers!cvars
<1>1. BInv' /\ operations' = operations
  BY OneMoves, OneRequest
<1> QED BY <1>1 DEF Registers!cvars, operations

LEMMA GCSKeepsMoves ==
  ASSUME BInv, GCSKeeps, NEW r \in Requests, NEW q, req' = [req EXCEPT ![r] = q]
  PROVE  Moves(r, q, applied[r]) /\ config' = config
<1>1. applied' = applied /\ dryRun' = dryRun /\ config' = config
  BY DEF GCSKeeps
<1>2. applied = [applied EXCEPT ![r] = applied[r]]
  BY DEF BInv, TypeOK
<1> QED BY <1>1, <1>2 DEF Moves

-----------------------------------------------------------------------------
(* A handler without a call. *)
LEMMA RejectKeeps ==
  ASSUME BInv, NEW r \in Requests, req[r].pc = "idle", Answered(r, "rejected"), GCSKeeps
  PROVE  BInv' /\ UNCHANGED Registers!cvars
<1> DEFINE q == [req[r] EXCEPT !.pc = "done", !.answer = "rejected"]
<1>1. /\ req[r] = Idle /\ applied[r] = 0 /\ req[r] \in ReqType /\ applied[r] \in Nat
      /\ RequestInv(req[r], applied[r])
  BY OneRequest DEF RequestInv
<1>2. /\ q \in ReqType /\ q.pc = "done" /\ q.answer = "rejected" /\ ~q.out
      /\ q.reply = "none" /\ q.seen = Nothing
  <2>1. /\ q \in ReqType /\ q.pc = "done" /\ q.answer = "rejected" /\ q.out = req[r].out
        /\ q.reply = req[r].reply /\ q.seen = req[r].seen
    BY <1>1 DEF ReqType
  <2>2. ~req[r].out /\ req[r].reply = "none" /\ req[r].seen = Nothing
    BY <1>1 DEF Idle
  <2> QED BY <2>1, <2>2
<1>3. req' = [req EXCEPT ![r] = q]
  BY DEF Answered, BInv, TypeOK
<1> HIDE DEF q
<1>4. Moves(r, q, applied[r]) /\ config' = config
  BY <1>3, GCSKeepsMoves
<1>5. RequestInv(q, applied[r])
  BY <1>1, <1>2 DEF RequestInv
<1>6. ~Promises(q) /\ ~Promises(req[r])
  BY <1>1, <1>2 DEF Promises, Idle
<1> QED BY <1>1, <1>2, <1>4, <1>5, <1>6, OperationCases, Unnoticed

(* Everything before the SDK call: an operation opens, if it is one.       *)
LEMMA CallKeeps ==
  ASSUME BInv, NEW r \in Requests, req[r].pc = "idle",
         NEW op \in {"PUT", "GET", "DELETE"}, NEW sub \in Subs,
         NEW doc \in Values \cup {Empty, Blank, Unsupported}, NEW patch \in Configs \cup {Keep},
         Call(r, op, sub, doc, patch), GCSKeeps,
         op = "PUT" => patch \in {Keep, IF doc \in Values THEN doc ELSE Nothing},
         op = "DELETE" => patch = Nothing, op = "GET" => patch = Keep
  PROVE  BInv' /\ [Registers!CNext]_(Registers!cvars)
<1> DEFINE stage == IF dryRun THEN "done" ELSE "call"
           answer == IF ~dryRun THEN "none"
                     ELSE IF op = "GET" THEN GetAnswer(sub, Nothing) ELSE "ok"
           q == [pc |-> stage, op |-> op, sub |-> sub, doc |-> doc, patch |-> patch,
                 out |-> ~dryRun, reply |-> "none", seen |-> Nothing, answer |-> answer]
<1>1. /\ req[r] = Idle /\ applied[r] = 0 /\ req[r] \in ReqType /\ dryRun \in BOOLEAN
      /\ RequestInv(req[r], applied[r])
  BY OneRequest DEF RequestInv, BInv, TypeOK
<1>2. req' = [req EXCEPT ![r] = q]
  BY DEF Call
<1>3. /\ stage \in {"done", "call"} /\ (stage = "done" <=> dryRun)
      /\ answer \in {"none", "ok", "NoSuchConfiguration"} /\ (answer = "none" <=> ~dryRun)
  BY <1>1 DEF GetAnswer
<1> HIDE DEF stage, answer
<1>4. q \in ReqType
  BY <1>3 DEF ReqType, Configs
<1>5. /\ q.pc = stage /\ q.op = op /\ q.sub = sub /\ q.doc = doc /\ q.patch = patch
      /\ (q.out <=> ~dryRun) /\ q.reply = "none" /\ q.seen = Nothing /\ q.answer = answer
  OBVIOUS
<1> HIDE DEF q
<1>6. Moves(r, q, applied[r]) /\ config' = config
  BY <1>2, GCSKeepsMoves
<1>7. op = "PUT" => patch \in {Keep, Meant(q)}
  BY <1>5 DEF Meant
<1>8. RequestInv(q, applied[r])
  <2>1. \/ q.op = "PUT" /\ q.patch \in {Keep, Meant(q)}
        \/ q.op = "DELETE" /\ q.patch = Nothing
        \/ q.op = "GET" /\ q.patch = Keep
    BY <1>5, <1>7
  <2>2. CASE dryRun
    <3>1. ~q.out /\ q.pc = "done" /\ q.reply = "none" /\ q.seen = Nothing
      BY <1>3, <1>5, <2>2
    <3> QED BY <1>1, <2>1, <3>1 DEF RequestInv
  <2>3. CASE ~dryRun
    <3>1. q.pc = "call" /\ q.answer = "none" /\ q.sub \in Subs /\ q.reply = "none"
          /\ q.seen = Nothing
      BY <1>3, <1>5, <2>3
    <3> QED BY <1>1, <2>1, <2>3, <3>1 DEF RequestInv
  <2> QED BY <2>2, <2>3
<1>9. OperationOf(req[r], applied[r]) = Unmade
  BY <1>1 DEF OperationOf, Promises, Idle
<1>10. CASE ~Promises(q)
  <2>1. OperationOf(q, applied[r]) = Unmade
    BY <1>10 DEF OperationOf
  <2> QED BY <1>1, <1>4, <1>6, <1>8, <1>9, <2>1, Unnoticed
<1>11. CASE Promises(q)
  <2> DEFINE o == [phase |-> "open", kind |-> op, sub |-> sub, want |-> Meant(q),
                   done |-> FALSE, got |-> Nothing]
  <2>1. OperationOf(q, applied[r]) = o
    <3> DEFINE done == applied[r] > 0
               got == IF q.op = "GET" THEN q.seen ELSE Nothing
    <3>1. PhaseOf(q) = "open" /\ done = FALSE /\ got = Nothing
      BY <1>1, <1>3, <1>5, <1>11 DEF PhaseOf, Promises
    <3>2. OperationOf(q, applied[r]) = [phase |-> PhaseOf(q), kind |-> q.op, sub |-> q.sub,
                                        want |-> Meant(q), done |-> done, got |-> got]
      BY <1>11 DEF OperationOf
    <3> HIDE DEF done, got
    <3> QED BY <1>5, <3>1, <3>2
  <2>2. BInv' /\ operations' = [operations EXCEPT ![r] = o] /\ config' = config
    BY <1>1, <1>4, <1>6, <1>8, <2>1, OneMoves, OneRequest
  <2>3. operations[r].phase = "idle" /\ operations'[r] = o
    <3>1. operations[r].phase = "idle"
      BY <1>9, OneRequest DEF Unmade
    <3>2. r \in DOMAIN operations
      BY DEF operations
    <3> HIDE DEF o
    <3> QED BY <2>2, <3>1, <3>2
  <2>4. Meant(q) \in Configs /\ (op # "PUT" => Meant(q) = Nothing)
    BY <1>5 DEF Meant, Configs
  <2>5. o \in Registers!Made({"PUT"}, Configs) \cup Registers!Made({"GET", "DELETE"}, {Nothing})
    BY <2>4 DEF Registers!Made
  <2> HIDE DEF o
  <2>6. Registers!Open(r)
    BY <2>2, <2>3, <2>5 DEF Registers!Open, operations
  <2> QED BY <2>2, <2>6 DEF Registers!CNext
<1> QED BY <1>10, <1>11

(* The records that an operation consists of, written out.                 *)
LEMMA OpenOperation ==
  ASSUME NEW q \in ReqType, NEW times \in {0, 1}, Promises(q)
  PROVE  OperationOf(q, times) =
           [phase |-> PhaseOf(q), kind |-> q.op, sub |-> q.sub, want |-> Meant(q),
            done |-> times = 1, got |-> IF q.op = "GET" THEN q.seen ELSE Nothing]
<1>1. (times > 0) = (times = 1)
  OBVIOUS
<1> QED BY <1>1 DEF OperationOf

(* The handler answers: a success only after GCS has executed the call.    *)
LEMMA AnswerKeeps ==
  ASSUME BInv, NEW r \in Requests, req[r].pc = "call",
         NEW answer \in {"ok", "NoSuchConfiguration", "InternalError"},
         Answered(r, answer), GCSKeeps, answer # "InternalError" => applied[r] = 1
  PROVE  BInv' /\ [Registers!CNext]_(Registers!cvars)
<1> DEFINE q == [req[r] EXCEPT !.pc = "done", !.answer = answer]
           p == req[r]
           times == applied[r]
<1>1. p \in ReqType /\ times \in {0, 1} /\ times \in Nat /\ RequestInv(p, times)
  BY OneRequest DEF RequestInv
<1>2. /\ q \in ReqType /\ q.pc = "done" /\ q.answer = answer /\ q.op = p.op /\ q.sub = p.sub
      /\ q.doc = p.doc /\ q.patch = p.patch /\ q.out = p.out /\ q.reply = p.reply
      /\ q.seen = p.seen
  BY <1>1 DEF ReqType
<1>3. req' = [req EXCEPT ![r] = q]
  BY DEF Answered, BInv, TypeOK
<1> HIDE DEF q
<1>4. Moves(r, q, times) /\ config' = config
  BY <1>3, GCSKeepsMoves
<1>5. Meant(q) = Meant(p)
  BY <1>2 DEF Meant
<1>6. RequestInv(q, times)
  BY <1>1, <1>2, <1>5 DEF RequestInv
<1>7. (Promises(q) <=> Promises(p)) /\ p.answer = "none"
  BY <1>1, <1>2 DEF Promises, RequestInv
<1>8. CASE ~Promises(q)
  BY <1>1, <1>2, <1>4, <1>6, <1>7, <1>8, OperationCases, Unnoticed
<1>9. CASE Promises(q)
  <2> DEFINE ended == IF answer = "InternalError" THEN "error" ELSE "ok"
             o == operations[r]
             n == OperationOf(q, times)
  <2>1. o = [phase |-> "open", kind |-> p.op, sub |-> p.sub, want |-> Meant(p),
             done |-> times = 1, got |-> IF p.op = "GET" THEN p.seen ELSE Nothing]
    <3>1. PhaseOf(p) = "open"
      BY DEF PhaseOf
    <3> QED BY <1>1, <1>7, <1>9, <3>1, OneRequest, OpenOperation
  <2>2. n = [phase |-> ended, kind |-> p.op, sub |-> p.sub, want |-> Meant(p),
             done |-> times = 1, got |-> IF p.op = "GET" THEN p.seen ELSE Nothing]
    <3>1. PhaseOf(q) = ended
      BY <1>2 DEF PhaseOf
    <3> HIDE DEF ended
    <3> QED BY <1>1, <1>2, <1>5, <1>9, <3>1, OpenOperation
  <2>3. n = [o EXCEPT !.phase = ended] /\ o.phase = "open" /\ o.done = (times = 1)
    <3> DEFINE want == Meant(p)
               done == (times = 1)
               got == IF p.op = "GET" THEN p.seen ELSE Nothing
    <3>1. /\ o = [phase |-> "open", kind |-> p.op, sub |-> p.sub, want |-> want,
                  done |-> done, got |-> got]
          /\ n = [phase |-> ended, kind |-> p.op, sub |-> p.sub, want |-> want,
                  done |-> done, got |-> got]
      BY <2>1, <2>2
    <3> HIDE DEF o, n, ended, want, done, got
    <3>2. n = [o EXCEPT !.phase = ended] /\ o.phase = "open" /\ o.done = done
      BY <3>1
    <3> QED BY <3>2 DEF done
  <2>4. BInv' /\ operations' = [operations EXCEPT ![r] = n] /\ config' = config
    BY <1>1, <1>2, <1>4, <1>6, OneMoves, OneRequest
  <2>5. ended = "error" \/ (ended = "ok" /\ o.done)
    BY <2>3
  <2> HIDE DEF n, ended
  <2>6. operations' = [operations EXCEPT ![r].phase = ended]
    BY <2>3, <2>4
  <2>7. Registers!Answer(r)
    BY <2>3, <2>4, <2>5, <2>6 DEF Registers!Answer, operations
  <2> QED BY <2>4, <2>7 DEF Registers!CNext
<1> QED BY <1>8, <1>9

LEMMA ReturnKeeps ==
  ASSUME BInv, NEW r \in Requests, Return(r)
  PROVE  BInv' /\ [Registers!CNext]_(Registers!cvars)
<1>1. /\ req[r].pc = "call" /\ req[r].reply \in {"ok", "fail"} /\ GCSKeeps
      /\ req[r].reply = "ok" => applied[r] = 1
  BY OneRequest DEF Return, ReqType, RequestInv
<1>2. CASE req[r].reply = "fail"
  BY <1>1, <1>2, AnswerKeeps DEF Return
<1>3. CASE req[r].reply = "ok"
  <2> DEFINE answer == IF req[r].op = "GET" THEN GetAnswer(req[r].sub, req[r].seen) ELSE "ok"
  <2>1. answer \in {"ok", "NoSuchConfiguration"} /\ Answered(r, answer)
    BY <1>3 DEF Return, GetAnswer
  <2> HIDE DEF answer
  <2> QED BY <1>1, <1>3, <2>1, AnswerKeeps
<1> QED BY <1>1, <1>2, <1>3

LEMMA TimeoutKeeps ==
  ASSUME BInv, NEW r \in Requests, Timeout(r)
  PROVE  BInv' /\ [Registers!CNext]_(Registers!cvars)
BY AnswerKeeps DEF Timeout

(* A call that is refused or lost: only its handler will notice.           *)
LEMMA LostCall ==
  ASSUME BInv, NEW r \in Requests, req[r].out, NEW reply \in {"none", "fail"},
         req' = [req EXCEPT ![r] = [req[r] EXCEPT !.out = FALSE, !.reply = reply]], GCSKeeps
  PROVE  BInv' /\ UNCHANGED Registers!cvars
<1> DEFINE q == [req[r] EXCEPT !.out = FALSE, !.reply = reply]
           p == req[r]
           times == applied[r]
<1>1. p \in ReqType /\ times \in Nat /\ RequestInv(p, times)
  BY OneRequest
<1>2. /\ q \in ReqType /\ q.pc = p.pc /\ q.answer = p.answer /\ q.op = p.op /\ q.sub = p.sub
      /\ q.doc = p.doc /\ q.patch = p.patch /\ ~q.out /\ q.reply = reply /\ q.seen = p.seen
  BY <1>1 DEF ReqType
<1>3. req' = [req EXCEPT ![r] = q]
  OBVIOUS
<1> HIDE DEF q
<1>4. Moves(r, q, times) /\ config' = config
  BY <1>3, GCSKeepsMoves
<1>5. Meant(q) = Meant(p)
  BY <1>2 DEF Meant
<1>6. p.pc # "idle"
  BY <1>1 DEF RequestInv, Idle
<1>7. RequestInv(q, times)
  BY <1>1, <1>2, <1>5, <1>6 DEF RequestInv
<1>8. OperationOf(q, times) = OperationOf(p, times)
  BY <1>2, <1>5 DEF OperationOf, Promises, PhaseOf
<1> QED BY <1>1, <1>2, <1>4, <1>7, <1>8, Unnoticed

LEMMA RefuseKeeps ==
  ASSUME BInv, NEW r \in Requests, Refuse(r)
  PROVE  BInv' /\ UNCHANGED Registers!cvars
<1>1. req' = [req EXCEPT ![r] = [req[r] EXCEPT !.out = FALSE, !.reply = "fail"]]
      /\ req[r].out /\ GCSKeeps
  BY DEF Refuse, BInv, TypeOK
<1> QED BY <1>1, LostCall

LEMMA DropKeeps ==
  ASSUME BInv, NEW r \in Requests, Drop(r)
  PROVE  BInv' /\ UNCHANGED Registers!cvars
<1>1. req[r].out /\ req[r].reply = "none" /\ req[r] \in ReqType /\ GCSKeeps
  BY OneRequest DEF Drop, RequestInv
<1>2. [req[r] EXCEPT !.out = FALSE] = [req[r] EXCEPT !.out = FALSE, !.reply = "none"]
  BY <1>1 DEF ReqType
<1>3. req' = [req EXCEPT ![r] = [req[r] EXCEPT !.out = FALSE, !.reply = "none"]]
  BY <1>2 DEF Drop, BInv, TypeOK
<1> QED BY <1>1, <1>3, LostCall

(* GCS executes a call: the one moment at which it meets its register.     *)
LEMMA ServeKeeps ==
  ASSUME BInv, NEW r \in Requests, Serve(r)
  PROVE  BInv' /\ [Registers!CNext]_(Registers!cvars)
<1> DEFINE p == req[r]
           value == config[p.sub]
           seen == IF p.op = "GET" THEN value ELSE p.seen
<1>1. PICK reply \in {"none", "ok", "fail"} :
        /\ reply # "none" <=> p.pc = "call"
        /\ req' = [req EXCEPT ![r].out = FALSE, ![r].reply = reply, ![r].seen = seen]
  BY DEF Serve
<1> DEFINE q == [p EXCEPT !.out = FALSE, !.reply = reply, !.seen = seen]
<1>2. /\ p \in ReqType /\ p.out /\ applied[r] = 0 /\ p.sub \in Subs /\ ~dryRun
      /\ p.pc = "call" \/ (p.pc = "done" /\ p.answer = "InternalError")
      /\ p.answer # "rejected" /\ p.pc # "idle" /\ p.seen = Nothing
      /\ RequestInv(p, 0) /\ config \in [Subs -> Configs] /\ p.reply = "none"
  BY OneRequest DEF Serve, RequestInv
<1>3. /\ \/ p.op = "PUT" /\ p.patch \in {Keep, Meant(p)}
         \/ p.op = "DELETE" /\ p.patch = Nothing
         \/ p.op = "GET" /\ p.patch = Keep
      /\ Keep \notin Configs /\ Meant(p) \in Configs
      /\ p.op # "PUT" => Meant(p) = Nothing
  <2>1. Keep \notin Configs
    BY ConfigAssumption DEF Configs, Special
  <2>2. Meant(p) \in Configs /\ (p.op # "PUT" => Meant(p) = Nothing)
    BY DEF Meant, Configs
  <2> QED BY <1>2, <2>1, <2>2 DEF RequestInv
<1>4. value \in Configs /\ seen \in Configs
  BY <1>2 DEF ReqType
<1>5. req' = [req EXCEPT ![r] = q]
  BY <1>1 DEF BInv, TypeOK
<1> HIDE DEF seen
<1>6. /\ q \in ReqType /\ q.pc = p.pc /\ q.answer = p.answer /\ q.op = p.op /\ q.sub = p.sub
      /\ q.doc = p.doc /\ q.patch = p.patch /\ ~q.out /\ q.reply = reply /\ q.seen = seen
  BY <1>2, <1>4 DEF ReqType
<1> HIDE DEF q
<1>7. Moves(r, q, 1)
  <2>1. applied' = [applied EXCEPT ![r] = applied[r] + 1] /\ applied[r] + 1 = 1
        /\ dryRun' = dryRun
    BY <1>2 DEF Serve
  <2> QED BY <1>5, <2>1 DEF Moves
<1>8. Meant(q) = Meant(p)
  BY <1>6 DEF Meant
<1>9. RequestInv(q, 1)
  BY <1>2, <1>3, <1>6, <1>8 DEF RequestInv
<1>10. config' = Patched(p.sub, p.patch) /\ config' \in [Subs -> Configs]
  BY <1>2, <1>3 DEF Serve, Patched, ReqType
<1>11. BInv' /\ operations' = [operations EXCEPT ![r] = OperationOf(q, 1)]
  BY <1>6, <1>7, <1>9, <1>10, OneMoves
<1>12. Promises(q) <=> Promises(p)
  BY <1>6 DEF Promises
<1>13. CASE ~Promises(p)
  <2>1. p.patch = Keep
    BY <1>2, <1>13 DEF Promises
  <2>2. config' = config
    BY <1>10, <2>1 DEF Patched
  <2>3. OperationOf(q, 1) = OperationOf(p, applied[r])
    BY <1>12, <1>13 DEF OperationOf
  <2>4. operations' = operations
    BY <1>11, <2>3, OneRequest
  <2> QED BY <1>11, <2>2, <2>4 DEF Registers!cvars, operations
<1>14. CASE Promises(p)
  <2> DEFINE o == operations[r]
             n == OperationOf(q, 1)
             phase == PhaseOf(p)
             want == Meant(p)
             got == IF p.op = "GET" THEN value ELSE Nothing
  <2>1. o = [phase |-> phase, kind |-> p.op, sub |-> p.sub, want |-> want,
             done |-> FALSE, got |-> Nothing]
    <3>1. (applied[r] = 1) = FALSE /\ (IF p.op = "GET" THEN p.seen ELSE Nothing) = Nothing
      BY <1>2
    <3>2. applied[r] \in {0, 1} /\ o = OperationOf(p, applied[r])
      BY <1>2, OneRequest
    <3> QED BY <1>2, <1>14, <3>1, <3>2, OpenOperation
  <2>2. n = [phase |-> phase, kind |-> p.op, sub |-> p.sub, want |-> want,
             done |-> TRUE, got |-> got]
    <3>1. PhaseOf(q) = phase /\ (1 = 1) = TRUE
      BY <1>6 DEF PhaseOf
    <3>2. (IF q.op = "GET" THEN q.seen ELSE Nothing) = got
      BY <1>6 DEF seen
    <3> HIDE DEF phase, got
    <3> QED BY <1>6, <1>8, <1>12, <1>14, <3>1, <3>2, OpenOperation
  <2>3. phase \in {"open", "error"}
    BY <1>2 DEF PhaseOf
  <2> HIDE DEF o, n, phase, want, got
  <2>4. /\ o.phase \in {"open", "error"} /\ o.done = FALSE /\ o.kind = p.op /\ o.sub = p.sub
        /\ o.want = want
        /\ n = [o EXCEPT !.done = TRUE, !.got = got]
        /\ got = Nothing => n = [o EXCEPT !.done = TRUE]
    <3>1. /\ o.phase \in {"open", "error"} /\ o.done = FALSE /\ o.kind = p.op /\ o.sub = p.sub
          /\ o.want = want
      BY <2>1, <2>3
    <3>2. /\ [o EXCEPT !.done = TRUE, !.got = got] =
                [phase |-> phase, kind |-> p.op, sub |-> p.sub, want |-> want,
                 done |-> TRUE, got |-> got]
          /\ [o EXCEPT !.done = TRUE] =
                [phase |-> phase, kind |-> p.op, sub |-> p.sub, want |-> want,
                 done |-> TRUE, got |-> Nothing]
      <4> DEFINE kind == p.op
                 sub == p.sub
                 no == FALSE
                 yes == TRUE
      <4>1. o = [phase |-> phase, kind |-> kind, sub |-> sub, want |-> want,
                 done |-> no, got |-> Nothing]
        BY <2>1
      <4> HIDE DEF kind, sub, no, yes
      <4> DEFINE met == [phase |-> phase, kind |-> kind, sub |-> sub, want |-> want,
                         done |-> yes, got |-> Nothing]
      <4>2. [o EXCEPT !.done = yes] = met
        BY ONLY <4>1
      <4>3. [met EXCEPT !.got = got] =
              [phase |-> phase, kind |-> kind, sub |-> sub, want |-> want,
               done |-> yes, got |-> got]
        OBVIOUS
      <4>4. [o EXCEPT !.done = yes, !.got = got] = [[o EXCEPT !.done = yes] EXCEPT !.got = got]
        OBVIOUS
      <4> QED BY <4>2, <4>3, <4>4, Zenon DEF kind, sub, yes
    <3>3. [o EXCEPT !.done = TRUE, !.got = got] = n
      BY <2>2, <3>2, Zenon
    <3>4. got = Nothing => [o EXCEPT !.done = TRUE] = n
      BY <2>2, <3>2, Zenon
    <3> QED BY <3>1, <3>3, <3>4, Zenon
  <2>5. operations' = [operations EXCEPT ![r] = n]
    BY <1>11 DEF n
  <2>6. Registers!Meets(r)
    BY <2>4 DEF Registers!Meets, operations, o
  <2>7. CASE p.op = "GET"
    <3>1. config' = config
      BY <1>3, <1>10, <2>7 DEF Patched
    <3>2. got = config[p.sub]
      BY <2>7 DEF got
    <3>3. operations' = [operations EXCEPT ![r].done = TRUE, ![r].got = config[o.sub]]
      BY <2>4, <2>5, <3>2 DEF o, operations
    <3>4. Registers!Read(r)
      BY <2>4, <2>6, <2>7, <3>1, <3>3 DEF Registers!Read, o, operations
    <3> QED BY <1>11, <3>4 DEF Registers!CNext
  <2>8. CASE p.op # "GET"
    <3>1. p.patch = want /\ p.patch # Keep
      BY <1>3, <1>14, <2>8 DEF want, Promises
    <3>2. config' = [config EXCEPT ![p.sub] = want]
      BY <1>10, <3>1 DEF Patched
    <3>3. operations' = [operations EXCEPT ![r].done = TRUE]
      BY <2>4, <2>5, <2>8 DEF got, o, operations
    <3>4. Registers!Write(r)
      BY <2>4, <2>6, <2>8, <3>2, <3>3 DEF Registers!Write, o, operations
    <3> QED BY <1>11, <3>4 DEF Registers!CNext
  <2> QED BY <2>7, <2>8
<1> QED BY <1>13, <1>14

-----------------------------------------------------------------------------
(* What the four translations make of a document: an error, the patch that *)
(* the client means, or none.                                              *)
LEMMA Translations ==
  ASSUME NEW sub \in {"lifecycle", "cors", "logging", "website"}, NEW doc
  PROVE  Translate(sub, doc) \in {Refused, Keep, IF doc \in Values THEN doc ELSE Nothing}
<1>1. CASE sub = "lifecycle"
  BY <1>1 DEF Translate, TranslateS3ToGCSLifecycle
<1>2. CASE sub = "cors"
  BY <1>2 DEF Translate, TranslateS3ToGCSCors
<1>3. CASE sub = "logging"
  BY <1>3 DEF Translate, TranslateS3ToGCSLogging
<1>4. CASE sub = "website"
  BY <1>4 DEF Translate, TranslateS3ToGCSWebsite
<1> QED BY <1>1, <1>2, <1>3, <1>4

LEMMA PutKeeps ==
  ASSUME BInv, NEW r \in Requests, NEW sub \in Subs, NEW doc \in Documents(sub), Put(r, sub, doc)
  PROVE  BInv' /\ [Registers!CNext]_(Registers!cvars)
<1> DEFINE patch == Translate(sub, doc)
           meant == IF doc \in Values THEN doc ELSE Nothing
<1>1. req[r].pc = "idle" /\ GCSKeeps
  BY DEF Put
<1>2. CASE Answered(r, "rejected")
  BY <1>1, <1>2, RejectKeeps
<1>3. CASE patch # Refused /\ Call(r, "PUT", sub, doc, patch)
  <2>1. patch \in {Keep, meant} /\ meant \in Configs
    <3>1. sub \in {"lifecycle", "cors", "logging", "website"}
      BY SubsAssumption
    <3> QED BY <1>3, <3>1, Translations DEF Configs
  <2>2. doc \in Values \cup {Empty, Blank, Unsupported}
    BY DEF Documents
  <2>3. Call(r, "PUT", sub, doc, patch)
    BY <1>3
  <2> HIDE DEF patch
  <2> QED BY <1>1, <2>1, <2>2, <2>3, CallKeeps
<1> QED BY <1>2, <1>3 DEF Put

LEMMA HandlersKeep ==
  ASSUME BInv, NEW r \in Requests, NEW sub \in Subs, Handlers(r, sub)
  PROVE  BInv' /\ [Registers!CNext]_(Registers!cvars)
<1>1. CASE Get(r, sub)
  BY <1>1, CallKeeps DEF Get
<1>2. CASE Delete(r, sub)
  BY <1>2, CallKeeps DEF Delete, Configs
<1> QED BY <1>1, <1>2, PutKeeps DEF Handlers

LEMMA AdministerKeeps ==
  ASSUME BInv, NEW sub \in Subs, NEW value \in Configs, Administer(sub, value)
  PROVE  BInv' /\ [Registers!CNext]_(Registers!cvars)
<1>1. config' \in [Subs -> Configs] /\ UNCHANGED <<dryRun, req, applied>>
  BY DEF Administer, BInv, TypeOK
<1>2. BInv'
  BY <1>1 DEF BInv, TypeOK, RequestInv
<1>3. operations' = operations
  BY <1>1 DEF operations, OperationOf, Promises
<1>4. Registers!Administer
  BY <1>1, <1>3 DEF Registers!Administer, operations
<1> QED BY <1>2, <1>4 DEF Registers!CNext

LEMMA NextKeeps ==
  BInv /\ [Next]_vars => BInv' /\ [Registers!CNext]_(Registers!cvars)
<1> SUFFICES ASSUME BInv, [Next]_vars
             PROVE  BInv' /\ [Registers!CNext]_(Registers!cvars)
  OBVIOUS
<1>1. ASSUME NEW r \in Requests, HandlerStep(r)
      PROVE  BInv' /\ [Registers!CNext]_(Registers!cvars)
  <2>1. ASSUME NEW sub \in Subs, Handlers(r, sub)
        PROVE  BInv' /\ [Registers!CNext]_(Registers!cvars)
    BY <2>1, HandlersKeep
  <2>2. CASE Lifecycle(r) \/ CORS(r) \/ Logging(r) \/ Website(r)
    BY <2>1, <2>2 DEF Lifecycle, CORS, Logging, Website
  <2>3. CASE Reject(r)
    BY <2>3, RejectKeeps DEF Reject
  <2> QED BY <1>1, <2>2, <2>3, ReturnKeeps, TimeoutKeeps DEF HandlerStep
<1>2. ASSUME GCSStep PROVE BInv' /\ [Registers!CNext]_(Registers!cvars)
  BY <1>2, ServeKeeps, RefuseKeeps, DropKeeps, AdministerKeeps DEF GCSStep
<1>3. CASE UNCHANGED vars
  <2>1. UNCHANGED <<dryRun, config, req, applied>>
    BY <1>3 DEF vars
  <2>2. BInv'
    BY <2>1 DEF BInv, TypeOK, RequestInv
  <2>3. operations' = operations
    BY <2>1 DEF operations, OperationOf, Promises
  <2> QED BY <2>1, <2>2, <2>3 DEF Registers!cvars, operations
<1> QED BY <1>1, <1>2, <1>3 DEF Next

LEMMA InitKeeps == Init => BInv /\ Registers!CInit
<1> SUFFICES ASSUME Init PROVE BInv /\ Registers!CInit
  OBVIOUS
<1>1. Idle \in ReqType
  BY DEF Idle, ReqType, Configs
<1>2. \A r \in Requests : req[r] = Idle /\ applied[r] = 0
  BY DEF Init
<1>3. RequestInv(Idle, 0)
  BY DEF RequestInv, Idle
<1>4. BInv
  BY <1>1, <1>2, <1>3 DEF Init, BInv, TypeOK
<1>5. OperationOf(Idle, 0) = Unmade
  BY DEF OperationOf, Promises, Idle
<1>6. operations = [r \in Requests |-> Registers!Fresh]
  BY <1>2, <1>5 DEF operations, Unmade, Registers!Fresh
<1> QED BY <1>4, <1>6 DEF Init, Registers!CInit, operations

(* The inductive invariant: a call is executed at most once, only while it *)
(* is out, and an answer of success comes after it.                        *)
THEOREM BucketInvariant == Spec => []BInv
BY InitKeeps, NextKeeps, PTL DEF Spec

(* Every variable keeps its type (the twelve handlers).                    *)
THEOREM BucketTypes == Spec => []TypeOK
<1>1. BInv => TypeOK
  BY DEF BInv
<1> QED BY <1>1, BucketInvariant, PTL

(* However many requests, whatever GCS and the network do with their calls *)
(* and when: the handlers implement one atomic register per subresource.   *)
THEOREM HandlersImplementRegisters == Spec => ImplementsRegisters
BY InitKeeps, NextKeeps, BucketInvariant, PTL DEF Spec, ImplementsRegisters, Registers!CSpec
=============================================================================
