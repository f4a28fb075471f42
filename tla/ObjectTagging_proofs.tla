----------------------- MODULE ObjectTagging_proofs -----------------------
(***************************************************************************)
(* Theorems about ObjectTagging, for every set of keys, values and         *)
(* requests, and any number of generations, retries and late attempts.     *)
(***************************************************************************)
EXTENDS ObjectTagging, TLAPS

LEMMA NoTagsIsTagSet == NoTags \in TagSets
<1>1. NoTags \in [{} -> Values]
  BY DEF NoTags
<1> QED BY <1>1 DEF TagSets

LEMMA TagSetFacts ==
  ASSUME NEW t \in TagSets
  PROVE  /\ t = [k \in DOMAIN t |-> t[k]] /\ DOMAIN t \subseteq Keys
         /\ \A k \in DOMAIN t : t[k] \in Values /\ t[k] # Delete
<1>1. PICK K \in SUBSET Keys : t \in [K -> Values]
  BY DEF TagSets
<1> QED BY <1>1, DeleteAssumption

(* A patch applied to the contexts it was built from yields the wanted     *)
(* tags, all of them and no other.                                         *)
LEMMA PatchIsExact ==
  ASSUME NEW want \in TagSets, NEW existing \in TagSets
  PROVE  Patched(existing, TranslateS3ToGCSContexts(want, existing)) = want
<1> DEFINE patch == TranslateS3ToGCSContexts(want, existing)
           after == {k \in DOMAIN existing \cup DOMAIN patch :
                       k \in DOMAIN patch => patch[k] # Delete}
<1>1. DOMAIN patch = DOMAIN want \cup DOMAIN existing
  BY DEF TranslateS3ToGCSContexts
<1>2. \A k \in DOMAIN patch : patch[k] = IF k \in DOMAIN want THEN want[k] ELSE Delete
  BY DEF TranslateS3ToGCSContexts
<1> HIDE DEF patch
<1>3. after = DOMAIN want
  BY <1>1, <1>2, TagSetFacts
<1>4. CASE DOMAIN patch = {}
  <2>1. Patched(existing, patch) = NoTags
    BY <1>4 DEF Patched
  <2>2. DOMAIN want = {} /\ want = [k \in DOMAIN want |-> want[k]]
    BY <1>1, <1>4, TagSetFacts
  <2>3. want = NoTags
    BY <2>2 DEF NoTags
  <2> QED BY <2>1, <2>3 DEF patch
<1>5. CASE DOMAIN patch # {}
  <2>1. Patched(existing, patch) =
          [k \in after |-> IF k \in DOMAIN patch THEN patch[k] ELSE existing[k]]
    BY <1>5 DEF Patched
  <2> HIDE DEF after
  <2>2. Patched(existing, patch) = [k \in DOMAIN want |-> want[k]]
    BY <1>1, <1>2, <1>3, <2>1
  <2> QED BY <2>2, TagSetFacts DEF patch
<1> QED BY <1>4, <1>5

(* Whatever the patch and the contexts, GCS keeps a tag set. *)
LEMMA PatchedIsTagSet ==
  ASSUME NEW tags \in TagSets, NEW want \in TagSets, NEW existing \in TagSets
  PROVE  Patched(tags, TranslateS3ToGCSContexts(want, existing)) \in TagSets
<1> DEFINE patch == TranslateS3ToGCSContexts(want, existing)
           after == {k \in DOMAIN tags \cup DOMAIN patch :
                       k \in DOMAIN patch => patch[k] # Delete}
<1>1. DOMAIN patch = DOMAIN want \cup DOMAIN existing
      /\ \A k \in DOMAIN patch : patch[k] = IF k \in DOMAIN want THEN want[k] ELSE Delete
  BY DEF TranslateS3ToGCSContexts
<1> HIDE DEF patch
<1>2. after \in SUBSET Keys
  BY <1>1, TagSetFacts
<1>3. [k \in after |-> IF k \in DOMAIN patch THEN patch[k] ELSE tags[k]] \in [after -> Values]
  BY <1>1, TagSetFacts
<1> QED BY <1>2, <1>3, NoTagsIsTagSet DEF Patched, TagSets, patch

-----------------------------------------------------------------------------
(* The inductive invariant. Generations never go back, and within one      *)
(* generation the metageneration never does; an executed update has moved  *)
(* it past the value its request read.                                     *)
Snapshot(q) ==
  /\ q.gen <= obj.gen
  /\ q.gen = obj.gen => q.meta <= obj.meta
  /\ obj.gen = q.gen /\ obj.meta = q.meta => obj.tags = q.seen

Once(q, n) == n > 0 /\ q.gen = obj.gen => n = 1 /\ obj.meta > q.meta

Unsent(q, n) ==
  q.pc \in {"idle", "read"} \/ q.answer \in {"NoSuchKey", "rejected"}
    => n = 0 /\ ~q.cur /\ q.old = 0 /\ q.reply = "none"

Honest(q, n) ==
  /\ q.pc # "done" => q.answer = "none"
  /\ q.reply = "ok" => n > 0
  /\ q.op \in Writes /\ ~dryRun /\ q.answer = "ok" => n > 0

QInv(q, n) == Snapshot(q) /\ Once(q, n) /\ Unsent(q, n) /\ Honest(q, n)

OInv ==
  /\ TypeOK
  /\ obj.gen > 0 /\ obj.meta > 0
  /\ \A r \in Requests : QInv(req[r], applied[r])

LEMMA InitOInv == Init => OInv
<1> SUFFICES ASSUME Init PROVE OInv
  OBVIOUS
<1>1. Idle \in ReqType
  BY NoTagsIsTagSet DEF Idle, ReqType, Writes
<1>2. TypeOK
  BY <1>1, OverwriteAssumption DEF Init, TypeOK
<1>3. obj.gen = 1 /\ obj.meta = 1
  BY DEF Init
<1>4. \A r \in Requests : req[r] = Idle /\ applied[r] = 0
  BY DEF Init
<1>5. /\ Idle.pc = "idle" /\ Idle.gen = 0 /\ Idle.meta = 0 /\ Idle.cur = FALSE
      /\ Idle.old = 0 /\ Idle.reply = "none" /\ Idle.answer = "none"
  BY DEF Idle
<1>6. QInv(Idle, 0)
  BY <1>3, <1>5 DEF QInv, Snapshot, Once, Unsent, Honest
<1> QED BY <1>2, <1>3, <1>4, <1>6 DEF OInv

(* A step of one request that leaves GCS alone. *)
LEMMA HandlerMoves ==
  ASSUME OInv, NEW d \in Requests, NEW q \in ReqType, req' = [req EXCEPT ![d] = q],
         UNCHANGED <<dryRun, obj, applied>>, QInv(q, applied[d])
  PROVE  OInv'
<1>1. TypeOK'
  BY DEF OInv, TypeOK
<1>2. ASSUME NEW r \in Requests PROVE QInv(req[r], applied[r])'
  <2>1. QInv(req[r], applied[r]) /\ req'[r] = IF r = d THEN q ELSE req[r]
    BY DEF OInv, TypeOK
  <2>2. QInv(req'[r], applied[r])
    BY <2>1
  <2> QED BY <2>2 DEF QInv, Snapshot, Once, Unsent, Honest
<1> QED BY <1>1, <1>2 DEF OInv

LEMMA HandlerStepOInv ==
  ASSUME OInv, NEW d \in Requests, HandlerStep(d)
  PROVE  OInv'
<1>0. /\ req[d] \in ReqType /\ QInv(req[d], applied[d]) /\ applied[d] \in Nat
      /\ obj.gen \in Nat /\ obj.meta \in Nat /\ obj.tags \in TagSets
      /\ req \in [Requests -> ReqType]
  BY DEF OInv, TypeOK
<1> USE DEF QInv, Snapshot, Once, Unsent, Honest
<1>1. ASSUME NEW op \in Writes \cup {"GET"}, NEW want \in TagSets, Begin(d, op, want) PROVE OInv'
  <2> DEFINE q == [req[d] EXCEPT !.op = op, !.want = want,
                     !.pc = IF dryRun THEN "done" ELSE "read",
                     !.answer = IF dryRun THEN "ok" ELSE "none"]
  <2>1. q \in ReqType /\ req' = [req EXCEPT ![d] = q] /\ UNCHANGED <<dryRun, obj, applied>>
    BY <1>0, <1>1 DEF Begin, ReqType
  <2>2. /\ req[d].pc = "idle" /\ q.gen = req[d].gen /\ q.meta = req[d].meta
        /\ q.seen = req[d].seen /\ q.cur = req[d].cur /\ q.old = req[d].old
        /\ q.reply = req[d].reply
        /\ q.answer = IF dryRun THEN "ok" ELSE "none"
        /\ q.pc = IF dryRun THEN "done" ELSE "read"
    BY <1>0, <1>1 DEF Begin, ReqType
  <2> HIDE DEF q
  <2>3. QInv(q, applied[d])
    BY <1>0, <2>2
  <2> QED BY <2>1, <2>3, HandlerMoves DEF QInv
<1>2. ASSUME NEW answer \in {"ok", "NoSuchKey", "InternalError", "rejected"}, Answered(d, answer),
             UNCHANGED <<dryRun, obj, applied>>,
             answer \in {"NoSuchKey", "rejected"} => req[d].pc \in {"idle", "read"},
             answer = "ok" => req[d].reply = "ok"
      PROVE  OInv'
  <2> DEFINE q == [req[d] EXCEPT !.pc = "done", !.answer = answer]
  <2>1. q \in ReqType /\ req' = [req EXCEPT ![d] = q]
    BY <1>0, <1>2 DEF Answered, ReqType
  <2>2. /\ q.gen = req[d].gen /\ q.meta = req[d].meta /\ q.seen = req[d].seen
        /\ q.cur = req[d].cur /\ q.old = req[d].old /\ q.reply = req[d].reply
        /\ q.answer = answer /\ q.pc = "done" /\ q.op = req[d].op
    BY <1>0 DEF ReqType
  <2> HIDE DEF q
  <2>3. QInv(q, applied[d])
    BY <1>0, <1>2, <2>2
  <2> QED BY <1>2, <2>1, <2>3, HandlerMoves
<1>3. CASE ReadAttrs(d)
  <2> DEFINE q == [req[d] EXCEPT
                     !.gen = obj.gen, !.meta = obj.meta, !.seen = obj.tags,
                     !.pc = IF req[d].op = "GET" THEN "done" ELSE "update",
                     !.cur = req[d].op # "GET",
                     !.answer = IF req[d].op = "GET" THEN "ok" ELSE "none"]
  <2>1. q \in ReqType /\ req' = [req EXCEPT ![d] = q] /\ UNCHANGED <<dryRun, obj, applied>>
    BY <1>0, <1>3 DEF ReadAttrs, ReqType
  <2>2. /\ req[d].pc = "read" /\ q.gen = obj.gen /\ q.meta = obj.meta /\ q.seen = obj.tags
        /\ q.old = req[d].old /\ q.reply = req[d].reply /\ q.op = req[d].op
        /\ q.answer = IF req[d].op = "GET" THEN "ok" ELSE "none"
        /\ q.pc = IF req[d].op = "GET" THEN "done" ELSE "update"
    BY <1>0, <1>3 DEF ReadAttrs, ReqType
  <2> HIDE DEF q
  <2>3. applied[d] = 0 /\ req[d].reply = "none"
    BY <1>0, <2>2
  <2>4. QInv(q, applied[d])
    BY <1>0, <2>2, <2>3 DEF Writes
  <2> QED BY <2>1, <2>4, HandlerMoves
<1>4. CASE Retry(d)
  <2>1. ASSUME NEW q \in ReqType, req' = [req EXCEPT ![d] = q], req[d].pc = "update",
               q.pc = "update", q.gen = req[d].gen, q.meta = req[d].meta,
               q.seen = req[d].seen, q.reply = req[d].reply, q.answer = req[d].answer,
               q.op = req[d].op
        PROVE  OInv'
    <3>1. QInv(q, applied[d])
      BY <1>0, <2>1
    <3>2. UNCHANGED <<dryRun, obj, applied>>
      BY <1>4 DEF Retry
    <3> QED BY <2>1, <3>1, <3>2, HandlerMoves
  <2>2. CASE req' = [req EXCEPT ![d].cur = TRUE]
    <3> DEFINE q == [req[d] EXCEPT !.cur = TRUE]
    <3>1. q \in ReqType /\ req' = [req EXCEPT ![d] = q]
      BY <1>0, <2>2 DEF ReqType
    <3> QED BY <1>0, <1>4, <2>1, <3>1 DEF Retry, ReqType
  <2>3. CASE req' = [req EXCEPT ![d].old = @ + 1]
    <3> DEFINE q == [req[d] EXCEPT !.old = @ + 1]
    <3>1. q \in ReqType /\ req' = [req EXCEPT ![d] = q]
      BY <1>0, <2>3 DEF ReqType
    <3> QED BY <1>0, <1>4, <2>1, <3>1 DEF Retry, ReqType
  <2> QED BY <1>4, <2>2, <2>3 DEF Retry
<1>5. CASE Timeout(d)
  <2> DEFINE q == [req[d] EXCEPT !.pc = "done", !.answer = "InternalError", !.cur = FALSE,
                     !.old = IF req[d].cur THEN @ + 1 ELSE @]
  <2>1. q \in ReqType /\ req' = [req EXCEPT ![d] = q] /\ UNCHANGED <<dryRun, obj, applied>>
    BY <1>0, <1>5 DEF Timeout, ReqType
  <2>2. /\ req[d].pc = "update" /\ q.gen = req[d].gen /\ q.meta = req[d].meta
        /\ q.seen = req[d].seen /\ q.reply = req[d].reply /\ q.pc = "done"
        /\ q.answer = "InternalError" /\ q.op = req[d].op
    BY <1>0, <1>5 DEF Timeout, ReqType
  <2> HIDE DEF q
  <2>3. QInv(q, applied[d])
    BY <1>0, <2>2
  <2> QED BY <2>1, <2>3, HandlerMoves
<1>6. CASE Finish(d)
  <2>1. req[d].reply = "ok" \/ ~(req[d].reply = "ok")
    OBVIOUS
  <2> QED BY <1>2, <1>6, <2>1 DEF Finish
<1>7. CASE Reject(d)
  BY <1>2, <1>7 DEF Reject
<1>8. CASE ReadFails(d)
  BY <1>2, <1>8 DEF ReadFails
<1>9. \A want \in TagSets : Begin(d, "PUT", want) => OInv'
  BY <1>1 DEF Writes
<1>10. \A op \in {"GET", "DELETE"} : Begin(d, op, NoTags) => OInv'
  BY <1>1, NoTagsIsTagSet DEF Writes
<1> QED BY <1>3, <1>4, <1>5, <1>6, <1>7, <1>8, <1>9, <1>10 DEF HandlerStep

(* GCS executes an attempt of d's update, or refuses it. *)
LEMMA ExecuteOInv ==
  ASSUME OInv, NEW d \in Requests, NEW q \in ReqType, req' = [req EXCEPT ![d] = q],
         UNCHANGED dryRun, Execute(d), req[d].cur \/ req[d].old > 0,
         q.pc = req[d].pc, q.op = req[d].op, q.gen = req[d].gen, q.meta = req[d].meta,
         q.seen = req[d].seen, q.answer = req[d].answer,
         q.reply = "ok" => Matches(d) \/ req[d].reply = "ok"
  PROVE  OInv'
<1>0. /\ req[d] \in ReqType /\ QInv(req[d], applied[d]) /\ applied[d] \in Nat
      /\ obj \in [live : BOOLEAN, gen : Nat, meta : Nat, tags : TagSets]
      /\ req \in [Requests -> ReqType] /\ applied \in [Requests -> Nat]
      /\ obj.gen > 0 /\ obj.meta > 0 /\ dryRun \in BOOLEAN
  BY DEF OInv, TypeOK
<1>1. req[d].pc \in {"update", "done"} /\ req[d].answer \notin {"NoSuchKey", "rejected"}
  BY <1>0 DEF QInv, Unsent, ReqType
<1>2. CASE ~Matches(d)
  <2>1. UNCHANGED <<dryRun, obj, applied>>
    BY <1>2 DEF Execute
  <2>2. QInv(q, applied[d])
    BY <1>0, <1>1, <1>2 DEF QInv, Snapshot, Once, Unsent, Honest
  <2> QED BY <2>1, <2>2, HandlerMoves
<1>3. CASE Matches(d)
  <2> DEFINE after == Patched(obj.tags, Patch(req[d]))
  <2>1. after \in TagSets
    <3>1. CASE req[d].op = "PUT"
      BY <1>0, <3>1, PatchedIsTagSet DEF Patch, ReqType
    <3>2. CASE req[d].op # "PUT"
      <4>1. DOMAIN NoTags = {}
        BY DEF NoTags
      <4> QED BY <3>2, <4>1, NoTagsIsTagSet DEF Patch, Patched
    <3> QED BY <3>1, <3>2
  <2> HIDE DEF after
  <2>2. /\ obj' = [live |-> TRUE, gen |-> obj.gen, meta |-> obj.meta + 1, tags |-> after]
        /\ applied' = [applied EXCEPT ![d] = @ + 1]
    BY <1>3 DEF Execute, after
  <2>0. /\ obj'.gen = obj.gen /\ obj'.meta = obj.meta + 1
        /\ obj' \in [live : BOOLEAN, gen : Nat, meta : Nat, tags : TagSets]
    BY <1>0, <2>1, <2>2
  <2>3. /\ obj' \in [live : BOOLEAN, gen : Nat, meta : Nat, tags : TagSets]
        /\ obj'.gen = obj.gen /\ obj'.meta = obj.meta + 1
        /\ applied' \in [Requests -> Nat] /\ applied'[d] = applied[d] + 1
        /\ \A r \in Requests : r # d => applied'[r] = applied[r]
    BY <1>0, <2>0, <2>2
  <2>4. TypeOK'
    BY <1>0, <2>3 DEF TypeOK
  <2>5. ASSUME NEW r \in Requests, r # d PROVE QInv(req[r], applied[r])'
    <3>1. /\ QInv(req[r], applied[r]) /\ req'[r] = req[r] /\ applied'[r] = applied[r]
          /\ req[r].gen \in Nat /\ req[r].meta \in Nat
      BY <1>0, <2>3, <2>5 DEF OInv, ReqType
    <3> QED BY <1>0, <2>3, <3>1 DEF QInv, Snapshot, Once, Unsent, Honest
  <2>6. QInv(req[d], applied[d])'
    <3>1. /\ req'[d] = q /\ obj.meta = req[d].meta /\ req[d].gen \in Nat
          /\ req[d].meta \in Nat
      BY <1>0, <1>3 DEF Matches, ReqType
    <3>2. req[d].gen = obj.gen => applied[d] = 0
      BY <1>0, <3>1 DEF QInv, Once
    <3>3. Snapshot(req[d])'
      BY <1>0, <2>3, <3>1 DEF QInv, Snapshot
    <3>4. Once(req[d], applied[d])'
      BY <1>0, <2>3, <3>1, <3>2 DEF Once
    <3>5. Unsent(req[d], applied[d])'
      BY <1>1, <3>1, <1>0 DEF Unsent, ReqType
    <3>6. Honest(req[d], applied[d])'
      BY <1>0, <2>3, <3>1 DEF QInv, Honest
    <3> QED BY <3>3, <3>4, <3>5, <3>6 DEF QInv
  <2> QED BY <1>0, <2>3, <2>4, <2>5, <2>6 DEF OInv
<1> QED BY <1>2, <1>3

(* The object changes and no request moves. *)
LEMMA ObjectMoves ==
  ASSUME OInv, UNCHANGED <<dryRun, req, applied>>,
         obj' \in [live : BOOLEAN, gen : Nat, meta : Nat, tags : TagSets],
         \/ obj'.gen > obj.gen /\ obj'.meta > 0
         \/ /\ obj'.gen = obj.gen /\ obj'.meta >= obj.meta
            /\ obj'.meta = obj.meta => obj'.tags = obj.tags
  PROVE  OInv'
<1>0. /\ obj \in [live : BOOLEAN, gen : Nat, meta : Nat, tags : TagSets]
      /\ obj.gen > 0 /\ obj.meta > 0
  BY DEF OInv, TypeOK
<1>1. TypeOK' /\ obj'.gen > 0 /\ obj'.meta > 0
  BY <1>0 DEF OInv, TypeOK
<1>2. ASSUME NEW r \in Requests PROVE QInv(req[r], applied[r])'
  <2>1. /\ QInv(req[r], applied[r]) /\ req[r].gen \in Nat /\ req[r].meta \in Nat
    BY DEF OInv, TypeOK, ReqType
  <2>2. Snapshot(req[r])'
    BY <1>0, <2>1 DEF QInv, Snapshot
  <2>3. Once(req[r], applied[r])'
    BY <1>0, <2>1 DEF QInv, Snapshot, Once
  <2>4. Unsent(req[r], applied[r])' /\ Honest(req[r], applied[r])'
    BY <2>1 DEF QInv, Unsent, Honest
  <2> QED BY <2>2, <2>3, <2>4 DEF QInv
<1> QED BY <1>1, <1>2 DEF OInv

LEMMA GCSStepOInv == OInv /\ GCSStep => OInv'
<1> SUFFICES ASSUME OInv, GCSStep PROVE OInv'
  OBVIOUS
<1>0. /\ obj \in [live : BOOLEAN, gen : Nat, meta : Nat, tags : TagSets]
      /\ req \in [Requests -> ReqType]
      /\ obj.gen > 0 /\ obj.meta > 0
  BY DEF OInv, TypeOK
<1>1. ASSUME NEW r \in Requests, Serve(r) PROVE OInv'
  <2>1. PICK reply \in {"none", IF Matches(r) THEN "ok" ELSE "fail"} :
          req' = [req EXCEPT ![r].cur = FALSE, ![r].reply = reply]
    BY <1>1 DEF Serve
  <2> DEFINE q == [req[r] EXCEPT !.cur = FALSE, !.reply = reply]
  <2>2. q \in ReqType /\ req' = [req EXCEPT ![r] = q] /\ req[r] \in ReqType
    BY <1>0, <2>1 DEF ReqType
  <2>3. /\ q.pc = req[r].pc /\ q.op = req[r].op /\ q.gen = req[r].gen
        /\ q.meta = req[r].meta /\ q.seen = req[r].seen /\ q.answer = req[r].answer
        /\ q.reply = reply
    BY <2>2 DEF ReqType
  <2> HIDE DEF q
  <2>4. q.reply = "ok" => Matches(r)
    BY <2>1, <2>3
  <2> QED BY <1>1, <2>2, <2>3, <2>4, ExecuteOInv DEF Serve
<1>2. ASSUME NEW r \in Requests, ServeOld(r) PROVE OInv'
  <2> DEFINE q == [req[r] EXCEPT !.old = @ - 1]
  <2>1. q \in ReqType /\ req' = [req EXCEPT ![r] = q] /\ req[r] \in ReqType
    BY <1>0, <1>2 DEF ServeOld, ReqType
  <2>2. /\ q.pc = req[r].pc /\ q.op = req[r].op /\ q.gen = req[r].gen
        /\ q.meta = req[r].meta /\ q.seen = req[r].seen /\ q.answer = req[r].answer
        /\ q.reply = req[r].reply
    BY <2>1 DEF ReqType
  <2> HIDE DEF q
  <2> QED BY <1>2, <2>1, <2>2, ExecuteOInv DEF ServeOld
<1>3. ASSUME NEW r \in Requests, Drop(r) PROVE OInv'
  <2>1. ASSUME NEW q \in ReqType, req' = [req EXCEPT ![r] = q],
               req[r].cur \/ req[r].old > 0,
               q.pc = req[r].pc, q.op = req[r].op, q.gen = req[r].gen,
               q.meta = req[r].meta, q.seen = req[r].seen, q.answer = req[r].answer,
               q.reply = req[r].reply
        PROVE  OInv'
    <3>1. QInv(req[r], applied[r]) /\ req[r] \in ReqType
      BY DEF OInv, TypeOK
    <3>2. QInv(q, applied[r])
      BY <2>1, <3>1 DEF QInv, Snapshot, Once, Unsent, Honest, ReqType
    <3> QED BY <1>3, <2>1, <3>2, HandlerMoves DEF Drop
  <2>2. CASE req[r].cur /\ req' = [req EXCEPT ![r].cur = FALSE]
    <3> DEFINE q == [req[r] EXCEPT !.cur = FALSE]
    <3>1. q \in ReqType /\ req' = [req EXCEPT ![r] = q] /\ req[r] \in ReqType
      BY <1>0, <2>2 DEF ReqType
    <3>2. /\ q.pc = req[r].pc /\ q.op = req[r].op /\ q.gen = req[r].gen
          /\ q.meta = req[r].meta /\ q.seen = req[r].seen /\ q.answer = req[r].answer
          /\ q.reply = req[r].reply
      BY <3>1 DEF ReqType
    <3> HIDE DEF q
    <3> QED BY <2>1, <2>2, <3>1, <3>2
  <2>3. CASE req[r].old > 0 /\ req' = [req EXCEPT ![r].old = @ - 1]
    <3> DEFINE q == [req[r] EXCEPT !.old = @ - 1]
    <3>1. q \in ReqType /\ req' = [req EXCEPT ![r] = q] /\ req[r] \in ReqType
      BY <1>0, <2>3 DEF ReqType
    <3>2. /\ q.pc = req[r].pc /\ q.op = req[r].op /\ q.gen = req[r].gen
          /\ q.meta = req[r].meta /\ q.seen = req[r].seen /\ q.answer = req[r].answer
          /\ q.reply = req[r].reply
      BY <3>1 DEF ReqType
    <3> HIDE DEF q
    <3> QED BY <2>1, <2>3, <3>1, <3>2
  <2> QED BY <1>3, <2>2, <2>3 DEF Drop
<1>4. CASE Overwrite
  <2>1. PICK tags \in OverwriteTags :
          obj' = [live |-> TRUE, gen |-> obj.gen + 1, meta |-> 1, tags |-> tags]
    BY <1>4 DEF Overwrite
  <2>2. tags \in TagSets
    BY OverwriteAssumption
  <2>3. /\ obj' \in [live : BOOLEAN, gen : Nat, meta : Nat, tags : TagSets]
        /\ obj'.gen = obj.gen + 1 /\ obj'.meta = 1 /\ obj.gen \in Nat
    BY <1>0, <2>1, <2>2
  <2>4. UNCHANGED <<dryRun, req, applied>>
    BY <1>4 DEF Overwrite
  <2>5. obj'.gen > obj.gen /\ obj'.meta > 0
    BY <2>3
  <2> QED BY <2>3, <2>4, <2>5, ObjectMoves
<1>5. CASE Remove
  BY <1>0, <1>5, ObjectMoves DEF Remove
<1>6. CASE OtherUpdate
  BY <1>0, <1>6, ObjectMoves DEF OtherUpdate
<1> QED BY <1>1, <1>2, <1>3, <1>4, <1>5, <1>6 DEF GCSStep

LEMMA StutterOInv == OInv /\ UNCHANGED vars => OInv'
BY DEF vars, OInv, TypeOK, QInv, Snapshot, Once, Unsent, Honest

THEOREM TaggingInvariant == Spec => []OInv
<1>1. OInv /\ [Next]_vars => OInv'
  BY HandlerStepOInv, GCSStepOInv, StutterOInv DEF Next
<1> QED BY InitOInv, <1>1, PTL DEF Spec

-----------------------------------------------------------------------------
(* The types of the object, of the handlers and of the history. *)
THEOREM TypeCorrect == Spec => []TypeOK
<1>1. OInv => TypeOK
  BY DEF OInv
<1> QED BY <1>1, TaggingInvariant, PTL

(* The metageneration stands for the tags: what If(MetagenerationMatch)    *)
(* relies on in handlePutObjectTagging and handleDeleteObjectTagging.      *)
THEOREM MetagenerationStandsForTags == Spec => []SameMetaSameTags
<1>1. OInv => SameMetaSameTags
  BY DEF OInv, QInv, Snapshot, SameMetaSameTags
<1> QED BY <1>1, TaggingInvariant, PTL

(* However often the SDK repeats the update of a request, and however late *)
(* an attempt that was given up arrives, it is applied at most once to the *)
(* object the request read.                                                *)
THEOREM RetriesAreIdempotent == Spec => []RetryIsIdempotent
<1>1. ASSUME OInv, NEW r \in Requests, applied[r] > 1 PROVE obj.gen > req[r].gen
  <2>1. /\ QInv(req[r], applied[r]) /\ applied[r] \in Nat /\ req[r].gen \in Nat
        /\ obj.gen \in Nat
    BY <1>1 DEF OInv, TypeOK, ReqType
  <2> QED BY <1>1, <2>1 DEF QInv, Snapshot, Once
<1>2. OInv => RetryIsIdempotent
  BY <1>1 DEF RetryIsIdempotent
<1> QED BY <1>2, TaggingInvariant, PTL

(* 200 and 204 mean that GCS has executed the update; 404 and 4xx that it  *)
(* never saw it. (500 means neither.)                                      *)
THEOREM AnswersTellTheTruth == Spec => []AnswersAreHonest
<1>1. OInv => AnswersAreHonest
  BY DEF OInv, TypeOK, QInv, Unsent, Honest, AnswersAreHonest
<1> QED BY <1>1, TaggingInvariant, PTL

(* An update applied to the object that was read leaves exactly the tag    *)
(* set the request asked for: whatever other requests, retries and writers *)
(* did in between, the condition and the delete markers see to it.         *)
THEOREM UpdatesAreExact == Spec => ExactOnSameObject
<1> DEFINE Exact == \A r \in Requests :
                      applied'[r] > applied[r] /\ obj.gen = req[r].gen
                      => obj'.tags = Wanted(req[r])
<1>1. ASSUME OInv, NEW r \in Requests, Execute(r), req[r].cur \/ req[r].old > 0
      PROVE  Exact
  <2>0. applied \in [Requests -> Nat] /\ req[r] \in ReqType /\ QInv(req[r], applied[r])
    BY <1>1 DEF OInv, TypeOK
  <2>1. CASE ~Matches(r)
    <3>1. applied' = applied
      BY <1>1, <2>1 DEF Execute
    <3> QED BY <2>0, <3>1
  <2>2. CASE Matches(r)
    <3>1. \A d \in Requests : applied'[d] > applied[d] => d = r
      BY <1>1, <2>0, <2>2 DEF Execute
    <3>2. obj'.tags = Patched(obj.tags, Patch(req[r]))
      BY <1>1, <2>2 DEF Execute
    <3>3. obj.gen = req[r].gen => obj.tags = req[r].seen
      BY <2>0, <2>2 DEF Matches, QInv, Snapshot
    <3>4. CASE req[r].op = "PUT"
      <4>1. req[r].want \in TagSets /\ req[r].seen \in TagSets
        BY <2>0 DEF ReqType
      <4>2. Patched(req[r].seen, Patch(req[r])) = req[r].want
        BY <3>4, <4>1, PatchIsExact DEF Patch
      <4> QED BY <3>1, <3>2, <3>3, <3>4, <4>2 DEF Wanted
    <3>5. CASE req[r].op # "PUT"
      <4>1. DOMAIN NoTags = {}
        BY DEF NoTags
      <4>2. obj'.tags = NoTags
        BY <3>2, <3>5, <4>1 DEF Patch, Patched
      <4> QED BY <3>1, <3>5, <4>2 DEF Wanted
    <3> QED BY <3>4, <3>5
  <2> QED BY <2>1, <2>2
<1>2. ASSUME OInv, UNCHANGED applied PROVE Exact
  <2>1. \A r \in Requests : applied[r] \in Nat /\ applied'[r] = applied[r]
    BY <1>2 DEF OInv, TypeOK
  <2> QED BY <2>1
<1>3. OInv /\ [Next]_vars => Exact
  <2> SUFFICES ASSUME OInv, [Next]_vars PROVE Exact
    OBVIOUS
  <2>1. ASSUME NEW r \in Requests, HandlerStep(r) PROVE UNCHANGED applied
    BY <2>1 DEF HandlerStep, Begin, Reject, ReadAttrs, ReadFails, Retry, Finish, Timeout
  <2>2. ASSUME NEW r \in Requests, Serve(r) \/ ServeOld(r) PROVE Exact
    <3>1. Execute(r) /\ (req[r].cur \/ req[r].old > 0)
      BY <2>2 DEF Serve, ServeOld
    <3> QED BY <1>1, <3>1
  <2>3. ASSUME NEW r \in Requests, Drop(r) PROVE UNCHANGED applied
    BY <2>3 DEF Drop
  <2>4. Overwrite \/ Remove \/ OtherUpdate \/ UNCHANGED vars => UNCHANGED applied
    BY DEF Overwrite, Remove, OtherUpdate, vars
  <2> HIDE DEF Exact
  <2> QED BY <1>2, <2>1, <2>2, <2>3, <2>4 DEF Next, GCSStep
<1>4. OInv /\ [Next]_vars => [Exact]_vars
  BY <1>3
<1> QED BY <1>4, TaggingInvariant, PTL DEF Spec, ExactOnSameObject

-----------------------------------------------------------------------------
(* The handlers implement TagRegister. More about one request is needed    *)
(* than for the invariants: what it has sent, and what it knows by then.   *)
Asked(q, n) ==
  /\ q.pc \in {"idle", "read"} => q.seen = NoTags
  /\ q.op # "PUT" => q.want = NoTags
  /\ q.op = "GET" => n = 0 /\ ~q.cur /\ q.old = 0 /\ q.pc # "update"
  /\ q.pc \in {"read", "update"} \/ q.cur \/ q.old > 0 => ~dryRun
  /\ q.pc = "update" \/ q.cur \/ q.old > 0 => q.gen > 0

AInv == \A r \in Requests : Asked(req[r], applied[r])

(* What the requests are to the register, and the register itself.         *)
operations == [r \in Requests |-> OperationOf(req[r], applied[r])]
tagSet == IF obj.live THEN obj.tags ELSE Gone

LEMMA OneRequest ==
  ASSUME OInv, AInv, NEW r \in Requests
  PROVE  /\ req[r] \in ReqType /\ applied[r] \in Nat /\ QInv(req[r], applied[r])
         /\ Asked(req[r], applied[r]) /\ operations[r] = OperationOf(req[r], applied[r])
         /\ operations = [operations EXCEPT ![r] = operations[r]]
         /\ obj \in [live : BOOLEAN, gen : Nat, meta : Nat, tags : TagSets]
         /\ obj.gen > 0 /\ obj.meta > 0 /\ dryRun \in BOOLEAN
BY DEF OInv, AInv, TypeOK, operations

LEMMA OneMoves ==
  ASSUME OInv, AInv, NEW d \in Requests, NEW q \in ReqType, NEW n \in Nat,
         req' = [req EXCEPT ![d] = q], applied' = [applied EXCEPT ![d] = n],
         UNCHANGED dryRun, Asked(q, n)
  PROVE  AInv' /\ operations' = [operations EXCEPT ![d] = OperationOf(q, n)]
<1>1. req \in [Requests -> ReqType] /\ applied \in [Requests -> Nat]
  BY DEF OInv, TypeOK
<1>2. /\ \A r \in Requests : req'[r] = IF r = d THEN q ELSE req[r]
      /\ \A r \in Requests : applied'[r] = IF r = d THEN n ELSE applied[r]
  BY <1>1
<1>3. \A r \in Requests : Asked(req[r], applied[r])'
  <2> SUFFICES ASSUME NEW r \in Requests PROVE Asked(req[r], applied[r])'
    OBVIOUS
  <2>1. CASE r = d
    BY <1>2, <2>1 DEF Asked
  <2>2. CASE r # d
    BY <1>2, <2>2 DEF AInv, Asked
  <2> QED BY <2>1, <2>2
<1>4. \A r \in Requests : OperationOf(req[r], applied[r])'
                            = IF r = d THEN OperationOf(q, n)
                              ELSE OperationOf(req[r], applied[r])
  BY <1>2 DEF OperationOf
<1>5. operations' = [r \in Requests |-> OperationOf(req[r], applied[r])']
  BY DEF operations
<1> QED BY <1>3, <1>4, <1>5 DEF AInv, operations

(* Once the object has been overwritten, nothing is promised any more.     *)
LEMMA UntilOverwritten ==
  ASSUME OInv, obj'.gen \in Nat, obj'.gen >= obj.gen,
         obj'.gen = 1 => Register!Step \/ UNCHANGED <<tagSet, operations>>
  PROVE  [Register!RNext]_(Register!rvars)
<1>1. obj.gen \in Nat /\ obj.gen > 0
  BY DEF OInv, TypeOK
<1>2. CASE obj'.gen > 1
  BY <1>2 DEF Register!RNext
<1>3. CASE obj'.gen = 1
  <2>1. obj.gen = 1 /\ ~(obj.gen > 1) /\ ~(obj'.gen > 1)
    BY <1>1, <1>3
  <2>2. CASE Register!Step
    BY <2>1, <2>2 DEF Register!RNext
  <2>3. CASE UNCHANGED <<tagSet, operations>>
    BY <2>1, <2>3 DEF Register!rvars, tagSet, operations
  <2> QED BY <1>3, <2>2, <2>3
<1> QED BY <1>1, <1>2, <1>3

(* A step of one request that leaves GCS alone. *)
LEMMA HandlerImplements ==
  ASSUME OInv, AInv, NEW d \in Requests, NEW q \in ReqType, req' = [req EXCEPT ![d] = q],
         UNCHANGED <<dryRun, obj, applied>>, Asked(q, applied[d]),
         AInv' /\ operations' = [operations EXCEPT ![d] = OperationOf(q, applied[d])]
           /\ UNCHANGED tagSet
         => Register!Step \/ OperationOf(q, applied[d]) = OperationOf(req[d], applied[d])
  PROVE  AInv' /\ [Register!RNext]_(Register!rvars)
<1>1. applied' = [applied EXCEPT ![d] = applied[d]] /\ applied[d] \in Nat
  BY DEF OInv, TypeOK
<1>2. /\ AInv' /\ operations' = [operations EXCEPT ![d] = OperationOf(q, applied[d])]
      /\ UNCHANGED tagSet
  BY <1>1, OneMoves DEF tagSet
<1>3. obj'.gen = obj.gen /\ obj.gen \in Nat
  BY OneRequest
<1>4. Register!Step \/ operations' = operations
  BY <1>2, OneRequest
<1> QED BY <1>2, <1>3, <1>4, UntilOverwritten

(* A request that is open to the register. *)
LEMMA OpenOperation ==
  ASSUME NEW q \in ReqType, NEW n \in Nat, ~dryRun, q.pc \in {"read", "update"},
         q.answer = "none"
  PROVE  OperationOf(q, n) =
           [phase |-> "open", kind |-> q.op, want |-> q.want, applied |-> n > 0,
            got |-> IF q.op = "GET" THEN q.seen ELSE NoTags]
BY DEF OperationOf, PhaseOf

LEMMA BeginImplements ==
  ASSUME OInv, AInv, NEW d \in Requests, NEW op \in Writes \cup {"GET"}, NEW want \in TagSets,
         Begin(d, op, want), op # "PUT" => want = NoTags
  PROVE  AInv' /\ [Register!RNext]_(Register!rvars)
<1> DEFINE q == [req[d] EXCEPT !.op = op, !.want = want,
                   !.pc = IF dryRun THEN "done" ELSE "read",
                   !.answer = IF dryRun THEN "ok" ELSE "none"]
<1>0. /\ req[d] \in ReqType /\ applied[d] \in Nat /\ req[d].pc = "idle" /\ dryRun \in BOOLEAN
      /\ QInv(req[d], applied[d]) /\ Asked(req[d], applied[d])
  BY OneRequest DEF Begin
<1>1. q \in ReqType /\ req' = [req EXCEPT ![d] = q] /\ UNCHANGED <<dryRun, obj, applied>>
  BY <1>0 DEF Begin, ReqType
<1>2. /\ q.op = op /\ q.want = want /\ q.seen = req[d].seen /\ q.cur = req[d].cur
      /\ q.old = req[d].old /\ q.answer = IF dryRun THEN "ok" ELSE "none"
      /\ q.pc = IF dryRun THEN "done" ELSE "read"
  BY <1>0 DEF ReqType
<1> HIDE DEF q
<1>3. /\ applied[d] = 0 /\ ~req[d].cur /\ req[d].old = 0 /\ req[d].seen = NoTags
  BY <1>0 DEF QInv, Unsent, Asked
<1>4. Asked(q, applied[d])
  BY <1>2, <1>3 DEF Asked
<1>5. OperationOf(req[d], applied[d]) = Unmade
  BY <1>0 DEF OperationOf
<1>6. CASE dryRun
  <2>1. OperationOf(q, applied[d]) = OperationOf(req[d], applied[d])
    BY <1>5, <1>6 DEF OperationOf
  <2> QED BY <1>1, <1>4, <2>1, HandlerImplements
<1>7. CASE ~dryRun
  <2> DEFINE o == [phase |-> "open", kind |-> op, want |-> want, applied |-> FALSE,
                   got |-> NoTags]
  <2>1. OperationOf(q, applied[d]) = o
    <3> DEFINE took == applied[d] > 0
               got == IF q.op = "GET" THEN q.seen ELSE NoTags
    <3>1. took = FALSE /\ got = NoTags
      BY <1>2, <1>3
    <3>2. OperationOf(q, applied[d]) = [phase |-> "open", kind |-> q.op, want |-> q.want,
                                        applied |-> took, got |-> got]
      BY <1>0, <1>1, <1>2, <1>7, OpenOperation
    <3> HIDE DEF took, got
    <3> QED BY <1>2, <3>1, <3>2
  <2>2. o \in Register!Made({"PUT"}, TagSets) \cup Register!Made({"GET", "DELETE"}, {NoTags})
    BY DEF Register!Made, Writes
  <2>3. operations[d].phase = "idle" /\ d \in DOMAIN operations
    <3>1. operations[d].phase = "idle"
      BY <1>5, OneRequest DEF Unmade
    <3>2. d \in DOMAIN operations
      BY DEF operations
    <3> QED BY <3>1, <3>2
  <2> HIDE DEF o
  <2>4. operations' = [operations EXCEPT ![d] = o] /\ UNCHANGED tagSet => Register!Open(d)
    <3> SUFFICES ASSUME operations' = [operations EXCEPT ![d] = o], UNCHANGED tagSet
                 PROVE  Register!Open(d)
      OBVIOUS
    <3>1. operations'[d] = o
      BY <2>3
    <3> QED BY <2>2, <2>3, <3>1 DEF Register!Open, operations, tagSet
  <2> QED BY <1>1, <1>4, <2>1, <2>4, HandlerImplements DEF Register!Step
<1> QED BY <1>6, <1>7

(* A handler answers: a success only after GCS has executed the update.    *)
LEMMA AnswerImplements ==
  ASSUME OInv, AInv, NEW d \in Requests, NEW q \in ReqType, req' = [req EXCEPT ![d] = q],
         UNCHANGED <<dryRun, obj, applied>>, req[d].pc \in {"read", "update"},
         q.pc = "done", q.answer \in {"ok", "NoSuchKey", "InternalError"},
         q.answer = "ok" => applied[d] > 0,
         q.op = req[d].op, q.want = req[d].want, q.seen = req[d].seen, q.gen = req[d].gen,
         q.cur \/ q.old > 0 => req[d].cur \/ req[d].old > 0
  PROVE  AInv' /\ [Register!RNext]_(Register!rvars)
<1> DEFINE p == req[d]
           n == applied[d]
           end == IF q.answer = "ok" THEN "ok" ELSE "error"
           o == operations[d]
           e == OperationOf(q, n)
<1>0. /\ p \in ReqType /\ n \in Nat /\ ~dryRun /\ p.answer = "none" /\ Asked(p, n)
      /\ QInv(p, n)
  BY OneRequest DEF QInv, Honest, Asked
<1>1. Asked(q, n)
  BY <1>0 DEF Asked, ReqType
<1>2. o = [phase |-> "open", kind |-> p.op, want |-> p.want, applied |-> n > 0,
           got |-> IF p.op = "GET" THEN p.seen ELSE NoTags]
  BY <1>0, OneRequest, OpenOperation
<1>3. e = [phase |-> end, kind |-> p.op, want |-> p.want, applied |-> n > 0,
           got |-> IF p.op = "GET" THEN p.seen ELSE NoTags]
  <2>1. PhaseOf(q) = end
    BY DEF PhaseOf
  <2> HIDE DEF end
  <2> QED BY <1>0, <2>1 DEF OperationOf
<1>4. /\ e = [o EXCEPT !.phase = end] /\ o.phase = "open" /\ o.applied = (n > 0)
      /\ o.kind = p.op
  <2> DEFINE got == IF p.op = "GET" THEN p.seen ELSE NoTags
             took == n > 0
  <2>1. /\ o = [phase |-> "open", kind |-> p.op, want |-> p.want, applied |-> took,
                got |-> got]
        /\ e = [phase |-> end, kind |-> p.op, want |-> p.want, applied |-> took, got |-> got]
    BY <1>2, <1>3
  <2> HIDE DEF o, e, end, got, took
  <2>2. /\ e = [o EXCEPT !.phase = end] /\ o.phase = "open" /\ o.applied = took
        /\ o.kind = p.op
    BY <2>1
  <2> QED BY <2>2 DEF took
<1>5. end = "error" \/ (end = "ok" /\ o.applied /\ o.kind # "GET")
  <2>1. CASE q.answer = "ok"
    <3>1. n > 0 /\ p.op # "GET"
      BY <1>0, <2>1 DEF Asked
    <3> QED BY <1>4, <2>1, <3>1
  <2> QED BY <2>1
<1> HIDE DEF e, end
<1>6. operations' = [operations EXCEPT ![d] = e] /\ UNCHANGED tagSet => Register!Step
  <2> SUFFICES ASSUME operations' = [operations EXCEPT ![d] = e], UNCHANGED tagSet
               PROVE  Register!Step
    OBVIOUS
  <2>1. operations' = [operations EXCEPT ![d].phase = end]
    BY <1>4
  <2>2. Register!Answer(d) \/ Register!Fail(d)
    BY <1>4, <1>5, <2>1 DEF Register!Answer, Register!Fail, operations, tagSet
  <2> QED BY <2>2 DEF Register!Step
<1> QED BY <1>1, <1>6, HandlerImplements DEF e

(* A change of its bookkeeping that the register does not notice.          *)
LEMMA Unnoticed ==
  ASSUME OInv, AInv, NEW d \in Requests, NEW q \in ReqType, req' = [req EXCEPT ![d] = q],
         UNCHANGED <<dryRun, obj, applied>>, Asked(q, applied[d]),
         q.pc = req[d].pc, q.op = req[d].op, q.want = req[d].want, q.seen = req[d].seen,
         q.answer = req[d].answer
  PROVE  AInv' /\ [Register!RNext]_(Register!rvars)
<1>1. OperationOf(q, applied[d]) = OperationOf(req[d], applied[d])
  BY DEF OperationOf, PhaseOf
<1> QED BY <1>1, HandlerImplements

LEMMA ReadAttrsImplements ==
  ASSUME OInv, AInv, NEW d \in Requests, ReadAttrs(d)
  PROVE  AInv' /\ [Register!RNext]_(Register!rvars)
<1> DEFINE p == req[d]
           n == applied[d]
           q == [req[d] EXCEPT
                   !.gen = obj.gen, !.meta = obj.meta, !.seen = obj.tags,
                   !.pc = IF req[d].op = "GET" THEN "done" ELSE "update",
                   !.cur = req[d].op # "GET",
                   !.answer = IF req[d].op = "GET" THEN "ok" ELSE "none"]
           o == operations[d]
           e == OperationOf(q, n)
<1>0. /\ p \in ReqType /\ n \in Nat /\ p.pc = "read" /\ Asked(p, n) /\ QInv(p, n) /\ obj.live
      /\ obj \in [live : BOOLEAN, gen : Nat, meta : Nat, tags : TagSets] /\ obj.gen > 0
  BY OneRequest DEF ReadAttrs
<1>1. q \in ReqType /\ req' = [req EXCEPT ![d] = q] /\ UNCHANGED <<dryRun, obj, applied>>
  BY <1>0 DEF ReadAttrs, ReqType
<1>2. /\ q.op = p.op /\ q.want = p.want /\ q.seen = obj.tags /\ q.gen = obj.gen
      /\ q.old = p.old /\ (q.cur <=> p.op # "GET")
      /\ q.pc = IF p.op = "GET" THEN "done" ELSE "update"
      /\ q.answer = IF p.op = "GET" THEN "ok" ELSE "none"
  BY <1>0 DEF ReqType
<1> HIDE DEF q
<1>3. ~dryRun /\ p.seen = NoTags /\ p.answer = "none" /\ n = 0 /\ p.old = 0
  BY <1>0 DEF Asked, QInv, Honest, Unsent
<1>4. Asked(q, n)
  BY <1>0, <1>2, <1>3 DEF Asked
<1>5. o = [phase |-> "open", kind |-> p.op, want |-> p.want, applied |-> n > 0, got |-> NoTags]
  <2>1. (IF p.op = "GET" THEN p.seen ELSE NoTags) = NoTags
    BY <1>3
  <2> QED BY <1>0, <1>3, <2>1, OneRequest, OpenOperation
<1>6. CASE p.op # "GET"
  <2>1. (IF q.op = "GET" THEN q.seen ELSE NoTags) = NoTags
    BY <1>2, <1>6
  <2>2. q.pc = "update" /\ q.answer = "none"
    BY <1>2, <1>6
  <2>3. e = o
    BY <1>0, <1>1, <1>2, <1>3, <1>5, <2>1, <2>2, OpenOperation
  <2> QED BY <1>1, <1>4, <2>3, OneRequest, HandlerImplements
<1>7. CASE p.op = "GET"
  <2> DEFINE took == n > 0
  <2>1. PhaseOf(q) = "ok" /\ q.pc = "done" /\ q.answer = "ok"
    BY <1>2, <1>7 DEF PhaseOf
  <2>2. e = [phase |-> "ok", kind |-> p.op, want |-> p.want, applied |-> took, got |-> obj.tags]
    BY <1>2, <1>3, <1>7, <2>1 DEF OperationOf
  <2> HIDE DEF o, e, took
  <2>3. o = [phase |-> "open", kind |-> p.op, want |-> p.want, applied |-> took, got |-> NoTags]
    BY <1>5 DEF took
  <2>4. /\ e = [o EXCEPT !.phase = "ok", !.got = obj.tags]
        /\ o.phase = "open" /\ o.kind = "GET"
    <3> DEFINE kind == p.op
               want == p.want
               tags == obj.tags
    <3>1. /\ e = [phase |-> "ok", kind |-> kind, want |-> want, applied |-> took, got |-> tags]
          /\ o = [phase |-> "open", kind |-> kind, want |-> want, applied |-> took,
                  got |-> NoTags]
      BY <2>2, <2>3
    <3>2. kind = "GET"
      BY <1>7
    <3> HIDE DEF kind, want, tags
    <3> DEFINE ended == [phase |-> "ok", kind |-> kind, want |-> want, applied |-> took,
                         got |-> NoTags]
    <3>3. [o EXCEPT !.phase = "ok"] = ended /\ o.phase = "open" /\ o.kind = kind
      BY ONLY <3>1
    <3>4. [ended EXCEPT !.got = tags] = e
      BY ONLY <3>1
    <3>5. [o EXCEPT !.phase = "ok", !.got = tags] = [[o EXCEPT !.phase = "ok"] EXCEPT !.got = tags]
      OBVIOUS
    <3>6. e = [o EXCEPT !.phase = "ok", !.got = tags]
      BY <3>3, <3>4, <3>5, Zenon
    <3> QED BY <3>2, <3>3, <3>6 DEF tags
  <2>5. tagSet = obj.tags /\ tagSet # Gone
    BY <1>0, GoneAssumption DEF tagSet
  <2>6. operations' = [operations EXCEPT ![d] = e] /\ UNCHANGED tagSet => Register!Step
    <3> SUFFICES ASSUME operations' = [operations EXCEPT ![d] = e], UNCHANGED tagSet
                 PROVE  Register!Step
      OBVIOUS
    <3>1. operations' = [operations EXCEPT ![d].phase = "ok", ![d].got = tagSet]
      BY <2>4, <2>5 DEF o
    <3>2. Register!AnswerGet(d)
      BY <2>4, <2>5, <3>1 DEF Register!AnswerGet, operations, tagSet, o
    <3> QED BY <3>2 DEF Register!Step
  <2> QED BY <1>1, <1>4, <2>6, HandlerImplements DEF e
<1> QED BY <1>6, <1>7

LEMMA HandlerStepImplements ==
  ASSUME OInv, AInv, NEW d \in Requests, HandlerStep(d)
  PROVE  AInv' /\ [Register!RNext]_(Register!rvars)
<1>0. /\ req[d] \in ReqType /\ applied[d] \in Nat /\ QInv(req[d], applied[d])
      /\ Asked(req[d], applied[d]) /\ req \in [Requests -> ReqType]
  BY OneRequest DEF OInv, TypeOK
<1>1. ASSUME NEW want \in TagSets, Begin(d, "PUT", want)
      PROVE  AInv' /\ [Register!RNext]_(Register!rvars)
  BY <1>1, BeginImplements DEF Writes
<1>2. ASSUME NEW op \in {"GET", "DELETE"}, Begin(d, op, NoTags)
      PROVE  AInv' /\ [Register!RNext]_(Register!rvars)
  BY <1>2, BeginImplements, NoTagsIsTagSet DEF Writes
<1>3. CASE Reject(d)
  <2> DEFINE q == [req[d] EXCEPT !.pc = "done", !.answer = "rejected"]
  <2>1. /\ q \in ReqType /\ req' = [req EXCEPT ![d] = q] /\ UNCHANGED <<dryRun, obj, applied>>
        /\ req[d].pc = "idle"
    BY <1>0, <1>3 DEF Reject, Answered, ReqType
  <2>2. /\ q.pc = "done" /\ q.answer = "rejected" /\ q.op = req[d].op /\ q.want = req[d].want
        /\ q.seen = req[d].seen /\ q.cur = req[d].cur /\ q.old = req[d].old
        /\ q.gen = req[d].gen
    BY <1>0 DEF ReqType
  <2> HIDE DEF q
  <2>3. Asked(q, applied[d])
    BY <1>0, <2>2 DEF Asked
  <2>4. OperationOf(q, applied[d]) = OperationOf(req[d], applied[d])
    BY <2>1, <2>2 DEF OperationOf
  <2> QED BY <2>1, <2>3, <2>4, HandlerImplements
<1>4. ASSUME NEW answer \in {"ok", "NoSuchKey", "InternalError"}, Answered(d, answer),
             UNCHANGED <<dryRun, obj, applied>>, req[d].pc \in {"read", "update"},
             answer = "ok" => req[d].reply = "ok"
      PROVE  AInv' /\ [Register!RNext]_(Register!rvars)
  <2> DEFINE q == [req[d] EXCEPT !.pc = "done", !.answer = answer]
  <2>1. q \in ReqType /\ req' = [req EXCEPT ![d] = q]
    BY <1>0, <1>4 DEF Answered, ReqType
  <2>2. /\ q.pc = "done" /\ q.answer = answer /\ q.op = req[d].op /\ q.want = req[d].want
        /\ q.seen = req[d].seen /\ q.cur = req[d].cur /\ q.old = req[d].old
        /\ q.gen = req[d].gen
    BY <1>0 DEF ReqType
  <2> HIDE DEF q
  <2>3. q.answer = "ok" => applied[d] > 0
    BY <1>0, <1>4, <2>2 DEF QInv, Honest
  <2> QED BY <1>4, <2>1, <2>2, <2>3, AnswerImplements
<1>5. CASE Finish(d)
  <2>1. req[d].reply = "ok" \/ ~(req[d].reply = "ok")
    OBVIOUS
  <2> QED BY <1>4, <1>5, <2>1 DEF Finish
<1>6. CASE ReadFails(d)
  BY <1>4, <1>6 DEF ReadFails
<1>7. CASE Timeout(d)
  <2> DEFINE q == [req[d] EXCEPT !.pc = "done", !.answer = "InternalError", !.cur = FALSE,
                     !.old = IF req[d].cur THEN @ + 1 ELSE @]
  <2>1. /\ q \in ReqType /\ req' = [req EXCEPT ![d] = q] /\ UNCHANGED <<dryRun, obj, applied>>
        /\ req[d].pc = "update"
    <3>1. req' = [req EXCEPT ![d] = q] /\ UNCHANGED <<dryRun, obj, applied>>
          /\ req[d].pc = "update"
      BY <1>0, <1>7 DEF Timeout
    <3>2. (IF req[d].cur THEN req[d].old + 1 ELSE req[d].old) \in Nat
      BY <1>0 DEF ReqType
    <3>3. q \in ReqType
      BY <1>0, <3>2 DEF ReqType
    <3> QED BY <3>1, <3>3
  <2>2. /\ q.pc = "done" /\ q.answer = "InternalError" /\ q.op = req[d].op
        /\ q.want = req[d].want /\ q.seen = req[d].seen /\ q.gen = req[d].gen /\ ~q.cur
        /\ q.old = IF req[d].cur THEN req[d].old + 1 ELSE req[d].old
    BY <1>0 DEF ReqType
  <2> HIDE DEF q
  <2>3. q.cur \/ q.old > 0 => req[d].cur \/ req[d].old > 0
    <3>1. CASE req[d].cur
      BY <3>1
    <3>2. CASE ~req[d].cur
      <4>1. q.old = req[d].old
        BY <2>2, <3>2
      <4> QED BY <2>2, <4>1
    <3> QED BY <3>1, <3>2
  <2> QED BY <2>1, <2>2, <2>3, AnswerImplements
<1>8. CASE Retry(d)
  <2>1. ASSUME NEW q \in ReqType, req' = [req EXCEPT ![d] = q], q.pc = req[d].pc,
               q.op = req[d].op, q.want = req[d].want, q.seen = req[d].seen,
               q.answer = req[d].answer, q.gen = req[d].gen
        PROVE  AInv' /\ [Register!RNext]_(Register!rvars)
    <3>1. Asked(q, applied[d])
      BY <1>0, <1>8, <2>1 DEF Retry, Asked
    <3> QED BY <1>8, <2>1, <3>1, Unnoticed DEF Retry
  <2>2. CASE req' = [req EXCEPT ![d].cur = TRUE]
    <3> DEFINE q == [req[d] EXCEPT !.cur = TRUE]
    <3>1. q \in ReqType /\ req' = [req EXCEPT ![d] = q]
      BY <1>0, <2>2 DEF ReqType
    <3> QED BY <1>0, <2>1, <3>1 DEF ReqType
  <2>3. CASE req' = [req EXCEPT ![d].old = @ + 1]
    <3> DEFINE q == [req[d] EXCEPT !.old = @ + 1]
    <3>1. q \in ReqType /\ req' = [req EXCEPT ![d] = q]
      BY <1>0, <2>3 DEF ReqType
    <3> QED BY <1>0, <2>1, <3>1 DEF ReqType
  <2> QED BY <1>8, <2>2, <2>3 DEF Retry
<1> QED BY <1>1, <1>2, <1>3, <1>5, <1>6, <1>7, <1>8, ReadAttrsImplements DEF HandlerStep

(* GCS executes an attempt: if that changes anything, it is the one moment *)
(* at which the write of the register takes effect.                        *)
LEMMA ExecuteImplements ==
  ASSUME OInv, AInv, NEW d \in Requests, NEW q \in ReqType, req' = [req EXCEPT ![d] = q],
         UNCHANGED dryRun, Execute(d), req[d].cur \/ req[d].old > 0,
         q.pc = req[d].pc, q.op = req[d].op, q.want = req[d].want, q.gen = req[d].gen,
         q.seen = req[d].seen, q.answer = req[d].answer,
         q.cur => req[d].cur, q.old <= req[d].old
  PROVE  AInv' /\ [Register!RNext]_(Register!rvars)
<1> DEFINE p == req[d]
           n == applied[d]
           o == operations[d]
<1>0. /\ p \in ReqType /\ n \in Nat /\ QInv(p, n) /\ Asked(p, n) /\ dryRun \in BOOLEAN
      /\ obj \in [live : BOOLEAN, gen : Nat, meta : Nat, tags : TagSets]
      /\ obj.gen > 0 /\ obj.meta > 0 /\ o = OperationOf(p, n)
      /\ applied \in [Requests -> Nat]
  BY OneRequest DEF OInv, TypeOK
<1>1. /\ ~dryRun /\ p.op # "GET" /\ p.gen > 0 /\ p.pc \notin {"idle", "read"}
      /\ p.answer \notin {"NoSuchKey", "rejected"}
  BY <1>0 DEF Asked, QInv, Unsent
<1>2. \A k \in Nat : Asked(q, k)
  BY <1>0, <1>1 DEF Asked, ReqType
<1>3. CASE ~Matches(d)
  <2>1. UNCHANGED <<dryRun, obj, applied>>
    BY <1>3 DEF Execute
  <2> QED BY <1>0, <1>2, <2>1, Unnoticed
<1>4. CASE Matches(d)
  <2> DEFINE after == Patched(obj.tags, Patch(p))
             e == OperationOf(q, n + 1)
  <2>1. /\ obj' = [live |-> TRUE, gen |-> obj.gen, meta |-> obj.meta + 1, tags |-> after]
        /\ applied' = [applied EXCEPT ![d] = n + 1]
    BY <1>4 DEF Execute
  <2>2. obj'.gen = obj.gen /\ tagSet' = after
    <3> HIDE DEF after
    <3> QED BY <2>1 DEF tagSet
  <2>3. n + 1 \in Nat
    BY <1>0
  <2>4. AInv' /\ operations' = [operations EXCEPT ![d] = e]
    BY <1>2, <2>1, <2>3, OneMoves
  <2>5. ASSUME obj.gen = 1 PROVE Register!Step
    <3>1. p.gen = obj.gen /\ obj.meta = p.meta /\ obj.tags = p.seen /\ n = 0
      <4>1. p.gen \in Nat /\ p.gen <= obj.gen /\ obj.meta = p.meta
        BY <1>0, <1>4 DEF Matches, QInv, Snapshot, ReqType
      <4>2. p.gen = obj.gen
        BY <1>1, <2>5, <4>1
      <4> QED BY <1>0, <4>1, <4>2 DEF QInv, Snapshot, Once
    <3>2. after = p.want
      <4>1. CASE p.op = "PUT"
        <5>1. p.want \in TagSets /\ p.seen \in TagSets
          BY <1>0 DEF ReqType
        <5> QED BY <3>1, <4>1, <5>1, PatchIsExact DEF Patch
      <4>2. CASE p.op # "PUT"
        <5>1. DOMAIN NoTags = {}
          BY DEF NoTags
        <5> QED BY <1>0, <4>2, <5>1 DEF Patch, Patched, Asked
      <4> QED BY <4>1, <4>2
    <3>3. p.answer # "ok"
      BY <1>0, <1>1, <3>1 DEF QInv, Honest, ReqType, Writes
    <3> DEFINE phase == PhaseOf(p)
    <3>4. phase \in {"open", "error"}
      BY <3>3 DEF PhaseOf
    <3>5. o = [phase |-> phase, kind |-> p.op, want |-> p.want, applied |-> FALSE,
               got |-> NoTags]
      <4> DEFINE took == n > 0
      <4>1. took = FALSE
        BY <3>1
      <4>2. o = [phase |-> phase, kind |-> p.op, want |-> p.want, applied |-> took,
                 got |-> NoTags]
        BY <1>0, <1>1 DEF OperationOf
      <4> HIDE DEF o, phase, took
      <4> QED BY <4>1, <4>2
    <3>6. e = [phase |-> phase, kind |-> p.op, want |-> p.want, applied |-> TRUE,
               got |-> NoTags]
      <4> DEFINE took == n + 1 > 0
      <4>1. took = TRUE
        BY <1>0
      <4>2. PhaseOf(q) = phase
        BY DEF PhaseOf
      <4> HIDE DEF phase
      <4>3. e = [phase |-> phase, kind |-> p.op, want |-> p.want, applied |-> took,
                 got |-> NoTags]
        BY <1>1, <4>2 DEF OperationOf
      <4> HIDE DEF e, took
      <4> QED BY <4>1, <4>3
    <3>7. /\ e = [o EXCEPT !.applied = TRUE] /\ o.phase = phase /\ o.kind = p.op
          /\ o.want = p.want /\ o.applied = FALSE
      <4> DEFINE kind == p.op
                 want == p.want
                 no == FALSE
                 yes == TRUE
      <4>1. /\ o = [phase |-> phase, kind |-> kind, want |-> want, applied |-> no,
                    got |-> NoTags]
            /\ e = [phase |-> phase, kind |-> kind, want |-> want, applied |-> yes,
                    got |-> NoTags]
        BY <3>5, <3>6
      <4> HIDE DEF o, e, phase, kind, want, no, yes
      <4>2. /\ e = [o EXCEPT !.applied = yes] /\ o.phase = phase /\ o.kind = kind
            /\ o.want = want /\ o.applied = no
        BY ONLY <4>1
      <4> QED BY <4>2 DEF kind, want, no, yes
    <3>8. tagSet # Gone
      BY <1>0, <1>4, GoneAssumption DEF tagSet, Matches
    <3> HIDE DEF e, phase, after
    <3>9. operations' = [operations EXCEPT ![d].applied = TRUE]
      BY <2>4, <3>7
    <3>10. tagSet' = operations[d].want
      BY <2>2, <3>2, <3>7
    <3>11. Register!Take(d)
      BY <1>1, <3>4, <3>7, <3>8, <3>9, <3>10 DEF Register!Take, operations, tagSet
    <3> QED BY <3>11 DEF Register!Step
  <2> HIDE DEF e, after
  <2> QED BY <1>0, <2>2, <2>4, <2>5, UntilOverwritten
<1> QED BY <1>3, <1>4

LEMMA GCSStepImplements ==
  ASSUME OInv, AInv, GCSStep
  PROVE  AInv' /\ [Register!RNext]_(Register!rvars)
<1>0. /\ \A r \in Requests : req[r] \in ReqType /\ applied[r] \in Nat /\ Asked(req[r], applied[r])
      /\ req \in [Requests -> ReqType]
      /\ obj \in [live : BOOLEAN, gen : Nat, meta : Nat, tags : TagSets] /\ obj.gen > 0
  BY DEF OInv, AInv, TypeOK
<1>1. ASSUME NEW r \in Requests, Serve(r)
      PROVE  AInv' /\ [Register!RNext]_(Register!rvars)
  <2>1. PICK reply \in {"none", IF Matches(r) THEN "ok" ELSE "fail"} :
          req' = [req EXCEPT ![r].cur = FALSE, ![r].reply = reply]
    BY <1>1 DEF Serve
  <2> DEFINE q == [req[r] EXCEPT !.cur = FALSE, !.reply = reply]
  <2>2. q \in ReqType /\ req' = [req EXCEPT ![r] = q] /\ req[r] \in ReqType
    BY <1>0, <2>1 DEF ReqType
  <2>3. /\ q.pc = req[r].pc /\ q.op = req[r].op /\ q.want = req[r].want /\ q.gen = req[r].gen
        /\ q.seen = req[r].seen /\ q.answer = req[r].answer /\ ~q.cur /\ q.old = req[r].old
        /\ q.old <= req[r].old
    BY <2>2 DEF ReqType
  <2> HIDE DEF q
  <2> QED BY <1>1, <2>2, <2>3, ExecuteImplements DEF Serve
<1>2. ASSUME NEW r \in Requests, ServeOld(r)
      PROVE  AInv' /\ [Register!RNext]_(Register!rvars)
  <2> DEFINE q == [req[r] EXCEPT !.old = @ - 1]
  <2>1. q \in ReqType /\ req' = [req EXCEPT ![r] = q] /\ req[r] \in ReqType
    BY <1>0, <1>2 DEF ServeOld, ReqType
  <2>2. /\ q.pc = req[r].pc /\ q.op = req[r].op /\ q.want = req[r].want /\ q.gen = req[r].gen
        /\ q.seen = req[r].seen /\ q.answer = req[r].answer /\ q.cur = req[r].cur
        /\ q.old <= req[r].old
    BY <2>1 DEF ReqType
  <2> HIDE DEF q
  <2> QED BY <1>2, <2>1, <2>2, ExecuteImplements DEF ServeOld
<1>3. ASSUME NEW r \in Requests, Drop(r)
      PROVE  AInv' /\ [Register!RNext]_(Register!rvars)
  <2>1. ASSUME NEW q \in ReqType, req' = [req EXCEPT ![r] = q],
               q.pc = req[r].pc, q.op = req[r].op, q.want = req[r].want, q.gen = req[r].gen,
               q.seen = req[r].seen, q.answer = req[r].answer, q.cur => req[r].cur,
               q.old > 0 => req[r].old > 0, q.old = 0 \/ req[r].old > 0
        PROVE  AInv' /\ [Register!RNext]_(Register!rvars)
    <3>1. Asked(q, applied[r])
      <4>1. Asked(req[r], applied[r]) /\ req[r].old \in Nat /\ q.old \in Nat
        BY <1>0 DEF ReqType
      <4> QED BY <2>1, <4>1 DEF Asked
    <3> QED BY <1>3, <2>1, <3>1, Unnoticed DEF Drop
  <2>2. CASE req[r].cur /\ req' = [req EXCEPT ![r].cur = FALSE]
    <3> DEFINE q == [req[r] EXCEPT !.cur = FALSE]
    <3>1. q \in ReqType /\ req' = [req EXCEPT ![r] = q] /\ req[r] \in ReqType
      BY <1>0, <2>2 DEF ReqType
    <3>2. /\ q.pc = req[r].pc /\ q.op = req[r].op /\ q.want = req[r].want
          /\ q.gen = req[r].gen /\ q.seen = req[r].seen /\ q.answer = req[r].answer
          /\ ~q.cur /\ q.old = req[r].old /\ req[r].old \in Nat
      BY <3>1 DEF ReqType
    <3> HIDE DEF q
    <3>3. (q.old > 0 => req[r].old > 0) /\ (q.old = 0 \/ req[r].old > 0) /\ (q.cur => req[r].cur)
      BY <3>2
    <3> QED BY <2>1, <3>1, <3>2, <3>3
  <2>3. CASE req[r].old > 0 /\ req' = [req EXCEPT ![r].old = @ - 1]
    <3> DEFINE q == [req[r] EXCEPT !.old = @ - 1]
    <3>1. q \in ReqType /\ req' = [req EXCEPT ![r] = q] /\ req[r] \in ReqType
      BY <1>0, <2>3 DEF ReqType
    <3>2. /\ q.pc = req[r].pc /\ q.op = req[r].op /\ q.want = req[r].want
          /\ q.gen = req[r].gen /\ q.seen = req[r].seen /\ q.answer = req[r].answer
          /\ q.cur = req[r].cur
      BY <3>1 DEF ReqType
    <3> HIDE DEF q
    <3> QED BY <2>1, <2>3, <3>1, <3>2
  <2> QED BY <1>3, <2>2, <2>3 DEF Drop
<1>4. ASSUME UNCHANGED <<dryRun, req, applied>>
      PROVE  AInv' /\ UNCHANGED operations
  BY <1>4 DEF AInv, Asked, operations, OperationOf
<1>5. CASE Overwrite
  <2>1. obj'.gen = obj.gen + 1 /\ UNCHANGED <<dryRun, req, applied>>
    BY <1>5 DEF Overwrite
  <2>2. obj'.gen \in Nat /\ obj'.gen >= obj.gen /\ obj'.gen # 1
    BY <1>0, <2>1
  <2> QED BY <1>4, <2>1, <2>2, UntilOverwritten
<1>6. CASE Remove
  <2>1. obj'.gen = obj.gen /\ tagSet' = Gone /\ UNCHANGED <<dryRun, req, applied>>
    BY <1>6 DEF Remove, tagSet
  <2>2. Register!Vanish
    BY <1>4, <2>1 DEF Register!Vanish, tagSet, operations
  <2>3. Register!Step
    BY <2>2 DEF Register!Step
  <2> QED BY <1>0, <1>4, <2>1, <2>3, UntilOverwritten
<1>7. CASE OtherUpdate
  <2>1. obj'.gen = obj.gen /\ UNCHANGED tagSet /\ UNCHANGED <<dryRun, req, applied>>
    BY <1>7 DEF OtherUpdate, tagSet
  <2> QED BY <1>0, <1>4, <2>1, UntilOverwritten
<1> QED BY <1>1, <1>2, <1>3, <1>5, <1>6, <1>7 DEF GCSStep

LEMMA InitImplements == Init => AInv /\ Register!RInit
<1> SUFFICES ASSUME Init PROVE AInv /\ Register!RInit
  OBVIOUS
<1>1. \A r \in Requests : req[r] = Idle /\ applied[r] = 0
  BY DEF Init
<1>2. Asked(Idle, 0)
  BY DEF Asked, Idle
<1>3. OperationOf(Idle, 0) = Unmade
  BY DEF OperationOf, Idle
<1>4. operations = [r \in Requests |-> Register!Fresh]
  BY <1>1, <1>3 DEF operations, Unmade, Register!Fresh
<1>5. tagSet \in TagSets \cup {Gone} /\ ~(obj.gen > 1)
  BY OverwriteAssumption DEF Init, tagSet
<1> QED BY <1>1, <1>2, <1>4, <1>5 DEF AInv, Register!RInit, operations, tagSet

(* Until the object is overwritten, reading, patching and conditional      *)
(* updates of any number of requests, with retries and late attempts, are  *)
(* one atomic register with its PUT, GET and DELETE (handlePutObjectTagging, *)
(* handleGetObjectTagging, handleDeleteObjectTagging).                     *)
THEOREM HandlersImplementRegister == Spec => ImplementsRegister
<1>1. OInv /\ AInv /\ [Next]_vars => AInv' /\ [Register!RNext]_(Register!rvars)
  <2> SUFFICES ASSUME OInv, AInv, [Next]_vars
               PROVE  AInv' /\ [Register!RNext]_(Register!rvars)
    OBVIOUS
  <2>1. CASE UNCHANGED vars
    <3>1. UNCHANGED <<dryRun, obj, req, applied>>
      BY <2>1 DEF vars
    <3>2. AInv'
      BY <3>1 DEF AInv, Asked
    <3>3. UNCHANGED operations /\ UNCHANGED tagSet /\ obj'.gen = obj.gen
      BY <3>1 DEF operations, OperationOf, tagSet
    <3> QED BY <3>2, <3>3 DEF Register!rvars, operations, tagSet
  <2> QED BY <2>1, HandlerStepImplements, GCSStepImplements DEF Next
<1> QED BY <1>1, InitImplements, TaggingInvariant, PTL
        DEF Spec, ImplementsRegister, Register!RSpec
=============================================================================
