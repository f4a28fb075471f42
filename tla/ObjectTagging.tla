-------------------------- MODULE ObjectTagging --------------------------
(***************************************************************************)
(* PUT, GET and DELETE ?tagging on one object. The handlers keep the tags  *)
(* in the object's GCS contexts: they read the object's attributes, build  *)
(* a patch from them, and send the patch on the condition that the         *)
(* metageneration is still the one they read. The storage SDK repeats a    *)
(* conditional update whose reply is lost; a call that exceeds its         *)
(* deadline is given up, and GCS may still execute it later.               *)
(*                                                                         *)
(* The environment is GCS: the object, whoever overwrites or removes it or *)
(* changes its other metadata, and the network.                            *)
(***************************************************************************)
EXTENDS Naturals

CONSTANTS
  Requests,       \* requests, each of which is made once
  Keys, Values,   \* tag keys and values
  Delete,         \* the Delete marker of a context in a patch
  Gone,           \* stands for the tag set of an object that is not there
  OverwriteTags,  \* the contexts a newly written object may carry
  MaxGen,         \* bound: generations of the object
  MaxMeta,        \* bound: metageneration that other writers drive it to
  MaxOld          \* bound: abandoned attempts of one call still in the network

TagSets == UNION {[K -> Values] : K \in SUBSET Keys}
NoTags == [k \in {} |-> Delete]

ASSUME DeleteAssumption == Delete \notin Values
ASSUME GoneAssumption == Gone \notin TagSets
ASSUME OverwriteAssumption == OverwriteTags \subseteq TagSets
ASSUME BoundAssumption ==
  MaxGen \in Nat \ {0} /\ MaxMeta \in Nat \ {0} /\ MaxOld \in Nat

(* Operators named Mut... are plausible bugs in the definition that        *)
(* follows them; nothing uses them.                                        *)

VARIABLES
  dryRun,   \* config.Config.DryRun
  obj,      \* the object in GCS: is it there, its generation, metageneration, tags
  req,      \* per request: the handler's goroutine and its SDK call
  applied   \* history: how often GCS executed the update of a request

vars == <<dryRun, obj, req, applied>>

Writes == {"PUT", "DELETE"}

Idle == [pc |-> "idle", op |-> "GET", want |-> NoTags, gen |-> 0, meta |-> 0,
         seen |-> NoTags, cur |-> FALSE, old |-> 0, reply |-> "none", answer |-> "none"]

ReqType ==
  [pc : {"idle", "read", "update", "done"}, op : Writes \cup {"GET"}, want : TagSets,
   gen : Nat, meta : Nat, seen : TagSets, cur : BOOLEAN, old : Nat,
   reply : {"none", "ok", "fail"},
   answer : {"none", "ok", "NoSuchKey", "InternalError", "rejected"}]

TypeOK ==
  /\ dryRun \in BOOLEAN
  /\ obj \in [live : BOOLEAN, gen : Nat, meta : Nat, tags : TagSets]
  /\ req \in [Requests -> ReqType]
  /\ applied \in [Requests -> Nat]

Init ==
  /\ dryRun \in BOOLEAN
  /\ obj \in [live : BOOLEAN, gen : {1}, meta : {1}, tags : OverwriteTags]
  /\ req = [r \in Requests |-> Idle]
  /\ applied = [r \in Requests |-> 0]

-----------------------------------------------------------------------------
(* TranslateS3ToGCSContexts: a delete marker for every key that was there, *)
(* overridden by the tags that are wanted.                                 *)
MutContexts(want, existing) == want
TranslateS3ToGCSContexts(want, existing) ==
  [k \in DOMAIN want \cup DOMAIN existing |->
     IF k \in DOMAIN want THEN want[k] ELSE Delete]

(* The patch a request sends: DELETE sends an empty Custom map. *)
Patch(q) ==
  IF q.op = "PUT" THEN TranslateS3ToGCSContexts(q.want, q.seen) ELSE NoTags

(* What the SDK and GCS make of a patch: an empty map clears every context, otherwise *)
(* each entry deletes or sets its key and the other keys stay.             *)
MutPatched(tags, patch) ==
  [k \in DOMAIN tags \cup DOMAIN patch |-> IF k \in DOMAIN patch THEN patch[k] ELSE tags[k]]
Patched(tags, patch) ==
  LET after == {k \in DOMAIN tags \cup DOMAIN patch : k \in DOMAIN patch => patch[k] # Delete}
  IN  IF DOMAIN patch = {} THEN NoTags
      ELSE [k \in after |-> IF k \in DOMAIN patch THEN patch[k] ELSE tags[k]]

-----------------------------------------------------------------------------
(* The handlers.                                                           *)

Answered(r, answer) ==
  req' = [req EXCEPT ![r].pc = "done", ![r].answer = answer]

(* The body decodes and the path names a bucket and an object; DRY_RUN     *)
(* answers at once, otherwise obj.Attrs is called.                         *)
Begin(r, op, want) ==
  /\ req[r].pc = "idle"
  /\ req' = [req EXCEPT
       ![r].op = op, ![r].want = want,
       ![r].pc = IF dryRun THEN "done" ELSE "read",
       ![r].answer = IF dryRun THEN "ok" ELSE "none"]
  /\ UNCHANGED <<dryRun, obj, applied>>

(* decodeControlPlaneXML or the path check has written a 4xx. *)
Reject(r) ==
  /\ req[r].pc = "idle"
  /\ Answered(r, "rejected")
  /\ UNCHANGED <<dryRun, obj, applied>>

(* obj.Attrs returns. GET answers with the tags; a write builds its patch  *)
(* from them and calls Update with If(MetagenerationMatch).                *)
MutReadAttrs(r) ==
  /\ req[r].pc = "read" /\ obj.live
  /\ req' = [req EXCEPT
       ![r].gen = obj.gen, ![r].meta = obj.meta,
       ![r].pc = IF req[r].op = "GET" THEN "done" ELSE "update",
       ![r].cur = req[r].op # "GET",
       ![r].answer = IF req[r].op = "GET" THEN "ok" ELSE "none"]
  /\ UNCHANGED <<dryRun, obj, applied>>
ReadAttrs(r) ==
  /\ req[r].pc = "read" /\ obj.live
  /\ req' = [req EXCEPT
       ![r].gen = obj.gen, ![r].meta = obj.meta, ![r].seen = obj.tags,
       ![r].pc = IF req[r].op = "GET" THEN "done" ELSE "update",
       ![r].cur = req[r].op # "GET",
       ![r].answer = IF req[r].op = "GET" THEN "ok" ELSE "none"]
  /\ UNCHANGED <<dryRun, obj, applied>>

(* obj.Attrs fails, for whatever reason or by its deadline: NoSuchKey. *)
ReadFails(r) ==
  /\ req[r].pc = "read"
  /\ Answered(r, "NoSuchKey")
  /\ UNCHANGED <<dryRun, obj, applied>>

(* The SDK sees a retryable error or a dead connection and sends again.    *)
Retry(r) ==
  /\ req[r].pc = "update" /\ req[r].reply = "none"
  /\ \/ ~req[r].cur /\ req' = [req EXCEPT ![r].cur = TRUE]
     \/ req[r].cur /\ req[r].old < MaxOld /\ req' = [req EXCEPT ![r].old = @ + 1]
  /\ UNCHANGED <<dryRun, obj, applied>>

(* Update returns: a precondition that failed is an error like any other. *)
MutFinish(r) ==
  /\ req[r].pc = "update" /\ req[r].reply # "none"
  /\ Answered(r, "ok")
  /\ UNCHANGED <<dryRun, obj, applied>>
Finish(r) ==
  /\ req[r].pc = "update" /\ req[r].reply # "none"
  /\ Answered(r, IF req[r].reply = "ok" THEN "ok" ELSE "InternalError")
  /\ UNCHANGED <<dryRun, obj, applied>>

(* GCS_CALL_TIMEOUT_SEC has passed, or the client has gone away. *)
Timeout(r) ==
  /\ req[r].pc = "update" /\ req[r].reply = "none"
  /\ req' = [req EXCEPT ![r].pc = "done", ![r].answer = "InternalError", ![r].cur = FALSE,
                        ![r].old = IF req[r].cur THEN @ + 1 ELSE @]
  /\ UNCHANGED <<dryRun, obj, applied>>

-----------------------------------------------------------------------------
(* GCS.                                                                    *)

MutMatches(r) == obj.live
Matches(r) == obj.live /\ obj.meta = req[r].meta

(* GCS executes one attempt of r's update. *)
Execute(r) ==
  IF Matches(r)
  THEN /\ obj' = [live |-> TRUE, gen |-> obj.gen, meta |-> obj.meta + 1,
                  tags |-> Patched(obj.tags, Patch(req[r]))]
       /\ applied' = [applied EXCEPT ![r] = @ + 1]
  ELSE UNCHANGED <<obj, applied>>

(* ... the attempt the SDK is waiting for: its reply arrives or is lost. *)
Serve(r) ==
  /\ req[r].pc = "update" /\ req[r].cur
  /\ Execute(r)
  /\ \E reply \in {"none", IF Matches(r) THEN "ok" ELSE "fail"} :
       req' = [req EXCEPT ![r].cur = FALSE, ![r].reply = reply]
  /\ UNCHANGED dryRun

(* ... an attempt nobody waits for any more. *)
ServeOld(r) ==
  /\ req[r].old > 0
  /\ Execute(r)
  /\ req' = [req EXCEPT ![r].old = @ - 1]
  /\ UNCHANGED dryRun

(* An attempt is lost in the network. *)
Drop(r) ==
  /\ \/ req[r].cur /\ req' = [req EXCEPT ![r].cur = FALSE]
     \/ req[r].old > 0 /\ req' = [req EXCEPT ![r].old = @ - 1]
  /\ UNCHANGED <<dryRun, obj, applied>>

(* PutObject, CopyObject, ...: a new generation, metageneration 1. *)
Overwrite ==
  /\ obj.gen < MaxGen
  /\ \E tags \in OverwriteTags :
       obj' = [live |-> TRUE, gen |-> obj.gen + 1, meta |-> 1, tags |-> tags]
  /\ UNCHANGED <<dryRun, req, applied>>

Remove ==
  /\ obj.live
  /\ obj' = [live |-> FALSE, gen |-> obj.gen, meta |-> obj.meta, tags |-> obj.tags]
  /\ UNCHANGED <<dryRun, req, applied>>

(* Someone changes other metadata of the object. *)
OtherUpdate ==
  /\ obj.live /\ obj.meta < MaxMeta
  /\ obj' = [live |-> TRUE, gen |-> obj.gen, meta |-> obj.meta + 1, tags |-> obj.tags]
  /\ UNCHANGED <<dryRun, req, applied>>

-----------------------------------------------------------------------------
(* handlePutObjectTagging is Begin, ReadAttrs and Finish;                  *)
(* handleGetObjectTagging ends in ReadAttrs; handleDeleteObjectTagging is  *)
(* like PUT, with no document to decode and a patch of its own.            *)
HandlerStep(r) ==
  \/ \E want \in TagSets : Begin(r, "PUT", want)
  \/ \E op \in {"GET", "DELETE"} : Begin(r, op, NoTags)
  \/ Reject(r) \/ ReadAttrs(r) \/ ReadFails(r) \/ Retry(r) \/ Finish(r) \/ Timeout(r)
GCSStep == \/ \E r \in Requests : Serve(r) \/ ServeOld(r) \/ Drop(r)
           \/ Overwrite \/ Remove \/ OtherUpdate

Next == (\E r \in Requests : HandlerStep(r)) \/ GCSStep

(* timeGCSCall puts a deadline on both calls, so they return even when GCS *)
(* is silent; nothing is assumed of GCS or of the network.                 *)
Fairness ==
  \A r \in Requests : WF_vars(ReadFails(r)) /\ WF_vars(Finish(r) \/ Timeout(r))

Spec == Init /\ [][Next]_vars /\ Fairness

-----------------------------------------------------------------------------
(* Properties.                                                             *)

Wanted(q) == IF q.op = "PUT" THEN q.want ELSE NoTags

(* What optimistic concurrency rests on: as long as the object is the one  *)
(* the handler read, an unchanged metageneration means unchanged tags, so  *)
(* a patch computed from them is still the right one. (Before the read     *)
(* both numbers of a request are 0, which no object has.)                  *)
SameMetaSameTags ==
  \A r \in Requests :
    obj.gen = req[r].gen /\ obj.meta = req[r].meta => obj.tags = req[r].seen

(* An update that GCS executes on the object the handler read leaves it    *)
(* with exactly the tag set of the request: no tag of a concurrent request *)
(* survives in it, none is lost (handlePutObjectTagging, the delete        *)
(* markers of TranslateS3ToGCSContexts, the empty map of DELETE).          *)
ExactOnSameObject ==
  [][\A r \in Requests :
       applied'[r] > applied[r] /\ obj.gen = req[r].gen
       => obj'.tags = Wanted(req[r])]_vars

(* Repeating a conditional update, or one that was given up arriving late, *)
(* does not apply it again while the object is the one that was read.      *)
RetryIsIdempotent ==
  \A r \in Requests : applied[r] > 1 => obj.gen > req[r].gen

(* A write that reports success was executed; one that reports a failed    *)
(* read was not and never will be.                                         *)
AnswersAreHonest ==
  \A r \in Requests : req[r].op \in Writes /\ ~dryRun =>
    /\ req[r].answer = "ok" => applied[r] > 0
    /\ req[r].answer \in {"NoSuchKey", "rejected"} => applied[r] = 0

(* Until the object is overwritten, the three handlers implement one       *)
(* atomic register. A request that never gets to GCS makes no promise.     *)
PhaseOf(q) ==
  IF q.pc \in {"read", "update"} THEN "open" ELSE IF q.answer = "ok" THEN "ok" ELSE "error"

Unmade == [phase |-> "idle", kind |-> "GET", want |-> NoTags, applied |-> FALSE,
           got |-> NoTags]

OperationOf(q, times) ==
  IF dryRun \/ q.pc = "idle" \/ q.answer = "rejected" THEN Unmade
  ELSE [phase |-> PhaseOf(q), kind |-> q.op, want |-> q.want, applied |-> times > 0,
        got |-> IF q.op = "GET" THEN q.seen ELSE NoTags]

Register == INSTANCE TagRegister WITH
  register <- IF obj.live THEN obj.tags ELSE Gone,
  replaced <- obj.gen > 1,
  op <- [r \in Requests |-> OperationOf(req[r], applied[r])]

(* Every behaviour of the handlers and of GCS is one of TagRegister. *)
ImplementsRegister == Register!RSpec

(* solutions.md:67: PUT is a read-modify-write under optimistic            *)
(* concurrency control that removes every key not in the incoming TagSet.  *)
(* The condition names the metageneration alone, which starts again at 1   *)
(* when the object is overwritten.                                         *)
PutReplacesTagSet ==
  [][\A r \in Requests :
       applied'[r] > applied[r] /\ req[r].op = "PUT"
       => obj'.tags = req[r].want]_vars
=============================================================================
