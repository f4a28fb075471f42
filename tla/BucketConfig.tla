-------------------------- MODULE BucketConfig ---------------------------
(***************************************************************************)
(* PUT, GET and DELETE of the bucket subresources ?lifecycle, ?cors,       *)
(* ?logging and ?website: twelve handlers of one shape. A write translates *)
(* its document to one field of a BucketAttrsToUpdate and calls            *)
(* bucket.Update, without a condition: the storage SDK does not repeat     *)
(* such a call, but GCS may execute it after the handler has given up.     *)
(* A read calls bucket.Attrs and translates the field back.                *)
(*                                                                         *)
(* The environment is GCS, the network, and whoever else administers the   *)
(* bucket. A configuration is one opaque value here: how its rules are     *)
(* translated is not modelled, only whether it sets, clears or keeps.      *)
(***************************************************************************)
EXTENDS Naturals

CONSTANTS
  Requests,     \* requests, each of which is made once
  Subs,         \* the subresources in use
  Values,       \* configurations with something in them
  Nothing,      \* no configuration
  Empty,        \* a document without rules, or without its one section
  Blank,        \* a document with a section that says nothing: no enabled rule, ...
  Unsupported,  \* a lifecycle document with filters or dates that have no translation
  Keep,         \* the patch does not name the field
  Refused       \* the translation returned an error

Configs == Values \cup {Nothing}
Special == {Nothing, Empty, Blank, Unsupported, Keep, Refused}

ASSUME SubsAssumption == Subs \subseteq {"lifecycle", "cors", "logging", "website"}

ASSUME ConfigAssumption ==
  Values \cap Special = {} /\ Nothing \notin {Empty, Blank, Unsupported, Keep, Refused}
    /\ Keep # Refused

(* Operators named Mut... are plausible bugs in the definition that        *)
(* follows them; nothing uses them.                                        *)

VARIABLES
  dryRun,   \* config.Config.DryRun
  config,   \* the bucket's attributes in GCS
  req,      \* per request: the handler's goroutine and its SDK call
  applied   \* history: how often GCS executed the call of a request

vars == <<dryRun, config, req, applied>>

Documents(sub) ==
  Values \cup {Empty}
    \cup (IF sub = "cors" THEN {} ELSE {Blank})
    \cup (IF sub = "lifecycle" THEN {Unsupported} ELSE {})

Idle == [pc |-> "idle", op |-> "GET", sub |-> "none", doc |-> Empty, patch |-> Nothing,
         out |-> FALSE, reply |-> "none", seen |-> Nothing, answer |-> "none"]

(* out: the call is on its way to GCS, whether or not anybody still waits. *)
ReqType ==
  [pc : {"idle", "call", "done"}, op : {"PUT", "GET", "DELETE"}, sub : Subs \cup {"none"},
   doc : Values \cup {Empty, Blank, Unsupported}, patch : Configs \cup {Keep},
   out : BOOLEAN, reply : {"none", "ok", "fail"}, seen : Configs,
   answer : {"none", "ok", "NoSuchConfiguration", "InternalError", "rejected"}]

TypeOK ==
  /\ dryRun \in BOOLEAN
  /\ config \in [Subs -> Configs]
  /\ req \in [Requests -> ReqType]
  /\ applied \in [Requests -> Nat]

Init ==
  /\ dryRun \in BOOLEAN
  /\ config \in [Subs -> Configs]
  /\ req = [r \in Requests |-> Idle]
  /\ applied = [r \in Requests |-> 0]

-----------------------------------------------------------------------------
(* What a document becomes in the patch. A pointer or slice that stays nil *)
(* is not sent; an empty Lifecycle or BucketWebsite clears the field.      *)

TranslateS3ToGCSLifecycle(doc) ==
  IF doc = Unsupported THEN Refused ELSE IF doc \in Values THEN doc ELSE Nothing

TranslateS3ToGCSCors(doc) == IF doc \in Values THEN doc ELSE Keep

TranslateS3ToGCSLogging(doc) ==
  IF doc = Empty THEN Keep ELSE IF doc \in Values THEN doc ELSE Nothing

TranslateS3ToGCSWebsite(doc) == IF doc \in Values THEN doc ELSE Nothing

Translate(sub, doc) ==
  CASE sub = "lifecycle" -> TranslateS3ToGCSLifecycle(doc)
    [] sub = "cors"      -> TranslateS3ToGCSCors(doc)
    [] sub = "logging"   -> TranslateS3ToGCSLogging(doc)
    [] sub = "website"   -> TranslateS3ToGCSWebsite(doc)

-----------------------------------------------------------------------------
(* The handlers.                                                           *)

Answered(r, answer) == req' = [req EXCEPT ![r].pc = "done", ![r].answer = answer]

GCSKeeps == UNCHANGED <<dryRun, config, applied>>

(* A GET of something that is not there: 404 for lifecycle and website, an *)
(* empty document for the other two.                                       *)
GetAnswer(sub, value) ==
  IF value = Nothing /\ sub \in {"lifecycle", "website"} THEN "NoSuchConfiguration" ELSE "ok"

(* The document does not decode (PUT), or the path names no bucket. *)
Reject(r) ==
  /\ req[r].pc = "idle"
  /\ Answered(r, "rejected")
  /\ GCSKeeps

(* Everything before the SDK call; DRY_RUN answers without one. *)
Call(r, op, sub, doc, patch) ==
  req' = [req EXCEPT ![r] =
    [pc |-> IF dryRun THEN "done" ELSE "call", op |-> op, sub |-> sub, doc |-> doc,
     patch |-> patch, out |-> ~dryRun, reply |-> "none", seen |-> Nothing,
     answer |-> IF ~dryRun THEN "none"
                ELSE IF op = "GET" THEN GetAnswer(sub, Nothing) ELSE "ok"]]

(* handlePut...: decode, bucket, translate, bucket.Update. *)
Put(r, sub, doc) ==
  /\ req[r].pc = "idle" /\ doc \in Documents(sub)
  /\ \/ Translate(sub, doc) = Refused /\ Answered(r, "rejected")
     \/ /\ Translate(sub, doc) # Refused
        /\ Call(r, "PUT", sub, doc, Translate(sub, doc))
  /\ GCSKeeps

(* handleDelete...: bucket.Update with an empty field that is not nil. *)
MutDelete(r, sub) ==
  req[r].pc = "idle" /\ Call(r, "DELETE", sub, Empty, Translate(sub, Empty)) /\ GCSKeeps
Delete(r, sub) ==
  req[r].pc = "idle" /\ Call(r, "DELETE", sub, Empty, Nothing) /\ GCSKeeps

(* handleGet...: bucket.Attrs. *)
Get(r, sub) ==
  req[r].pc = "idle" /\ Call(r, "GET", sub, Empty, Keep) /\ GCSKeeps

(* The SDK call returns. *)
Return(r) ==
  /\ req[r].pc = "call" /\ req[r].reply # "none"
  /\ Answered(r, IF req[r].reply = "fail" THEN "InternalError"
                 ELSE IF req[r].op = "GET" THEN GetAnswer(req[r].sub, req[r].seen)
                 ELSE "ok")
  /\ GCSKeeps

(* GCS_CALL_TIMEOUT_SEC has passed, or the client has gone away. *)
MutTimeout(r) ==
  /\ req[r].pc = "call" /\ req[r].reply = "none" /\ req[r].out
  /\ Answered(r, "InternalError")
  /\ GCSKeeps
Timeout(r) ==
  /\ req[r].pc = "call" /\ req[r].reply = "none"
  /\ Answered(r, "InternalError")
  /\ GCSKeeps

-----------------------------------------------------------------------------
(* GCS and the network.                                                    *)

(* A patch changes the one field it names. *)
MutPatched(sub, patch) == [config EXCEPT ![sub] = patch]
Patched(sub, patch) ==
  IF patch = Keep THEN config ELSE [config EXCEPT ![sub] = patch]

(* A call is executed; the answer arrives, or the connection breaks. Once  *)
(* the handler has given up, nobody looks at the answer.                   *)
Serve(r) ==
  /\ req[r].out
  /\ config' = Patched(req[r].sub, req[r].patch)
  /\ applied' = [applied EXCEPT ![r] = @ + 1]
  /\ \E reply \in IF req[r].pc = "call" THEN {"ok", "fail"} ELSE {"none"} :
       req' = [req EXCEPT ![r].out = FALSE, ![r].reply = reply,
                          ![r].seen = IF req[r].op = "GET" THEN config[req[r].sub] ELSE @]
  /\ UNCHANGED dryRun

(* A call is refused (no such bucket, no permission, 5xx). *)
Refuse(r) ==
  /\ req[r].out /\ req[r].pc = "call"
  /\ req' = [req EXCEPT ![r].out = FALSE, ![r].reply = "fail"]
  /\ GCSKeeps

(* A call is lost and no answer comes. *)
Drop(r) ==
  /\ req[r].out
  /\ req' = [req EXCEPT ![r].out = FALSE]
  /\ GCSKeeps

(* Someone else configures the bucket. *)
Administer(sub, value) ==
  /\ value # config[sub]
  /\ config' = [config EXCEPT ![sub] = value]
  /\ UNCHANGED <<dryRun, req, applied>>

-----------------------------------------------------------------------------
(* The three handlers of one subresource.                                  *)
Handlers(r, sub) ==
  \/ Get(r, sub)
  \/ Delete(r, sub)
  \/ \E doc \in Documents(sub) : Put(r, sub, doc)

Lifecycle(r) == "lifecycle" \in Subs /\ Handlers(r, "lifecycle")
CORS(r)      == "cors" \in Subs /\ Handlers(r, "cors")
Logging(r)   == "logging" \in Subs /\ Handlers(r, "logging")
Website(r)   == "website" \in Subs /\ Handlers(r, "website")

HandlerStep(r) ==
  \/ Reject(r) \/ Return(r) \/ Timeout(r)
  \/ Lifecycle(r) \/ CORS(r) \/ Logging(r) \/ Website(r)
GCSStep ==
  \/ \E r \in Requests : Serve(r) \/ Refuse(r) \/ Drop(r)
  \/ \E sub \in Subs, value \in Configs : Administer(sub, value)

Next == (\E r \in Requests : HandlerStep(r)) \/ GCSStep

(* timeGCSCall puts a deadline on every call, so that it returns even when *)
(* GCS is silent; nothing is assumed of GCS or of the network.             *)
Fairness == \A r \in Requests : WF_vars(Return(r) \/ Timeout(r))

Spec == Init /\ [][Next]_vars /\ Fairness

-----------------------------------------------------------------------------
(* Properties.                                                             *)

(* Every request is answered, even if GCS never replies (timeGCSCall): as   *)
(* each is made once, there is always a later moment when nobody waits.    *)
EveryRequestAnswered == []<>(\A r \in Requests : req[r].pc # "call")

(* A PUT whose document translates to nothing, and a request that makes no *)
(* call, promise nothing and map to no operation.                          *)
Promises(q) ==
  /\ ~dryRun /\ q.pc # "idle" /\ q.answer # "rejected"
  /\ q.op = "PUT" => q.patch # Keep

PhaseOf(q) ==
  IF q.pc = "call" THEN "open" ELSE IF q.answer = "InternalError" THEN "error" ELSE "ok"

(* What an S3 client means by a document: one that says nothing clears. *)
Meant(q) == IF q.op = "PUT" /\ q.doc \in Values THEN q.doc ELSE Nothing

Unmade == [phase |-> "idle", kind |-> "GET", sub |-> "none", want |-> Nothing,
           done |-> FALSE, got |-> Nothing]

OperationOf(q, times) ==
  IF ~Promises(q) THEN Unmade
  ELSE [phase |-> PhaseOf(q), kind |-> q.op, sub |-> q.sub, want |-> Meant(q),
        done |-> times > 0, got |-> IF q.op = "GET" THEN q.seen ELSE Nothing]

Registers == INSTANCE ConfigRegister WITH
  registers <- config, op <- [r \in Requests |-> OperationOf(req[r], applied[r])]

(* The twelve handlers and GCS implement one register per subresource: a   *)
(* request that is answered with success took effect exactly once, on its  *)
(* own subresource and with its own configuration, before the answer; what *)
(* a GET shows was there during the GET; only requests answered with an    *)
(* error can surprise later.                                               *)
ImplementsRegisters == Registers!CSpec

(* e2e_tests/control_plane_test.go:201-220: a PUT ?logging without          *)
(* LoggingEnabled is how S3 clients disable logging; once it has been      *)
(* executed there is no logging configuration. The nil it translates to    *)
(* (gcs_logging.go:13) is not sent, and the PUT succeeds.                  *)
EmptyStatusDisables ==
  [][\A r \in Requests :
       /\ applied'[r] > applied[r] /\ req[r].op = "PUT"
       /\ req[r].sub = "logging" /\ req[r].doc = Empty
       => config'["logging"] = Nothing]_vars
=============================================================================
