----------------------------- MODULE Dispatch ----------------------------
(***************************************************************************)
(* Where one authenticated request goes: the two routers take out what is  *)
(* not for S3, handleS3Request checks the storage class and the body's     *)
(* framing, tries the subresource handlers and the feature gates in their  *)
(* order, and leaves the rest to the reverse proxy, whose Director         *)
(* addresses GCS. Beside it, WithMetrics and the request log decide from   *)
(* the same URL how the request will be counted and what it is called.     *)
(*                                                                         *)
(* A path is the sequence of its segments between slashes: "/b/k/" is      *)
(* <<"b", "k", "">>, "/" is <<"">>; no segment contains a slash. A query   *)
(* parameter is its name and whether it is spelled as S3 spells it or in   *)
(* another case.                                                           *)
(***************************************************************************)
EXTENDS Naturals, Sequences, FiniteSets

CONSTANTS
  Shapes,    \* the requests considered
  FlagSets,  \* the sets of enabled features considered
  NoBucket   \* no bucket: not in the Host header, or not in the path

(* An empty segment, or a header that is not there. *)
Blank == ""

Methods == {"GET", "HEAD", "PUT", "POST", "DELETE"}
Subresources == <<"lifecycle", "cors", "logging", "website", "tagging">>
ObjectLevel == {"tagging", "restore"}

(* The gates of handleS3Request, in their order. *)
Gates == Subresources \o <<"restore", "copy_object", "multipart_upload", "delete_objects">>
Features == {Gates[i] : i \in 1..Len(Gates)}
Controls == {Subresources[i] : i \in 1..Len(Subresources)} \cup {"restore"}
Params ==
  Controls \cup {"uploads", "uploadId", "partNumber", "delete", "acl", "versioning"}

(* translateS3StorageClass *)
ClassTable ==
  [STANDARD |-> "STANDARD", REDUCED_REDUNDANCY |-> "STANDARD", STANDARD_IA |-> "NEARLINE",
   ONEZONE_IA |-> "NEARLINE", GLACIER_IR |-> "COLDLINE", GLACIER |-> "ARCHIVE",
   DEEP_ARCHIVE |-> "ARCHIVE", INTELLIGENT_TIERING |-> "AUTOCLASS"]

ASSUME DispatchAssumption ==
  /\ \A shape \in Shapes :
       /\ DOMAIN shape = {"method", "host", "path", "params", "copy", "class", "chunked"}
       /\ shape.method \in Methods /\ shape.params \subseteq Params \X {"exact", "folded"}
       /\ shape.path \in Seq(STRING) /\ Len(shape.path) > 0 /\ shape.host # Blank
       /\ \A i \in 1..Len(shape.path) : shape.path[i] # NoBucket
  /\ \A flags \in FlagSets : flags \subseteq Features

(* Operators named Mut... are plausible bugs in the definition that        *)
(* follows them; nothing uses them.                                        *)

VARIABLES
  q,        \* the request
  enabled,  \* config.Config.Features
  outcome   \* what became of it, and which object it met there

vars == <<q, enabled, outcome>>

Pending == [kind |-> "pending", by |-> "none", bucket |-> NoBucket, key |-> <<>>, class |-> Blank]

Init == q \in Shapes /\ enabled \in FlagSets /\ outcome = Pending

-----------------------------------------------------------------------------
(* Reading the request.                                                    *)

(* strings.EqualFold, for each parameter of the query *)
HasQueryParam(name) == \E spelling \in {"exact", "folded"} : <<name, spelling>> \in q.params

(* strings.Trim(path, "/"): without empty segments at either end *)
MutTrimmed(path) == path
Trimmed(path) ==
  LET named == {i \in 1..Len(path) : path[i] # Blank}
  IN  IF named = {} THEN <<>>
      ELSE SubSeq(path, CHOOSE i \in named : \A j \in named : i <= j,
                        CHOOSE i \in named : \A j \in named : j <= i)

MutApplies(g) ==
  \/ g \in Controls /\ HasQueryParam(g)
  \/ g = "copy_object" /\ q.method = "PUT" /\ q.copy
  \/ g = "multipart_upload" /\ (HasQueryParam("uploads") \/ HasQueryParam("uploadId"))
  \/ g = "delete_objects" /\ q.method = "POST" /\ HasQueryParam("delete")
Applies(g) ==
  \/ g \in Controls /\ HasQueryParam(g)
  \/ g = "copy_object" /\ q.method = "PUT" /\ q.copy
  \/ g = "multipart_upload" /\ \E p \in {"uploads", "uploadId", "partNumber"} : HasQueryParam(p)
  \/ g = "delete_objects" /\ q.method = "POST" /\ HasQueryParam("delete")

(* A subresource with a verb it does not know is left to the next gate. *)
Handles(g) ==
  \/ g = "restore"
  \/ g \in Controls /\ q.method \in {"PUT", "GET", "DELETE"}

StopsAt(g) == Applies(g) /\ (g \notin enabled \/ Handles(g))

(* The first gate that does not let the request pass. *)
StoppedBy(g) ==
  \E i \in 1..Len(Gates) :
    Gates[i] = g /\ StopsAt(g) /\ \A j \in 1..(i - 1) : ~StopsAt(Gates[j])

(* http.ServeMux redirects to a path without empty segments, but the last. *)
MutClean(path) == TRUE
Clean(path) == \A i \in 1..(Len(path) - 1) : path[i] # Blank

(* Routes of their own, registered whether or not their feature is on.     *)
Operational == {"health", "readyz", "metrics"}
Claimed ==
  \/ q.path = <<"metrics">>
  \/ q.method = "GET" /\ q.path \in {<<"health">>, <<"readyz">>}

MutAccepted == (q.method = "PUT" => q.class \in DOMAIN ClassTable \cup {Blank}) /\ ~q.chunked
Accepted == q.class \in DOMAIN ClassTable \cup {Blank} /\ ~q.chunked

-----------------------------------------------------------------------------
Is(kind, by, bucket, key, class) ==
  /\ outcome = Pending
  /\ outcome' = [kind |-> kind, by |-> by, bucket |-> bucket, key |-> key, class |-> class]
  /\ UNCHANGED <<q, enabled>>

(* rootMux, then the routes of its chi router. *)
Redirect == ~Clean(q.path) /\ Is("redirected", "none", NoBucket, <<>>, Blank)
Operate == Clean(q.path) /\ Claimed /\ Is("operational", "none", NoBucket, <<>>, Blank)
Routed == Clean(q.path) /\ ~Claimed

(* InvalidStorageClass, or aws-chunked framing. *)
Reject == Routed /\ ~Accepted /\ Is("rejected", "none", NoBucket, <<>>, Blank)

(* ensureFeatureEnabled: 501 *)
RejectDisabled(g) ==
  /\ Routed /\ Accepted /\ StoppedBy(g) /\ g \notin enabled
  /\ Is("disabled", g, NoBucket, <<>>, Blank)

(* parseBucketFromPath: the bucket-level handlers *)
HandleBucket(g) ==
  /\ Routed /\ Accepted /\ StoppedBy(g) /\ g \in enabled /\ g \in Controls \ ObjectLevel
  /\ \/ Trimmed(q.path) = <<>> /\ Is("invalid", g, NoBucket, <<>>, Blank)
     \/ Trimmed(q.path) # <<>> /\ Is("handled", g, Trimmed(q.path)[1], <<>>, Blank)

(* The tagging and restore handlers split the trimmed path themselves; the *)
(* first segment of the key must not be empty.                             *)
MutObjectPath(path) ==
  IF Len(Trimmed(path)) > 2 THEN SubSeq(Trimmed(path), 1, 2) ELSE Trimmed(path)
ObjectPath(path) == Trimmed(path)

HandleObject(g) ==
  /\ Routed /\ Accepted /\ StoppedBy(g) /\ g \in enabled \cap ObjectLevel
  /\ LET named == Len(ObjectPath(q.path)) >= 2 /\ ObjectPath(q.path)[2] # Blank
     IN  \/ g = "restore" /\ q.method # "POST" /\ Is("refused", g, NoBucket, <<>>, Blank)
         \/ /\ g = "restore" => q.method = "POST"
            /\ ~named /\ Is("invalid", g, NoBucket, <<>>, Blank)
         \/ /\ g = "restore" => q.method = "POST"
            /\ named /\ Is("handled", g, ObjectPath(q.path)[1], Tail(ObjectPath(q.path)), Blank)

(* The Director turns virtual-hosted into path style. *)
Rewritten == IF q.host = NoBucket THEN q.path ELSE <<q.host>> \o q.path

(* An empty rest of the path is no key. *)
KeyIn(path) == IF Tail(path) = <<Blank>> THEN <<>> ELSE Tail(path)
BucketIn(path) == IF path[1] = Blank THEN NoBucket ELSE path[1]

(* The Director translates the storage class, if it knows it. *)
Forward ==
  /\ Routed /\ Accepted /\ \A g \in Features : ~StopsAt(g)
  /\ Is("forwarded", "none", BucketIn(Rewritten), KeyIn(Rewritten),
        IF q.class \in DOMAIN ClassTable THEN ClassTable[q.class] ELSE q.class)

Next ==
  \/ Redirect \/ Operate \/ Reject \/ Forward
  \/ \E g \in Features : RejectDisabled(g) \/ HandleBucket(g) \/ HandleObject(g)

Spec == Init /\ [][Next]_vars

-----------------------------------------------------------------------------
(* classifyEndpoint: the label under which WithMetrics counts a request.   *)
(* It compares parameter names exactly and knows no Host header.           *)

HasQueryKey(name) == <<name, "exact">> \in q.params

MutLabelled == {i \in 1..(Len(Subresources) - 1) : HasQueryKey(Subresources[i])}
Labelled == {i \in 1..Len(Subresources) : HasQueryKey(Subresources[i])}

ClassifyEndpoint ==
  LET segments == Len(Trimmed(q.path))
  IN  IF Trimmed(q.path) \in {<<name>> : name \in Operational} THEN "other"
      ELSE IF Labelled # {} THEN Subresources[CHOOSE i \in Labelled : \A j \in Labelled : i <= j]
      ELSE IF q.method = "POST" /\ HasQueryKey("delete") THEN "delete_objects"
      ELSE IF q.method = "POST" /\ HasQueryKey("restore") THEN "restore_object"
      ELSE CASE q.method = "PUT"    -> IF segments >= 2 THEN "put_object" ELSE "other"
             [] q.method = "GET"    -> IF segments >= 2 THEN "get_object"
                                       ELSE IF segments = 1 THEN "list_objects" ELSE "list"
             [] q.method = "DELETE" -> "delete_object"
             [] q.method = "HEAD"   -> "head_object"
             [] q.method = "POST"   -> "other"

-----------------------------------------------------------------------------
(* InferAPIMethod: the operation that the request log names. It reads the  *)
(* URL by rules of its own, and knows some subresources with some verbs.   *)

(* An operation is a verb, a subresource and what they are applied to.     *)
LoggedVerbs ==
  [lifecycle |-> {"GET", "PUT", "DELETE"}, cors |-> {"GET", "PUT", "DELETE"},
   acl |-> {"GET", "PUT"}, versioning |-> {"GET", "PUT"}, tagging |-> {"GET", "PUT", "DELETE"}]

(* What the names are of, whatever the path: GetBucketCors, GetObjectAcl.  *)
(* GetTagging names neither; only objects' tags go through the proxy.      *)
LoggedTarget ==
  [lifecycle |-> "bucket", cors |-> "bucket", acl |-> "object", versioning |-> "bucket",
   tagging |-> "object"]

Unnamed == <<"Unknown", "none", Blank>>
Plainly(target) ==
  IF q.method = "POST" \/ (target = "service" /\ q.method # "GET") THEN Unnamed
  ELSE <<q.method, "none", target>>

MutTarget == IF Len(q.path) = 1 THEN "bucket" ELSE "object"
Target == IF KeyIn(q.path) = <<>> THEN "bucket" ELSE "object"

InferAPIMethod ==
  LET named == {p \in DOMAIN LoggedVerbs : HasQueryKey(p) /\ q.method \in LoggedVerbs[p]}
      order == <<"lifecycle", "cors", "acl", "versioning", "tagging">>
      first == CHOOSE i \in 1..5 : order[i] \in named /\ \A j \in 1..(i - 1) : order[j] \notin named
  IN  IF q.path = <<Blank>> THEN Plainly("service")
      ELSE IF named # {} THEN <<q.method, order[first], LoggedTarget[order[first]]>>
      ELSE IF HasQueryKey("delete") THEN <<"POST", "delete", "bucket">>
      ELSE IF BucketIn(q.path) = NoBucket THEN Unnamed
      ELSE Plainly(Target)

-----------------------------------------------------------------------------
(* Properties.                                                             *)

TypeOK ==
  /\ enabled \subseteq Features
  /\ outcome.kind \in {"pending", "redirected", "operational", "rejected", "disabled",
                       "invalid", "refused", "handled", "forwarded"}
  /\ outcome.by \in Features \cup {"none"}
  /\ outcome.kind = "handled" => outcome.bucket \notin {NoBucket, Blank}

(* What GCS would do with a forwarded request, reading its parameters as   *)
(* S3 spells them.                                                         *)
Exercises(g) ==
  \/ g \in Controls /\ HasQueryKey(g)
  \/ g = "copy_object" /\ q.method = "PUT" /\ q.copy
  \/ g = "multipart_upload" /\ \E p \in {"uploads", "uploadId", "partNumber"} : HasQueryKey(p)
  \/ g = "delete_objects" /\ q.method = "POST" /\ HasQueryKey("delete")

(* A feature that is switched off cannot be had in any way: no handler of  *)
(* it runs, and no request that combines parameters, verbs and headers     *)
(* slips through the earlier gates to have GCS do it (README.md:47).       *)
DisabledIsUnreachable ==
  \A g \in Features \ enabled :
    /\ outcome.kind = "handled" => outcome.by # g
    /\ outcome.kind = "forwarded" => ~Exercises(g)

(* The bucket and key the client means, wherever it names the bucket. *)
Addressed ==
  LET full == IF q.host = NoBucket THEN q.path ELSE <<q.host>> \o q.path
  IN  [bucket |-> BucketIn(full), key |-> KeyIn(full)]

Meets(a) ==
  /\ outcome.bucket = a.bucket
  /\ outcome.by \in ObjectLevel \cup {"none"} => outcome.key = a.key

PlainKey == q.path[Len(q.path)] # Blank

(* Data plane and control plane agree on what a URL names: whatever is     *)
(* tagged, restored or configured through the proxy is what GET and PUT of *)
(* the same URL read and write. The handlers fall short of it in two ways  *)
(* that are excluded here: virtual-hosted requests, see the next property, *)
(* and keys that end in a slash, which they trim (main.go:1618).           *)
MeetsAddressed ==
  /\ outcome.kind = "forwarded" => Meets(Addressed)
  /\ outcome.kind = "handled" /\ q.host = NoBucket /\ PlainKey => Meets(Addressed)

(* README.md:31, 330: with PROXY_BASE_DOMAIN virtual-hosted requests are   *)
(* converted to path style. The conversion is in the Director, which the   *)
(* handlers never reach.                                                   *)
VirtualHostedMeets ==
  outcome.kind = "handled" /\ q.host # NoBucket /\ PlainKey => Meets(Addressed)

(* GCS is never sent a storage class of S3's: the check at the entry and   *)
(* the translation in the Director agree, on every way through.            *)
OnlyGCSClasses ==
  outcome.kind = "forwarded" =>
    outcome.class \in {Blank, "STANDARD", "NEARLINE", "COLDLINE", "ARCHIVE", "AUTOCLASS"}

(* The operation that was carried out: what the handler that ran, or GCS,  *)
(* was told to do, and to what. It follows from the outcome; only which of *)
(* its parameters GCS obeys is read from the request.                      *)
Operation ==
  LET target == IF outcome.bucket = NoBucket THEN "service"
                ELSE IF outcome.key = <<>> THEN "bucket" ELSE "object"
      sub == IF outcome.kind = "handled" THEN outcome.by
             ELSE IF Exercises("copy_object") THEN "copy"
             ELSE IF \E p \in Params : HasQueryKey(p) THEN CHOOSE p \in Params : HasQueryKey(p)
             ELSE "none"
  IN  <<q.method, sub, target>>

(* For path style and with one parameter at most, spelled as S3 does, one  *)
(* operation was carried out.                                              *)
OneOperation ==
  /\ outcome.kind \in {"handled", "forwarded"} /\ q.host = NoBucket
  /\ Cardinality(q.params) <= 1 /\ \A p \in q.params : p[2] = "exact"

(* The labels of the operations in OBSERVABILITY.md:204-212. *)
DataPlane ==
  [GET |-> "get_object", PUT |-> "put_object", HEAD |-> "head_object", DELETE |-> "delete_object"]
Documented ==
  {<<<<verb, "none", "object">>, DataPlane[verb]>> : verb \in DOMAIN DataPlane} \cup
  {<<<<"GET", "none", "bucket">>, "list_objects">>, <<<<"GET", "none", "service">>, "list">>,
   <<<<"PUT", "none", "bucket">>, "other">>,
   <<<<"POST", "delete", "bucket">>, "delete_objects">>,
   <<<<"POST", "restore", "object">>, "restore_object">>}

(* A request is counted under what was done for it, by the table of        *)
(* OBSERVABILITY.md:204-212, although the label is computed from the raw   *)
(* URL before anything else (README.md:163). A health probe is not taken   *)
(* for a request to S3; whatever subresources a request combines, the      *)
(* label is the one whose handler or gate stopped it; and an operation of  *)
(* the table has its label, by the bucket and key the dispatch found.      *)
(* The code falls short of the table where the property is silent: HEAD    *)
(* and DELETE of a bucket are counted as head_object and delete_object,    *)
(* which line 206 has for "bucket + key" (metrics.go:273-276); ?acl,       *)
(* ?versioning, ?uploads, ?uploadId, ?partNumber and copies are counted    *)
(* as the plain verb; and what is done to a bucket that is called like an  *)
(* operational endpoint is counted as "other" (metrics.go:221).            *)
CountedAsDone ==
  /\ q.host = NoBucket /\ \A p \in q.params : p[2] = "exact"
  /\ outcome.kind # "operational" => Trimmed(q.path) \notin {<<name>> : name \in Operational}
  => /\ outcome.kind = "operational" => ClassifyEndpoint = "other"
     /\ /\ outcome.kind \in {"handled", "disabled", "invalid"}
        /\ outcome.by \in Controls \ {"restore"} /\ q.method \in {"GET", "PUT", "DELETE"}
        => ClassifyEndpoint = outcome.by
     /\ OneOperation => \A d \in Documented : Operation = d[1] => ClassifyEndpoint = d[2]

(* The operations that the request log has a name of its own for. The ACL  *)
(* of a bucket is left out: the log calls it the ACL of an object.         *)
LoggedOperations ==
  {<<"GET", "none", "service">>, <<"POST", "delete", "bucket">>} \cup
  {"GET", "HEAD", "PUT", "DELETE"} \X {"none"} \X {"bucket", "object"} \cup
  UNION {LoggedVerbs[sub] \X {sub} \X {LoggedTarget[sub]} : sub \in DOMAIN LoggedVerbs}

(* The request log names the operation that was carried out (reqlog.go:144, *)
(* OBSERVABILITY.md:86), whatever the gates made of the URL: its verb, its *)
(* subresource, and whether it was done to the service, a bucket or an     *)
(* object. For the operations that the log has a name for, under path      *)
(* style. It falls short elsewhere: GET and PUT of /bucket?acl are logged  *)
(* as GetObjectAcl and PutObjectAcl (reqlog.go:184-190), and ?website,     *)
(* ?logging, ?uploadId, copies and others as the plain operation of the    *)
(* verb, DELETE /bucket?website as DeleteBucket.                           *)
LoggedAsDone == OneOperation /\ Operation \in LoggedOperations => InferAPIMethod = Operation
=============================================================================
