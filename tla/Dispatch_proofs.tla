-------------------------- MODULE Dispatch_proofs -------------------------
(***************************************************************************)
(* Theorems about Dispatch, for every set of requests, with paths of any   *)
(* length and any combination of parameters, and every setting of the      *)
(* feature flags.                                                          *)
(***************************************************************************)
EXTENDS Dispatch, SequenceTheorems, FiniteSetTheorems, WellFoundedInduction, TLAPS

(* What brought about the outcome. *)
Explained ==
  /\ outcome.kind \in {"pending", "redirected", "operational", "rejected", "disabled",
                       "invalid", "refused", "handled", "forwarded"}
  /\ outcome.by \in Features \cup {"none"}
  /\ outcome.kind = "operational" => Claimed
  /\ outcome.kind \in {"disabled", "invalid", "refused", "handled"} => StoppedBy(outcome.by)
  /\ outcome.kind = "handled" =>
       /\ Clean(q.path)
       /\ outcome.by \in enabled \cap Controls /\ StopsAt(outcome.by)
       /\ outcome.by = "restore" => q.method = "POST"
       /\ Trimmed(q.path) # <<>> /\ outcome.bucket = Trimmed(q.path)[1]
       /\ outcome.by \in ObjectLevel => outcome.key = Tail(Trimmed(q.path))
  /\ outcome.kind = "forwarded" =>
       /\ Clean(q.path)
       /\ \A g \in Features : ~StopsAt(g)
       /\ outcome.by = "none"
       /\ outcome.bucket = BucketIn(Rewritten) /\ outcome.key = KeyIn(Rewritten)
       /\ outcome.class \in {Blank, "STANDARD", "NEARLINE", "COLDLINE", "ARCHIVE", "AUTOCLASS"}

DInv == q \in Shapes /\ enabled \in FlagSets /\ Explained

-----------------------------------------------------------------------------
(* Every non-empty set of positions has a last one.                        *)
LEMMA LastExists ==
  ASSUME NEW n \in Nat, NEW S \in SUBSET (1..n), S # {}
  PROVE  \E i \in S : \A j \in S : j <= i
<1> DEFINE T == {n - i : i \in S}
<1>1. T \subseteq Nat /\ T # {}
  <2>1. \A i \in S : i \in 1..n /\ n - i \in Nat
    OBVIOUS
  <2>2. PICK i \in S : TRUE
    OBVIOUS
  <2>3. n - i \in T
    OBVIOUS
  <2> QED BY <2>1, <2>3
<1>2. PICK x \in T : \A y \in T : ~(<<y, x>> \in OpToRel(<, Nat))
  BY <1>1, WFMin, NatLessThanWellFounded
<1>3. \A y \in T : ~(y < x)
  BY <1>1, <1>2 DEF OpToRel
<1>4. PICK i \in S : x = n - i
  OBVIOUS
<1>5. ASSUME NEW j \in S PROVE j <= i
  <2>1. n - j \in T
    OBVIOUS
  <2> QED BY <2>1, <1>3, <1>4
<1> QED BY <1>5

(* A path whose first segment is not empty keeps it when it is trimmed.    *)
LEMMA TrimmedFirst ==
  ASSUME NEW path \in Seq(STRING), Len(path) > 0, path[1] # Blank
  PROVE  Trimmed(path) # <<>> /\ Trimmed(path)[1] = path[1]
<1> DEFINE named == {i \in 1..Len(path) : path[i] # Blank}
           first == CHOOSE i \in named : \A j \in named : i <= j
           last == CHOOSE i \in named : \A j \in named : j <= i
<1>1. 1 \in named /\ named \in SUBSET (1..Len(path)) /\ Len(path) \in Nat
  OBVIOUS
<1>2. first = 1
  BY <1>1
<1>3. last \in 1..Len(path)
  BY <1>1, LastExists
<1>4. Trimmed(path) = SubSeq(path, first, last)
  BY <1>1 DEF Trimmed
<1> HIDE DEF named, first, last
<1> QED BY <1>2, <1>3, <1>4, SubSeqProperties

LEMMA TrimmedPlain ==
  ASSUME NEW path \in Seq(STRING), Len(path) > 0, path[1] # Blank, path[Len(path)] # Blank
  PROVE  Trimmed(path) = path
<1> DEFINE named == {i \in 1..Len(path) : path[i] # Blank}
           first == CHOOSE i \in named : \A j \in named : i <= j
           last == CHOOSE i \in named : \A j \in named : j <= i
<1>1. 1 \in named /\ Len(path) \in named /\ named \in SUBSET (1..Len(path)) /\ Len(path) \in Nat
  OBVIOUS
<1>2. Trimmed(path) = SubSeq(path, first, last)
  BY <1>1 DEF Trimmed
<1> HIDE DEF named
<1>3. first \in named /\ \A j \in named : first <= j
  <2>1. \A j \in named : 1 <= j
    BY <1>1
  <2> QED BY <1>1, <2>1
<1>4. last \in named /\ \A j \in named : j <= last
  <2>1. \A j \in named : j <= Len(path)
    BY <1>1
  <2> QED BY <1>1, <2>1
<1> HIDE DEF first, last
<1>5. first = 1 /\ last = Len(path)
  <2> DEFINE n == Len(path)
  <2>1. first \in 1..n /\ last \in 1..n /\ first <= 1 /\ n <= last /\ n \in Nat
    BY <1>1, <1>3, <1>4
  <2> HIDE DEF n
  <2>2. first = 1 /\ last = n
    BY ONLY <2>1
  <2> QED BY <2>2 DEF n
<1>6. SubSeq(path, 1, Len(path)) = path
  BY SubSeqFull
<1> QED BY <1>2, <1>5, <1>6

(* A path that the routers let through begins with a name, or is the root. *)
LEMMA RootOrNamed ==
  ASSUME NEW path \in Seq(STRING), Len(path) > 0, Clean(path), path[1] = Blank
  PROVE  Len(path) = 1
<1>1. ~(1 \in 1..(Len(path) - 1))
  BY DEF Clean
<1>2. \A n \in Nat : n > 0 /\ ~(1 \in 1..(n - 1)) => n = 1
  OBVIOUS
<1>3. Len(path) \in Nat
  OBVIOUS
<1> QED BY <1>1, <1>2, <1>3

(* The root has no segments. *)
LEMMA TrimmedRoot ==
  ASSUME NEW path \in Seq(STRING), Len(path) = 1, path[1] = Blank
  PROVE  Trimmed(path) = <<>>
<1>1. \A i \in 1..Len(path) : path[i] = Blank
  <2> SUFFICES ASSUME NEW i \in 1..Len(path) PROVE path[i] = Blank
    OBVIOUS
  <2>1. \A n \in Nat : n = 1 => \A j \in 1..n : j = 1
    OBVIOUS
  <2>2. Len(path) \in Nat
    OBVIOUS
  <2> QED BY <2>1, <2>2
<1>2. {i \in 1..Len(path) : path[i] # Blank} = {}
  BY <1>1
<1> QED BY <1>2 DEF Trimmed

-----------------------------------------------------------------------------
(* A parameter as S3 spells it is one that the gates see.                  *)
LEMMA ExercisesApplies ==
  ASSUME NEW g, Exercises(g)
  PROVE  Applies(g)
BY DEF Exercises, Applies, HasQueryKey, HasQueryParam

(* The request and the flags never change, nor what is computed of them.   *)
LEMMA RequestStays ==
  ASSUME q' = q, enabled' = enabled
  PROVE  /\ \A g : (StopsAt(g)' <=> StopsAt(g)) /\ (StoppedBy(g)' <=> StoppedBy(g))
         /\ Trimmed(q.path)' = Trimmed(q.path)
         /\ BucketIn(Rewritten)' = BucketIn(Rewritten) /\ KeyIn(Rewritten)' = KeyIn(Rewritten)
         /\ (Claimed' <=> Claimed) /\ (Clean(q.path)' <=> Clean(q.path))
<1>1. \A g : StopsAt(g)' <=> StopsAt(g)
  BY DEF StopsAt, Applies, Handles, HasQueryParam
<1>6. \A g : StoppedBy(g)' <=> StoppedBy(g)
  BY <1>1 DEF StoppedBy
<1>2. Trimmed(q.path)' = Trimmed(q.path)
  BY DEF Trimmed
<1>3. Rewritten' = Rewritten
  BY DEF Rewritten
<1>4. BucketIn(Rewritten)' = BucketIn(Rewritten) /\ KeyIn(Rewritten)' = KeyIn(Rewritten)
  BY <1>3 DEF BucketIn, KeyIn
<1>5. (Claimed' <=> Claimed) /\ (Clean(q.path)' <=> Clean(q.path))
  BY DEF Claimed, Clean
<1> QED BY <1>1, <1>2, <1>4, <1>5, <1>6

LEMMA InitIsD == Init => DInv
BY DEF Init, DInv, Explained, Pending

(* Of an outcome that is neither handled nor forwarded there is little to  *)
(* explain: the gate that brought it about, if one did.                    *)
LEMMA OtherKinds ==
  ASSUME DInv, NEW kind \in {"redirected", "rejected", "disabled", "invalid", "refused"},
         NEW by \in Features \cup {"none"}, Is(kind, by, NoBucket, <<>>, Blank),
         kind \in {"disabled", "invalid", "refused"} => StoppedBy(by)
  PROVE  DInv'
<1>1. q' = q /\ enabled' = enabled
  BY DEF Is
<1>2. outcome' = [kind |-> kind, by |-> by, bucket |-> NoBucket, key |-> <<>>, class |-> Blank]
  BY DEF Is
<1>3. Explained'
  BY <1>1, <1>2, RequestStays DEF Explained
<1> QED BY <1>1, <1>3 DEF DInv

LEMMA HandleBucketKeepsD ==
  ASSUME DInv, NEW g \in Features, HandleBucket(g)
  PROVE  DInv'
<1>1. CASE Is("invalid", g, NoBucket, <<>>, Blank)
  BY <1>1, OtherKinds DEF HandleBucket
<1>2. CASE Trimmed(q.path) # <<>> /\ Is("handled", g, Trimmed(q.path)[1], <<>>, Blank)
  <2>1. /\ g \in enabled /\ g \in Controls /\ g \notin ObjectLevel /\ g # "restore"
        /\ Clean(q.path) /\ StopsAt(g) /\ StoppedBy(g)
    BY DEF HandleBucket, ObjectLevel, Routed, StoppedBy
  <2>2. q' = q /\ enabled' = enabled
    BY <1>2 DEF Is
  <2>3. outcome' = [kind |-> "handled", by |-> g, bucket |-> Trimmed(q.path)[1], key |-> <<>>,
                    class |-> Blank]
    BY <1>2 DEF Is
  <2>4. Explained'
    BY <1>2, <2>1, <2>2, <2>3, RequestStays DEF Explained
  <2> QED BY <2>2, <2>4 DEF DInv
<1> QED BY <1>1, <1>2 DEF HandleBucket

LEMMA ObjectLevelIsControl == ObjectLevel \subseteq Controls
<1>1. 5 \in 1..Len(Subresources) /\ Subresources[5] = "tagging"
  BY DEF Subresources
<1> QED BY <1>1 DEF ObjectLevel, Controls

LEMMA HandleObjectKeepsD ==
  ASSUME DInv, NEW g \in Features, HandleObject(g)
  PROVE  DInv'
<1> DEFINE path == Trimmed(q.path)
<1>1. CASE Is("refused", g, NoBucket, <<>>, Blank) \/ Is("invalid", g, NoBucket, <<>>, Blank)
  BY <1>1, OtherKinds DEF HandleObject
<1>2. CASE /\ Len(path) >= 2 /\ Is("handled", g, path[1], Tail(path), Blank)
           /\ g = "restore" => q.method = "POST"
  <2>1. /\ g \in enabled /\ g \in ObjectLevel /\ g \in Controls
        /\ Clean(q.path) /\ StopsAt(g) /\ StoppedBy(g)
    BY ObjectLevelIsControl DEF HandleObject, Routed, StoppedBy
  <2>2. q' = q /\ enabled' = enabled /\ path # <<>>
    BY <1>2 DEF Is
  <2>3. outcome' = [kind |-> "handled", by |-> g, bucket |-> path[1], key |-> Tail(path),
                    class |-> Blank]
    BY <1>2 DEF Is
  <2>4. Explained'
    BY <1>2, <2>1, <2>2, <2>3, RequestStays DEF Explained
  <2> QED BY <2>2, <2>4 DEF DInv
<1> QED BY <1>1, <1>2 DEF HandleObject, ObjectPath

LEMMA ForwardKeepsD ==
  ASSUME DInv, Forward
  PROVE  DInv'
<1> DEFINE class == IF q.class \in DOMAIN ClassTable THEN ClassTable[q.class] ELSE q.class
<1>1. q' = q /\ enabled' = enabled
  BY DEF Forward, Is
<1>2. outcome' = [kind |-> "forwarded", by |-> "none", bucket |-> BucketIn(Rewritten),
                  key |-> KeyIn(Rewritten), class |-> class]
  BY DEF Forward, Is
<1>3. class \in {Blank, "STANDARD", "NEARLINE", "COLDLINE", "ARCHIVE", "AUTOCLASS"}
  BY DEF Forward, Accepted, ClassTable
<1> HIDE DEF class
<1>4. Clean(q.path) /\ \A g \in Features : ~StopsAt(g)
  BY DEF Forward, Routed
<1>5. Explained'
  BY <1>1, <1>2, <1>3, <1>4, RequestStays DEF Explained
<1> QED BY <1>1, <1>5 DEF DInv

LEMMA NextKeepsD == DInv /\ [Next]_vars => DInv'
<1> SUFFICES ASSUME DInv, [Next]_vars PROVE DInv'
  OBVIOUS
<1>1. CASE Reject
  BY <1>1, OtherKinds DEF Reject
<1>2. CASE Forward
  BY <1>2, ForwardKeepsD
<1>3. ASSUME NEW g \in Features, RejectDisabled(g) PROVE DInv'
  BY <1>3, OtherKinds DEF RejectDisabled
<1>4. ASSUME NEW g \in Features, HandleBucket(g) PROVE DInv'
  BY <1>4, HandleBucketKeepsD
<1>5. ASSUME NEW g \in Features, HandleObject(g) PROVE DInv'
  BY <1>5, HandleObjectKeepsD
<1>6. CASE Redirect
  BY <1>6, OtherKinds DEF Redirect
<1>7. CASE Operate
  <2>1. /\ q' = q /\ enabled' = enabled /\ Claimed
        /\ outcome' = [kind |-> "operational", by |-> "none", bucket |-> NoBucket, key |-> <<>>,
                       class |-> Blank]
    BY <1>7 DEF Operate, Is
  <2>2. Explained'
    BY <2>1, RequestStays DEF Explained
  <2> QED BY <2>1, <2>2 DEF DInv
<1>8. CASE UNCHANGED vars
  <2>1. q' = q /\ enabled' = enabled /\ outcome' = outcome
    BY <1>8 DEF vars
  <2> QED BY <2>1, RequestStays DEF DInv, Explained
<1> QED BY <1>1, <1>2, <1>3, <1>4, <1>5, <1>6, <1>7, <1>8 DEF Next

(* What every outcome says of its request (handleS3Request, its routers). *)
THEOREM DispatchInvariant == Spec => []DInv
BY InitIsD, NextKeepsD, PTL DEF Spec

-----------------------------------------------------------------------------
(* Whatever the request combines, and whichever features are on, no handler *)
(* of one that is off runs, and GCS is never sent a request for it.        *)
THEOREM Disabled == Spec => []DisabledIsUnreachable
<1>1. DInv => DisabledIsUnreachable
  BY ExercisesApplies DEF DInv, Explained, DisabledIsUnreachable, StopsAt
<1> QED BY <1>1, DispatchInvariant, PTL

(* A handler that runs has a bucket to work on: the root never gets so far. *)
LEMMA HandledHasBucket ==
  ASSUME DInv, outcome.kind = "handled"
  PROVE  /\ q.path \in Seq(STRING) /\ Len(q.path) > 0 /\ q.path[1] \notin {NoBucket, Blank}
         /\ outcome.bucket = q.path[1]
<1>1. /\ q.path \in Seq(STRING) /\ Len(q.path) > 0 /\ q.path[1] # NoBucket
      /\ q.path[1] = Blank => Len(q.path) = 1
  BY DispatchAssumption, RootOrNamed DEF DInv, Explained
<1>2. Trimmed(q.path) # <<>> /\ outcome.bucket = Trimmed(q.path)[1]
  BY DEF DInv, Explained
<1>3. q.path[1] # Blank
  BY <1>1, <1>2, TrimmedRoot
<1>4. Trimmed(q.path)[1] = q.path[1]
  BY <1>1, <1>3, TrimmedFirst
<1> QED BY <1>1, <1>2, <1>3, <1>4

(* A handler of bucket or object never runs without a bucket, whatever the *)
(* path (parseBucketFromPath).                                             *)
THEOREM Types == Spec => []TypeOK
<1>1. DInv => TypeOK
  BY HandledHasBucket, DispatchAssumption DEF DInv, Explained, TypeOK
<1> QED BY <1>1, DispatchInvariant, PTL

LEMMA NoneIsNoControl == "none" \notin Controls
<1>1. \A i \in 1..Len(Subresources) : Subresources[i] # "none"
  BY DEF Subresources
<1> QED BY <1>1 DEF Controls

(* A path whose key does not end in a slash is read alike by the handlers, *)
(* which trim it, and by GCS, which does not.                              *)
LEMMA PlainKeyIsAddressed ==
  ASSUME DInv, outcome.kind = "handled", q.host = NoBucket, PlainKey
  PROVE  Meets(Addressed)
<1> DEFINE path == q.path
<1>1. /\ path \in Seq(STRING) /\ Len(path) > 0 /\ path[1] # Blank
      /\ outcome.bucket = path[1] /\ path[Len(path)] # Blank
  BY HandledHasBucket DEF PlainKey
<1>2. Trimmed(path) = path
  BY <1>1, TrimmedPlain
<1>3. Tail(path) # <<Blank>>
  <2> SUFFICES ASSUME Tail(path) = <<Blank>> PROVE FALSE
    OBVIOUS
  <2>0. \A s : s = <<Blank>> => Len(s) = 1 /\ s[1] = Blank
    OBVIOUS
  <2>1. Len(Tail(path)) = 1 /\ Tail(path)[1] = Blank
    BY <2>0
  <2>2. Len(path) = 2 /\ path[2] = Blank
    BY <1>1, <2>1
  <2> QED BY <1>1, <2>2
<1>4. outcome.by \in ObjectLevel \cup {"none"} => outcome.key = Tail(path)
  BY <1>2, NoneIsNoControl DEF DInv, Explained
<1>5. Addressed.bucket = path[1] /\ Addressed.key = Tail(path)
  BY <1>1, <1>3 DEF Addressed, BucketIn, KeyIn
<1> QED BY <1>1, <1>4, <1>5 DEF Meets

(* Data plane and control plane mean the same bucket and object.           *)
THEOREM SameObject == Spec => []MeetsAddressed
<1>1. DInv /\ outcome.kind = "forwarded" => Meets(Addressed)
  BY DEF DInv, Explained, Meets, Addressed, Rewritten
<1>2. DInv => MeetsAddressed
  BY <1>1, PlainKeyIsAddressed DEF MeetsAddressed
<1> QED BY <1>2, DispatchInvariant, PTL

(* GCS is sent only storage classes of its own.                            *)
THEOREM GCSClasses == Spec => []OnlyGCSClasses
<1>1. DInv => OnlyGCSClasses
  BY DEF DInv, Explained, OnlyGCSClasses
<1> QED BY <1>1, DispatchInvariant, PTL

-----------------------------------------------------------------------------
(* What the two logs say.                                                  *)

SubresourceNames == {"lifecycle", "cors", "logging", "website", "tagging"}

(* The list of the subresources names each once.                           *)
LEMMA SubresourceList ==
  /\ Len(Subresources) = 5
  /\ \A i \in 1..5 : Subresources[i] \in SubresourceNames
  /\ \A g \in SubresourceNames : \E i \in 1..5 : Subresources[i] = g
  /\ \A i, j \in 1..5 : Subresources[i] = Subresources[j] => i = j
BY DEF Subresources, SubresourceNames

LEMMA ControlNames == Controls = SubresourceNames \cup {"restore"}
<1>1. {Subresources[i] : i \in 1..Len(Subresources)} = SubresourceNames
  BY SubresourceList
<1> QED BY <1>1 DEF Controls

LEMMA ParamsFinite == IsFiniteSet(Params)
<1>1. IsFiniteSet({}) /\ \A S, x : IsFiniteSet(S) => IsFiniteSet(S \cup {x})
  BY FS_EmptySet, FS_AddElement
<1> DEFINE a == {} \cup {"lifecycle"}
           b == a \cup {"cors"}
           c == b \cup {"logging"}
           d == c \cup {"website"}
           e == d \cup {"tagging"}
           f == e \cup {"restore"}
           h == f \cup {"uploads"}
           k == h \cup {"uploadId"}
           l == k \cup {"partNumber"}
           m == l \cup {"delete"}
           n == m \cup {"acl"}
           o == n \cup {"versioning"}
<1>2. IsFiniteSet(o)
  BY <1>1
<1>3. Params = o
  BY ControlNames DEF Params, SubresourceNames
<1> QED BY <1>2, <1>3

(* At most one parameter means what it says: the set is finite.            *)
LEMMA OneParam ==
  ASSUME q \in Shapes, Cardinality(q.params) <= 1
  PROVE  \A p, o \in q.params : p = o
<1>1. q.params \in SUBSET (Params \X {"exact", "folded"})
  BY DispatchAssumption
<1>2. IsFiniteSet(Params \X {"exact", "folded"})
  <2>1. IsFiniteSet({"exact"} \cup {"folded"})
    BY FS_Singleton, FS_AddElement
  <2>2. {"exact"} \cup {"folded"} = {"exact", "folded"}
    OBVIOUS
  <2> QED BY <2>1, <2>2, ParamsFinite, FS_Product
<1>3. IsFiniteSet(q.params)
  BY <1>1, <1>2, FS_Subset
<1> SUFFICES ASSUME NEW p \in q.params, NEW o \in q.params, p # o PROVE FALSE
  OBVIOUS
<1>4. IsFiniteSet(q.params \ {p}) /\ Cardinality(q.params \ {p}) = Cardinality(q.params) - 1
  BY <1>3, FS_RemoveElement
<1>5. Cardinality(q.params) \in Nat /\ Cardinality(q.params \ {p}) \in Nat
  BY <1>3, <1>4, FS_CardinalityType
<1>6. Cardinality(q.params \ {p}) = 0
  BY <1>4, <1>5
<1>7. q.params \ {p} = {}
  BY <1>4, <1>6, FS_EmptySet
<1> QED BY <1>7

(* Trimming a slash at the end of a clean path takes one segment.          *)
LEMMA TrimmedSlash ==
  ASSUME NEW path \in Seq(STRING), Len(path) > 1, Clean(path), path[Len(path)] = Blank
  PROVE  Len(Trimmed(path)) = Len(path) - 1
<1> DEFINE named == {i \in 1..Len(path) : path[i] # Blank}
           n == Len(path)
           first == CHOOSE i \in named : \A j \in named : i <= j
           last == CHOOSE i \in named : \A j \in named : j <= i
<1>1. n \in Nat /\ n > 1
  OBVIOUS
<1>2. named = 1..(n - 1)
  BY <1>1 DEF Clean
<1>3. Trimmed(path) = SubSeq(path, first, last)
  <2>1. named # {}
    BY <1>1, <1>2
  <2> QED BY <2>1 DEF Trimmed
<1> HIDE DEF named, n
<1>4. first \in named /\ \A j \in named : first <= j
  <2>1. 1 \in named /\ \A j \in named : 1 <= j
    BY <1>1, <1>2
  <2> QED BY <2>1
<1>5. last \in named /\ \A j \in named : j <= last
  <2>1. n - 1 \in named /\ \A j \in named : j <= n - 1
    BY <1>1, <1>2
  <2> QED BY <2>1
<1> HIDE DEF first, last
<1>6. first = 1 /\ last = n - 1
  <2>1. first \in 1..(n - 1) /\ last \in 1..(n - 1) /\ 1 \in named /\ n - 1 \in named
    BY <1>1, <1>2, <1>4, <1>5
  <2>2. first <= 1 /\ n - 1 <= last
    BY <1>4, <1>5, <2>1
  <2> QED BY ONLY <1>1, <2>1, <2>2
<1>7. 1 \in 1..Len(path) /\ n - 1 \in 1..Len(path)
  BY <1>1 DEF n
<1>8. Len(SubSeq(path, 1, n - 1)) = n - 1
  <2>1. \A m, k \in Nat : m = 1 /\ k > 0 => k - m + 1 = k
    OBVIOUS
  <2> QED BY <1>1, <1>7, SubSeqProperties DEF n
<1> QED BY <1>3, <1>6, <1>8 DEF n

LEMMA RestOfTwo ==
  ASSUME NEW path \in Seq(STRING), Len(path) = 2, path[2] = Blank
  PROVE  Tail(path) = <<Blank>>
<1> DEFINE rest == Tail(path)
<1>1. path # <<>> /\ rest \in Seq(STRING) /\ Len(rest) = 1
  OBVIOUS
<1>2. \A i \in 1..Len(rest) : rest[i] = path[i + 1]
  BY <1>1, HeadTailProperties
<1> HIDE DEF rest
<1>3. rest[1] = Blank
  <2>1. 1 \in 1..Len(rest) /\ 1 + 1 = 2
    BY <1>1
  <2> QED BY <1>2, <2>1
<1>4. rest = <<Blank>>
  BY <1>1, <1>3
<1> QED BY <1>4 DEF rest

(* The metrics, which trim and count, and GCS, which takes the rest after  *)
(* the first slash, find a key in the same paths, and a bucket too.        *)
LEMMA SegmentsTellKey ==
  ASSUME NEW path \in Seq(STRING), Len(path) > 0, Clean(path), path[1] # NoBucket
  PROVE  /\ Len(Trimmed(path)) >= 2 <=> KeyIn(path) # <<>>
         /\ Len(Trimmed(path)) = 0 <=> BucketIn(path) = NoBucket
         /\ Len(Trimmed(path)) \in Nat
<1> DEFINE n == Len(path)
<1>1. n \in Nat /\ n > 0
  OBVIOUS
<1>2. Tail(path) \in Seq(STRING) /\ Len(Tail(path)) = n - 1
  OBVIOUS
<1>3. Tail(path) = <<>> <=> n = 1
  BY <1>1, <1>2
<1>4. CASE path[1] = Blank
  <2>1. n = 1 /\ Trimmed(path) = <<>>
    BY <1>4, RootOrNamed, TrimmedRoot
  <2> QED BY <1>3, <1>4, <2>1 DEF KeyIn, BucketIn
<1>5. CASE path[1] # Blank /\ path[n] # Blank
  <2>1. Trimmed(path) = path
    BY <1>5, TrimmedPlain
  <2>2. Tail(path) # <<Blank>>
    <3> SUFFICES ASSUME Tail(path) = <<Blank>> PROVE FALSE
      OBVIOUS
    <3>1. \A s : s = <<Blank>> => Len(s) = 1 /\ s[1] = Blank
      OBVIOUS
    <3>2. Len(Tail(path)) = 1 /\ Tail(path)[1] = Blank
      BY <3>1
    <3>3. n = 2 /\ path[2] = Blank
      BY <1>1, <3>2
    <3> QED BY <1>5, <3>3
  <2>3. KeyIn(path) = Tail(path) /\ BucketIn(path) # NoBucket
    BY <1>5, <2>2 DEF KeyIn, BucketIn
  <2> QED BY <1>1, <1>3, <2>1, <2>3
<1>6. CASE path[1] # Blank /\ path[n] = Blank
  <2>1. n > 1
    BY <1>1, <1>6
  <2>2. Len(Trimmed(path)) = n - 1
    BY <1>6, <2>1, TrimmedSlash
  <2>3. Tail(path) = <<Blank>> <=> n = 2
    <3>1. \A s : s = <<Blank>> => Len(s) = 1
      OBVIOUS
    <3>2. ASSUME n = 2 PROVE Tail(path) = <<Blank>>
      BY <1>6, <3>2, RestOfTwo
    <3>3. Tail(path) = <<Blank>> => n = 2
      <4>1. \A m \in Nat : m - 1 = 1 => m = 2
        OBVIOUS
      <4> QED BY <1>1, <1>2, <3>1, <4>1
    <3> QED BY <3>2, <3>3
  <2>4. BucketIn(path) # NoBucket
    BY <1>6 DEF BucketIn
  <2>5. KeyIn(path) # <<>> <=> n > 2
    <3>1. KeyIn(path) = <<>> <=> n = 1 \/ n = 2
      BY <1>3, <2>3 DEF KeyIn
    <3> HIDE DEF n
    <3> QED BY ONLY <1>1, <3>1
  <2> QED BY <1>1, <2>1, <2>2, <2>4, <2>5
<1> QED BY <1>4, <1>5, <1>6

LEMMA GateList ==
  /\ Len(Gates) = 9 /\ \A i \in 1..5 : Gates[i] = Subresources[i]
  /\ Gates[6] = "restore"
  /\ \A i \in 6..9 : Gates[i] \notin SubresourceNames
BY DEF Gates, Subresources, SubresourceNames

(* Spelled exactly, a parameter is seen by the gates and by both logs.     *)
LEMMA ExactlySpelled ==
  ASSUME \A p \in q.params : p[2] = "exact"
  PROVE  \A name : HasQueryParam(name) <=> HasQueryKey(name)
<1>1. \A name : <<name, "folded">> \notin q.params
  <2>1. \A name : <<name, "folded">>[2] = "folded"
    OBVIOUS
  <2> QED BY <2>1
<1> QED BY <1>1 DEF HasQueryParam, HasQueryKey

(* Of several subresources, the label is the one that stops the request:   *)
(* both go through one list in one order.                                  *)
LEMMA FirstIsLabel ==
  ASSUME NEW g \in SubresourceNames, StoppedBy(g), q.method \in {"GET", "PUT", "DELETE"},
         \A p \in q.params : p[2] = "exact",
         Trimmed(q.path) \notin {<<name>> : name \in Operational}
  PROVE  ClassifyEndpoint = g
<1>1. PICK i \in 1..9 : Gates[i] = g /\ StopsAt(g) /\ \A j \in 1..(i - 1) : ~StopsAt(Gates[j])
  BY GateList DEF StoppedBy
<1>2. i \in 1..5 /\ Subresources[i] = g
  BY <1>1, GateList
<1>3. i \in Labelled
  <2>1. HasQueryParam(g)
    BY <1>1 DEF StopsAt, Applies, SubresourceNames
  <2> QED BY <1>2, <2>1, ExactlySpelled, SubresourceList DEF Labelled
<1>4. ASSUME NEW j \in Labelled PROVE i <= j
  <2>1. j \in 1..5 /\ HasQueryKey(Subresources[j]) /\ Subresources[j] \in Controls
    BY SubresourceList, ControlNames DEF Labelled
  <2>2. Applies(Gates[j]) /\ Handles(Gates[j])
    BY <2>1, GateList, ExactlySpelled DEF Applies, Handles
  <2>3. StopsAt(Gates[j])
    BY <2>2 DEF StopsAt
  <2>4. j < i => j \in 1..(i - 1)
    BY <1>2, <2>1
  <2> QED BY <1>1, <1>2, <2>1, <2>3, <2>4
<1>5. (CHOOSE k \in Labelled : \A j \in Labelled : k <= j) = i
  <2>1. Labelled \subseteq 1..5
    BY SubresourceList DEF Labelled
  <2>2. \A k \in Labelled : (\A j \in Labelled : k <= j) => k = i
    BY <1>3, <1>4, <2>1
  <2> QED BY <1>3, <1>4, <2>2
<1> QED BY <1>2, <1>3, <1>5 DEF ClassifyEndpoint

LEMMA NoLabel ==
  ASSUME \A g \in SubresourceNames : ~HasQueryKey(g)
  PROVE  Labelled = {}
BY SubresourceList DEF Labelled

(* One parameter, spelled exactly, is the only name that the query has.    *)
LEMMA OnlyName ==
  ASSUME q \in Shapes, Cardinality(q.params) <= 1, NEW p \in q.params, p[2] = "exact"
  PROVE  p[1] \in Params /\ \A name : HasQueryKey(name) <=> name = p[1]
<1>1. p \in Params \X {"exact", "folded"}
  BY DispatchAssumption
<1>2. p = <<p[1], "exact">> /\ p[1] \in Params
  BY <1>1
<1>3. \A o \in q.params : o = p
  BY OneParam
<1>4. ASSUME NEW name, HasQueryKey(name) PROVE name = p[1]
  <2>1. <<name, "exact">> = <<p[1], "exact">>
    BY <1>2, <1>3, <1>4 DEF HasQueryKey
  <2> QED BY <2>1
<1>5. HasQueryKey(p[1])
  BY <1>2 DEF HasQueryKey
<1> QED BY <1>2, <1>4, <1>5

(* What the handler that ran was asked for is the request's one parameter. *)
LEMMA HandledOperation ==
  ASSUME DInv, OneOperation, outcome.kind = "handled"
  PROVE  /\ outcome.by \in SubresourceNames \cup {"restore"}
         /\ outcome.by = "restore" => q.method = "POST"
         /\ \A name : HasQueryKey(name) <=> name = outcome.by
         /\ \E target : Operation = <<q.method, outcome.by, target>>
<1>1. /\ outcome.by \in SubresourceNames \cup {"restore"} /\ StopsAt(outcome.by)
      /\ outcome.by = "restore" => q.method = "POST"
  BY ControlNames DEF DInv, Explained
<1>2. HasQueryParam(outcome.by)
  BY <1>1 DEF StopsAt, Applies, SubresourceNames
<1>3. HasQueryKey(outcome.by)
  BY <1>2, ExactlySpelled DEF OneOperation
<1>4. <<outcome.by, "exact">> \in q.params
  BY <1>3 DEF HasQueryKey
<1>5. <<outcome.by, "exact">>[1] = outcome.by /\ <<outcome.by, "exact">>[2] = "exact"
  OBVIOUS
<1>6. \A name : HasQueryKey(name) <=> name = outcome.by
  BY <1>4, <1>5, OnlyName DEF DInv, OneOperation
<1>7. \E target : Operation = <<q.method, outcome.by, target>>
  BY DEF Operation
<1> QED BY <1>1, <1>6, <1>7

(* What the URL names in path style, as GCS reads it. *)
Meant == IF BucketIn(q.path) = NoBucket THEN "service" ELSE Target

(* GCS is asked for a plain operation, a copy, or what the one parameter   *)
(* says, which is not the restoring that the proxy does itself.            *)
LEMMA ForwardedOperation ==
  ASSUME DInv, OneOperation, outcome.kind = "forwarded"
  PROVE  \/ Operation = <<q.method, "none", Meant>> /\ \A name : ~HasQueryKey(name)
         \/ Operation = <<q.method, "copy", Meant>>
         \/ \E p \in Params \ {"restore"} :
              Operation = <<q.method, p, Meant>> /\ \A name : HasQueryKey(name) <=> name = p
<1> DEFINE target == IF outcome.bucket = NoBucket THEN "service"
                     ELSE IF outcome.key = <<>> THEN "bucket" ELSE "object"
           some == \E p \in Params : HasQueryKey(p)
           sub == CHOOSE p \in Params : HasQueryKey(p)
<1>1. outcome.bucket = BucketIn(q.path) /\ outcome.key = KeyIn(q.path)
  BY DEF DInv, Explained, Rewritten, OneOperation
<1>2. target = Meant
  BY <1>1 DEF Meant, Target
<1>3. Operation = <<q.method, IF Exercises("copy_object") THEN "copy"
                              ELSE IF some THEN sub ELSE "none", target>>
  BY DEF Operation
<1> HIDE DEF target, sub
<1>4. ~HasQueryKey("restore")
  <2>1. "restore" \in Features /\ "restore" \in Controls
    BY GateList, ControlNames DEF Features
  <2>2. ~StopsAt("restore")
    BY <2>1 DEF DInv, Explained
  <2>3. ~HasQueryParam("restore")
    BY <2>1, <2>2 DEF StopsAt, Applies, Handles
  <2> QED BY <2>3, ExactlySpelled DEF OneOperation
<1>5. CASE q.params = {}
  <2>1. \A name : ~HasQueryKey(name)
    BY <1>5 DEF HasQueryKey
  <2> QED BY <1>2, <1>3, <2>1
<1>6. ASSUME NEW p \in q.params, ~Exercises("copy_object")
      PROVE  \E o \in Params \ {"restore"} :
               Operation = <<q.method, o, Meant>> /\ \A name : HasQueryKey(name) <=> name = o
  <2>1. p[1] \in Params /\ \A name : HasQueryKey(name) <=> name = p[1]
    BY OnlyName DEF DInv, OneOperation
  <2>2. some /\ sub = p[1]
    BY <2>1 DEF sub
  <2> HIDE DEF some
  <2>3. Operation = <<q.method, p[1], Meant>> /\ p[1] # "restore"
    BY <1>2, <1>3, <1>4, <1>6, <2>1, <2>2
  <2> QED BY <2>1, <2>3
<1>7. Exercises("copy_object") => Operation = <<q.method, "copy", Meant>>
  BY <1>2, <1>3
<1> QED BY <1>5, <1>6, <1>7

LEMMA ParamNames ==
  Params = SubresourceNames \cup {"restore", "uploads", "uploadId", "partNumber", "delete", "acl",
                                  "versioning"}
BY ControlNames DEF Params

(* The table of labels, entry by entry.                                    *)
LEMMA DocumentedForms ==
  ASSUME NEW verb, NEW sub, NEW target, NEW d \in Documented, <<verb, sub, target>> = d[1]
  PROVE  \/ verb = "PUT" /\ sub = "none" /\ target = "object" /\ d[2] = "put_object"
         \/ verb = "GET" /\ sub = "none" /\ target = "object" /\ d[2] = "get_object"
         \/ verb = "HEAD" /\ sub = "none" /\ target = "object" /\ d[2] = "head_object"
         \/ verb = "DELETE" /\ sub = "none" /\ target = "object" /\ d[2] = "delete_object"
         \/ verb = "GET" /\ sub = "none" /\ target = "bucket" /\ d[2] = "list_objects"
         \/ verb = "GET" /\ sub = "none" /\ target = "service" /\ d[2] = "list"
         \/ verb = "PUT" /\ sub = "none" /\ target = "bucket" /\ d[2] = "other"
         \/ verb = "POST" /\ sub = "delete" /\ target = "bucket" /\ d[2] = "delete_objects"
         \/ verb = "POST" /\ sub = "restore" /\ target = "object" /\ d[2] = "restore_object"
<1>1. CASE d \in {<<<<v, "none", "object">>, DataPlane[v]>> : v \in DOMAIN DataPlane}
  <2>1. PICK v \in DOMAIN DataPlane : d = <<<<v, "none", "object">>, DataPlane[v]>>
    BY <1>1
  <2>2. d[1] = <<v, "none", "object">> /\ d[2] = DataPlane[v]
    BY <2>1
  <2>3. verb = v /\ sub = "none" /\ target = "object"
    BY <2>2
  <2> QED BY <2>2, <2>3 DEF DataPlane
<1>2. CASE d \notin {<<<<v, "none", "object">>, DataPlane[v]>> : v \in DOMAIN DataPlane}
  BY <1>2 DEF Documented
<1> QED BY <1>1, <1>2

(* The path as the metrics count it and as GCS reads it.                   *)
LEMMA SegmentsTellMeant ==
  ASSUME DInv, outcome.kind = "forwarded"
  PROVE  /\ Meant = "object" => Len(Trimmed(q.path)) >= 2
         /\ Meant = "bucket" => Len(Trimmed(q.path)) = 1
         /\ Meant = "service" => Len(Trimmed(q.path)) = 0
<1>1. /\ q.path \in Seq(STRING) /\ Len(q.path) > 0 /\ Clean(q.path)
      /\ \A i \in 1..Len(q.path) : q.path[i] # NoBucket
  BY DispatchAssumption DEF DInv, Explained
<1>2. 1 \in 1..Len(q.path)
  <2>1. Len(q.path) \in Nat /\ \A n \in Nat : n > 0 => 1 \in 1..n
    BY <1>1
  <2> QED BY <1>1, <2>1
<1>3. /\ Len(Trimmed(q.path)) >= 2 <=> KeyIn(q.path) # <<>>
      /\ Len(Trimmed(q.path)) = 0 <=> BucketIn(q.path) = NoBucket
      /\ Len(Trimmed(q.path)) \in Nat
  BY <1>1, <1>2, SegmentsTellKey
<1> QED BY <1>3 DEF Meant, Target

(* What GCS was sent, or the restoring handler did, has its label.         *)
LEMMA OperationIsCounted ==
  ASSUME DInv, OneOperation, Trimmed(q.path) \notin {<<name>> : name \in Operational},
         NEW d \in Documented, Operation = d[1]
  PROVE  ClassifyEndpoint = d[2]
<1> DEFINE segments == Len(Trimmed(q.path))
<1>1. CASE outcome.kind = "handled"
  <2>1. PICK target : Operation = <<q.method, outcome.by, target>>
    BY <1>1, HandledOperation
  <2>2. outcome.by = "restore" /\ d[2] = "restore_object"
    <3>1. outcome.by \in SubresourceNames \cup {"restore"}
      BY <1>1, HandledOperation
    <3> QED BY <2>1, <3>1, DocumentedForms DEF SubresourceNames
  <2>3. q.method = "POST" /\ \A name : HasQueryKey(name) <=> name = "restore"
    BY <1>1, <2>2, HandledOperation
  <2>4. Labelled = {} /\ ~HasQueryKey("delete") /\ HasQueryKey("restore")
    BY <2>3, NoLabel DEF SubresourceNames
  <2> QED BY <2>2, <2>3, <2>4 DEF ClassifyEndpoint
<1>2. CASE outcome.kind = "forwarded" /\ Operation = <<q.method, "none", Meant>>
           /\ \A name : ~HasQueryKey(name)
  <2>1. Labelled = {} /\ ~HasQueryKey("delete") /\ ~HasQueryKey("restore")
    BY <1>2, NoLabel
  <2>2. ClassifyEndpoint =
          CASE q.method = "PUT"    -> IF segments >= 2 THEN "put_object" ELSE "other"
            [] q.method = "GET"    -> IF segments >= 2 THEN "get_object"
                                      ELSE IF segments = 1 THEN "list_objects" ELSE "list"
            [] q.method = "DELETE" -> "delete_object"
            [] q.method = "HEAD"   -> "head_object"
            [] q.method = "POST"   -> "other"
    BY <2>1 DEF ClassifyEndpoint
  <2>3. /\ Meant = "object" => segments >= 2
        /\ Meant = "bucket" => segments = 1
        /\ Meant = "service" => segments = 0
    BY <1>2, SegmentsTellMeant
  <2> HIDE DEF segments
  <2>4. \/ q.method = "PUT" /\ Meant = "object" /\ d[2] = "put_object"
        \/ q.method = "GET" /\ Meant = "object" /\ d[2] = "get_object"
        \/ q.method = "HEAD" /\ Meant = "object" /\ d[2] = "head_object"
        \/ q.method = "DELETE" /\ Meant = "object" /\ d[2] = "delete_object"
        \/ q.method = "GET" /\ Meant = "bucket" /\ d[2] = "list_objects"
        \/ q.method = "GET" /\ Meant = "service" /\ d[2] = "list"
        \/ q.method = "PUT" /\ Meant = "bucket" /\ d[2] = "other"
    <3>1. <<q.method, "none", Meant>> = d[1]
      BY <1>2
    <3> QED BY ONLY <3>1, DocumentedForms, d \in Documented
  <2> QED BY <2>2, <2>3, <2>4
<1>3. ASSUME outcome.kind = "forwarded", NEW p \in Params \ {"restore"},
             Operation = <<q.method, p, Meant>>, \A name : HasQueryKey(name) <=> name = p
      PROVE  ClassifyEndpoint = d[2]
  <2>1. p = "delete" /\ q.method = "POST" /\ d[2] = "delete_objects"
    <3>1. <<q.method, p, Meant>> = d[1] /\ p # "none" /\ p # "restore"
      BY <1>3, ParamNames DEF SubresourceNames
    <3> QED BY ONLY <3>1, DocumentedForms, d \in Documented
  <2>2. Labelled = {} /\ HasQueryKey("delete")
    BY <1>3, <2>1, NoLabel DEF SubresourceNames
  <2> QED BY <2>1, <2>2 DEF ClassifyEndpoint
<1>4. ~(Operation = <<q.method, "copy", Meant>>)
  BY DocumentedForms
<1> QED BY <1>1, <1>2, <1>3, <1>4, ForwardedOperation DEF OneOperation

(* The path of an operational endpoint has one segment, its name.          *)
LEMMA ClaimedIsOther ==
  ASSUME q \in Shapes, Claimed
  PROVE  ClassifyEndpoint = "other"
<1>1. PICK name \in Operational : q.path = <<name>>
  BY DEF Claimed, Operational
<1>2. name # Blank
  BY DEF Operational, Blank
<1>3. Len(<<name>>) = 1 /\ <<name>>[1] = name
  OBVIOUS
<1>4. q.path \in Seq(STRING) /\ Len(q.path) = 1 /\ q.path[1] # Blank
  BY <1>1, <1>2, <1>3, DispatchAssumption
<1>5. Trimmed(q.path) = q.path
  BY <1>4, TrimmedPlain
<1> QED BY <1>1, <1>5 DEF ClassifyEndpoint

(* The label computed from the raw URL is that of the subresource whose    *)
(* gate or handler stopped the request, and that of the operation carried  *)
(* out where OBSERVABILITY.md has one, for paths of any length and any     *)
(* number of subresources.                                                 *)
THEOREM Counted == Spec => []CountedAsDone
<1>1. ASSUME DInv, outcome.kind = "operational" PROVE ClassifyEndpoint = "other"
  BY <1>1, ClaimedIsOther DEF DInv, Explained
<1>2. ASSUME DInv, \A p \in q.params : p[2] = "exact",
             outcome.kind \in {"handled", "disabled", "invalid"},
             outcome.by \in Controls \ {"restore"}, q.method \in {"GET", "PUT", "DELETE"},
             Trimmed(q.path) \notin {<<name>> : name \in Operational}
      PROVE  ClassifyEndpoint = outcome.by
  <2>1. StoppedBy(outcome.by) /\ outcome.by \in SubresourceNames
    BY <1>2, ControlNames DEF DInv, Explained
  <2> QED BY <1>2, <2>1, FirstIsLabel
<1>3. DInv => CountedAsDone
  <2> SUFFICES ASSUME DInv, q.host = NoBucket, \A p \in q.params : p[2] = "exact",
                      outcome.kind # "operational" =>
                        Trimmed(q.path) \notin {<<name>> : name \in Operational}
               PROVE  /\ outcome.kind = "operational" => ClassifyEndpoint = "other"
                      /\ /\ outcome.kind \in {"handled", "disabled", "invalid"}
                         /\ outcome.by \in Controls \ {"restore"}
                         /\ q.method \in {"GET", "PUT", "DELETE"}
                         => ClassifyEndpoint = outcome.by
                      /\ OneOperation =>
                           \A d \in Documented : Operation = d[1] => ClassifyEndpoint = d[2]
    BY DEF CountedAsDone
  <2>1. OneOperation => outcome.kind # "operational"
    BY DEF OneOperation
  <2>2. OneOperation => \A d \in Documented : Operation = d[1] => ClassifyEndpoint = d[2]
    BY <2>1, OperationIsCounted
  <2>3. /\ outcome.kind \in {"handled", "disabled", "invalid"}
        /\ outcome.by \in Controls \ {"restore"} /\ q.method \in {"GET", "PUT", "DELETE"}
        => ClassifyEndpoint = outcome.by
    BY <1>2
  <2> QED BY <1>1, <2>2, <2>3
<1> QED BY <1>3, DispatchInvariant, PTL

-----------------------------------------------------------------------------
(* What the request log calls a request.                                   *)

LoggedNames == {"lifecycle", "cors", "acl", "versioning", "tagging"}

(* The parameters that the log knows with the request's verb.              *)
Known == {p \in DOMAIN LoggedVerbs : HasQueryKey(p) /\ q.method \in LoggedVerbs[p]}

LEMMA LoggedParams == DOMAIN LoggedVerbs = LoggedNames
BY DEF LoggedVerbs, LoggedNames

(* Whatever order they are tried in, the only one of them is found.        *)
LEMMA KnownIsLogged ==
  ASSUME NEW g \in LoggedNames, Known = {g}, q.path # <<Blank>>
  PROVE  InferAPIMethod = <<q.method, g, LoggedTarget[g]>>
<1> DEFINE order == <<"lifecycle", "cors", "acl", "versioning", "tagging">>
           first == CHOOSE i \in 1..5 : order[i] \in {g} /\ \A j \in 1..(i - 1) : order[j] \notin {g}
<1>1. /\ \E i \in 1..5 : order[i] = g
      /\ \A i, j \in 1..5 : order[i] = order[j] => i = j
  BY DEF LoggedNames
<1> HIDE DEF order
<1>2. PICK i \in 1..5 : order[i] = g
  BY <1>1
<1>3. \A j \in 1..(i - 1) : order[j] \notin {g}
  BY <1>1, <1>2
<1>4. order[first] = g
  BY <1>2, <1>3
<1>5. InferAPIMethod = <<q.method, order[first], LoggedTarget[order[first]]>>
  BY DEF InferAPIMethod, Known, order
<1> QED BY <1>4, <1>5

(* The operations that have a name, one kind after the other.              *)
LEMMA LoggedForms ==
  ASSUME NEW verb, NEW sub, NEW target, <<verb, sub, target>> \in LoggedOperations
  PROVE  \/ sub = "none" /\ verb = "GET" /\ target = "service"
         \/ sub = "none" /\ verb \in {"GET", "HEAD", "PUT", "DELETE"} /\ target \in {"bucket", "object"}
         \/ sub = "delete" /\ verb = "POST" /\ target = "bucket"
         \/ sub \in LoggedNames /\ verb \in LoggedVerbs[sub] /\ target = LoggedTarget[sub]
<1>1. CASE \E s \in DOMAIN LoggedVerbs :
             <<verb, sub, target>> \in LoggedVerbs[s] \X {s} \X {LoggedTarget[s]}
  <2>1. PICK s \in DOMAIN LoggedVerbs :
          <<verb, sub, target>> \in LoggedVerbs[s] \X {s} \X {LoggedTarget[s]}
    BY <1>1
  <2>2. verb \in LoggedVerbs[s] /\ sub = s /\ target = LoggedTarget[s]
    BY <2>1
  <2> QED BY <2>2, LoggedParams
<1>2. CASE ~\E s \in DOMAIN LoggedVerbs :
             <<verb, sub, target>> \in LoggedVerbs[s] \X {s} \X {LoggedTarget[s]}
  BY <1>2 DEF LoggedOperations
<1> QED BY <1>1, <1>2

LEMMA NotTheRoot ==
  ASSUME BucketIn(q.path) # NoBucket
  PROVE  q.path # <<Blank>>
<1>1. \A s : s = <<Blank>> => s[1] = Blank
  OBVIOUS
<1> QED BY <1>1 DEF BucketIn

LEMMA HandledIsLogged ==
  ASSUME DInv, OneOperation, outcome.kind = "handled", Operation \in LoggedOperations
  PROVE  InferAPIMethod = Operation
<1> DEFINE g == outcome.by
<1>1. g \in SubresourceNames \cup {"restore"} /\ \A name : HasQueryKey(name) <=> name = g
  BY HandledOperation
<1>2. PICK target : Operation = <<q.method, g, target>>
  BY HandledOperation
<1>3. g \in LoggedNames /\ q.method \in LoggedVerbs[g] /\ target = LoggedTarget[g]
  BY <1>1, <1>2, LoggedForms DEF SubresourceNames
<1>4. Known = {g}
  BY <1>1, <1>3, LoggedParams DEF Known
<1>5. q.path # <<Blank>>
  <2>1. BucketIn(q.path) # NoBucket
    BY HandledHasBucket DEF BucketIn
  <2> QED BY <2>1, NotTheRoot
<1> QED BY <1>2, <1>3, <1>4, <1>5, KnownIsLogged

LEMMA ForwardedIsLogged ==
  ASSUME DInv, OneOperation, outcome.kind = "forwarded", Operation \in LoggedOperations
  PROVE  InferAPIMethod = Operation
<1>1. BucketIn(q.path) = NoBucket => q.path = <<Blank>>
  <2>1. /\ q.path \in Seq(STRING) /\ Len(q.path) > 0 /\ q.path[1] # NoBucket
        /\ q.path[1] = Blank => Len(q.path) = 1
    BY DispatchAssumption, RootOrNamed DEF DInv, Explained
  <2> QED BY <2>1 DEF BucketIn
<1>2. CASE Operation = <<q.method, "none", Meant>> /\ \A name : ~HasQueryKey(name)
  <2>1. Known = {} /\ ~HasQueryKey("delete")
    BY <1>2 DEF Known
  <2>2. \/ q.method = "GET" /\ Meant = "service"
        \/ q.method \in {"GET", "HEAD", "PUT", "DELETE"} /\ Meant \in {"bucket", "object"}
    BY <1>2, LoggedForms DEF LoggedNames
  <2>3. CASE BucketIn(q.path) = NoBucket
    <3>1. InferAPIMethod = Plainly("service") /\ Meant = "service"
      BY <1>1, <2>3 DEF InferAPIMethod, Meant
    <3> QED BY <1>2, <2>2, <3>1 DEF Plainly
  <2>4. CASE BucketIn(q.path) # NoBucket
    <3>1. InferAPIMethod = Plainly(Target)
      BY <2>1, <2>4, NotTheRoot DEF InferAPIMethod, Known
    <3>2. Meant = Target /\ Target # "service"
      BY <2>4 DEF Meant, Target
    <3> QED BY <1>2, <2>2, <3>1, <3>2 DEF Plainly
  <2> QED BY <2>3, <2>4
<1>3. ASSUME NEW p \in Params \ {"restore"},
             Operation = <<q.method, p, Meant>>, \A name : HasQueryKey(name) <=> name = p
      PROVE  InferAPIMethod = Operation
  <2>1. \/ p = "delete" /\ q.method = "POST" /\ Meant = "bucket"
        \/ p \in LoggedNames /\ q.method \in LoggedVerbs[p] /\ Meant = LoggedTarget[p]
    BY <1>3, LoggedForms, ParamNames DEF SubresourceNames
  <2>2. q.path # <<Blank>>
    <3>1. Meant # "service"
      BY <2>1 DEF LoggedTarget, LoggedNames
    <3> QED BY <3>1, NotTheRoot DEF Meant
  <2>3. CASE p = "delete" /\ q.method = "POST" /\ Meant = "bucket"
    <3>1. Known = {} /\ HasQueryKey("delete")
      BY <1>3, <2>3, LoggedParams DEF Known, LoggedNames
    <3> QED BY <1>3, <2>2, <2>3, <3>1 DEF InferAPIMethod, Known
  <2>4. CASE p \in LoggedNames /\ q.method \in LoggedVerbs[p] /\ Meant = LoggedTarget[p]
    <3>1. Known = {p}
      BY <1>3, <2>4, LoggedParams DEF Known
    <3> QED BY <1>3, <2>2, <2>4, <3>1, KnownIsLogged
  <2> QED BY <2>1, <2>3, <2>4
<1>4. ~(Operation = <<q.method, "copy", Meant>>)
  BY LoggedForms DEF LoggedNames
<1> QED BY <1>2, <1>3, <1>4, ForwardedOperation

(* The request log names verb, subresource and target of what was done,    *)
(* wherever it has a name for it, for paths of any length.                 *)
THEOREM Logged == Spec => []LoggedAsDone
<1>1. DInv => LoggedAsDone
  BY HandledIsLogged, ForwardedIsLogged DEF LoggedAsDone, OneOperation
<1> QED BY <1>1, DispatchInvariant, PTL

-----------------------------------------------------------------------------
LEMMA FirstOfFeatures ==
  \A g \in Features : \E i \in 1..Len(Gates) : Gates[i] = g
BY DEF Features

(* The gates share out the requests: a request that does not pass them all *)
(* is stopped by one of them, and by no other (handleS3Request).           *)
THEOREM OneGate ==
  (\E g \in Features : StopsAt(g)) <=>
    \E g \in Features : StoppedBy(g) /\ \A h \in Features : StoppedBy(h) => h = g
<1> DEFINE stops == {i \in 1..Len(Gates) : StopsAt(Gates[i])}
<1>1. Len(Gates) \in Nat
  BY DEF Gates, Subresources
<1>2. ASSUME NEW g \in Features, StopsAt(g)
      PROVE  \E f \in Features : StoppedBy(f) /\ \A h \in Features : StoppedBy(h) => h = f
  <2>1. stops # {} /\ stops \subseteq Nat
    BY <1>2, FirstOfFeatures
  <2>2. PICK i \in stops : \A j \in stops : ~(<<j, i>> \in OpToRel(<, Nat))
    BY <2>1, WFMin, NatLessThanWellFounded
  <2>3. i \in 1..Len(Gates) /\ StopsAt(Gates[i]) /\ \A j \in stops : ~(j < i)
    BY <2>1, <2>2 DEF OpToRel
  <2>4. \A j \in 1..(i - 1) : j \in 1..Len(Gates) /\ j < i
    BY <1>1, <2>3
  <2>5. StoppedBy(Gates[i]) /\ Gates[i] \in Features
    BY <2>3, <2>4 DEF StoppedBy, Features
  <2>6. ASSUME NEW h \in Features, StoppedBy(h) PROVE h = Gates[i]
    <3>1. PICK k \in 1..Len(Gates) :
            Gates[k] = h /\ StopsAt(h) /\ \A j \in 1..(k - 1) : ~StopsAt(Gates[j])
      BY <2>6 DEF StoppedBy
    <3>2. ~(k < i)
      BY <2>3, <3>1
    <3>3. ~(i < k)
      <4>1. i < k => i \in 1..(k - 1)
        BY <1>1, <2>3, <3>1
      <4> QED BY <2>3, <3>1, <4>1
    <3>4. k = i
      BY <1>1, <2>3, <3>1, <3>2, <3>3
    <3> QED BY <3>1, <3>4
  <2> QED BY <2>5, <2>6
<1>3. \A g \in Features : StoppedBy(g) => StopsAt(g)
  BY DEF StoppedBy
<1> QED BY <1>2, <1>3
=============================================================================
