---------------------------- MODULE CredGate ----------------------------
(***************************************************************************)
(* Requests against the credential store: the gate at the top of           *)
(* handleS3Request, validateClientCredential, and the Director, which      *)
(* signs the outgoing request with the pair the gate left in the request's *)
(* context. Every load of the store is a step of its own, so reloads and   *)
(* other requests come between them.                                       *)
(*                                                                         *)
(* What happens to a request between the gate and the Director (routing,   *)
(* feature flags, the control-plane handlers, which do not sign) is one    *)
(* outcome here, "handled".                                                *)
(***************************************************************************)
EXTENDS CredStore

CONSTANTS
  Clients,  \* one request at a time each
  NoKey     \* no usable Credential= in the header nor in the query string

ASSUME NoKeyAssumption == NoKey \notin AccessKeys \cup {Blank}

VARIABLE
  req   \* per client: where its goroutine is, the key it presents, the pair
        \* in its context and the version it came from, the store's version
        \* when it arrived, and the answer

gvars == <<env, published, queue, proc, conf, store, storeVer, wpc, timer,
           readVer, stopped, missed, req>>

NoCreds == <<>>
Idle == [pc |-> "idle", ak |-> NoKey, creds |-> NoCreds, ver |-> 0, from |-> 0,
         resp |-> "none"]

Answers == {"none", "AccessDenied", "InvalidAccessKeyId", "empty200", "handled",
            "signed", "fallback", "unsigned"}

ReqType ==
  [pc : {"idle", "gate", "validate", "lookup", "route", "done"},
   ak : AccessKeys \cup {NoKey},
   creds : {NoCreds} \cup (AccessKeys \X Secrets),
   ver : 0..MaxPublish, from : 0..MaxPublish, resp : Answers]

GTypeOK == TypeOK /\ req \in [Clients -> ReqType]

GInit == Init /\ req = [c \in Clients |-> Idle]

-----------------------------------------------------------------------------
(* A request arrives. ak is what ExtractAccessKey or                       *)
(* ExtractAccessKeyFromQuery will make of it: the key id before the first  *)
(* slash of Credential=, or NoKey.                                         *)
MutArrive(c, ak) ==
  /\ proc = "serving"
  /\ req[c].pc \in {"idle", "done"}
  /\ req' = [req EXCEPT ![c] = [pc |-> "gate", ak |-> ak, creds |-> req[c].creds,
                                ver |-> req[c].ver, from |-> storeVer, resp |-> "none"]]
  /\ UNCHANGED vars
Arrive(c, ak) ==
  /\ proc = "serving"
  /\ req[c].pc \in {"idle", "done"}
  /\ req' = [req EXCEPT ![c] = [pc |-> "gate", ak |-> ak, creds |-> NoCreds, ver |-> 0,
                                from |-> storeVer, resp |-> "none"]]
  /\ UNCHANGED vars

Goes(c, pc) == req' = [req EXCEPT ![c].pc = pc] /\ UNCHANGED vars
Answered(c, resp) ==
  req' = [req EXCEPT ![c].pc = "done", ![c].resp = resp] /\ UNCHANGED vars

(* handleS3Request: if hmacCredentials.Size() > 0 { validate... } *)
Gate(c) ==
  /\ req[c].pc = "gate"
  /\ \/ store # EmptyMap /\ Goes(c, "validate")
     \/ store = EmptyMap /\ Goes(c, "route")

(* validateClientCredential loads the size again; on an empty store it     *)
(* returns false without having written a response, and so does its        *)
(* caller. Then it extracts the key from the header or the query.          *)
Validate(c) ==
  /\ req[c].pc = "validate"
  /\ \/ store = EmptyMap /\ Answered(c, "empty200")
     \/ store # EmptyMap /\ req[c].ak = NoKey /\ Answered(c, "AccessDenied")
     \/ store # EmptyMap /\ req[c].ak # NoKey /\ Goes(c, "lookup")

(* hmacCredentials.Lookup(ak); a hit goes into the request's context. *)
MutLookupUnchecked(c) ==
  /\ req[c].pc = "lookup"
  /\ req' = [req EXCEPT
       ![c].pc = "route", ![c].ver = storeVer,
       ![c].creds = <<req[c].ak, IF req[c].ak \in DOMAIN store THEN store[req[c].ak]
                                                               ELSE Blank>>]
  /\ UNCHANGED vars
MutLookupLenient(c) ==
  /\ req[c].pc = "lookup"
  /\ \/ /\ req[c].ak \in DOMAIN store
        /\ req' = [req EXCEPT ![c].pc = "route",
                              ![c].creds = <<req[c].ak, store[req[c].ak]>>,
                              ![c].ver = storeVer]
        /\ UNCHANGED vars
     \/ req[c].ak \notin DOMAIN store /\ Goes(c, "route")
Lookup(c) ==
  /\ req[c].pc = "lookup"
  /\ \/ /\ req[c].ak \in DOMAIN store
        /\ req' = [req EXCEPT ![c].pc = "route",
                              ![c].creds = <<req[c].ak, store[req[c].ak]>>,
                              ![c].ver = storeVer]
        /\ UNCHANGED vars
     \/ req[c].ak \notin DOMAIN store /\ Answered(c, "InvalidAccessKeyId")

(* The request is answered without reaching the Director. *)
Handle(c) == req[c].pc = "route" /\ Answered(c, "handled")

(* The Director: credentials from the context, else PROXY_AWS_*, else the  *)
(* request leaves unsigned.                                                *)
Sign(c) ==
  /\ req[c].pc = "route"
  /\ \/ req[c].creds # NoCreds /\ Answered(c, "signed")
     \/ req[c].creds = NoCreds /\ env.legacy /\ Answered(c, "fallback")
     \/ req[c].creds = NoCreds /\ ~env.legacy /\ Answered(c, "unsigned")

RequestStep ==
  \E c \in Clients :
     \/ \E ak \in AccessKeys \cup {NoKey} : Arrive(c, ak)
     \/ Gate(c) \/ Validate(c) \/ Lookup(c) \/ Handle(c) \/ Sign(c)

(* Requests die with the process. *)
GCrash == Crash /\ req' = [c \in Clients |-> Idle]

StoreStep ==
  /\ ProcessStep \/ WatcherStep \/ FileStep \/ Stop \/ Restart
  /\ UNCHANGED req

GNext == RequestStep \/ StoreStep \/ GCrash

GSpec == GInit /\ [][GNext]_gvars

-----------------------------------------------------------------------------
(* Properties.                                                             *)

(* The two Size() loads of one request never disagree in the direction     *)
(* that makes both functions return without a response (net/http would     *)
(* send an empty 200).                                                     *)
NoEmptyAnswer == \A c \in Clients : req[c].resp # "empty200"

(* A request is signed with the key its client presented and the secret    *)
(* one version of the map gave that key; never with another client's pair, *)
(* and never with a version older than the one in force when it arrived.   *)
SignedWithOwnPair ==
  \A c \in Clients :
    req[c].creds # NoCreds =>
      /\ req[c].creds[1] = req[c].ak
      /\ req[c].from <= req[c].ver /\ req[c].ver <= storeVer
      /\ req[c].ver > 0 => /\ req[c].ak \in DOMAIN published[req[c].ver]
                           /\ req[c].creds[2] = published[req[c].ver][req[c].ak]

(* A map of clients' keys is configured, and HMAC_STRICT is on, as it is   *)
(* by default then (settings.go:282). Nothing in the code depends on it.   *)
Strict == env.strict /\ (env.file \/ env.inline)

(* A strict proxy never signs with the proxy-wide pair in a client's       *)
(* place, nor sends a request unsigned (README.md:28): both need a request *)
(* that passed the gate while the store was empty. Nothing is said here    *)
(* of HMAC_STRICT=false and of the legacy pair alone, where README.md:28,  *)
(* CHANGELOG.md:133-137 and settings.go:97-104 have unknown keys fall      *)
(* through to that pair; the code refuses them all the same.               *)
NoFallback ==
  Strict => \A c \in Clients : req[c].resp \notin {"fallback", "unsigned"}

(* The three loads of a request look like one: the gate and the store      *)
(* implement CredAuthority, with the map in the store as the map in force. *)
(* What becomes of an unknown key is promised of a strict proxy only: of   *)
(* any other CredAuthority allows both what the documents say of           *)
(* HMAC_STRICT=false and what the code does.                               *)
StateOf(r) ==
  CASE r.pc = "idle"                               -> "none"
    [] r.pc \in {"gate", "validate", "lookup"}     -> "asked"
    [] r.pc = "route"                              -> "granted"
    [] r.pc = "done" /\ r.resp \in {"handled", "signed", "fallback", "unsigned"}
                                                   -> "granted"
    [] r.pc = "done" /\ r.resp \in {"AccessDenied", "InvalidAccessKeyId"}
                                                   -> "refused"
    [] r.pc = "done" /\ r.resp \in {"none", "empty200"} -> "unanswered"

SessionOf(r) == [state |-> StateOf(r), ak |-> r.ak, pair |-> r.creds]

Authority == INSTANCE CredAuthority WITH
  AuthMaps <- Maps \cup {LegacyMap}, inForce <- store, strict <- Strict,
  session <- [c \in Clients |-> SessionOf(req[c])]

(* Every behaviour of store, watcher and gate is one of CredAuthority. *)
ImplementsAuthority == Authority!ASpec
=============================================================================
