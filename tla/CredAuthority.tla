-------------------------- MODULE CredAuthority --------------------------
(***************************************************************************)
(* What the credential gate promises its clients, without files, watchers  *)
(* or separate loads of the store: there is one map in force, it is        *)
(* replaced whole, and each request is decided in one step against it.     *)
(*                                                                         *)
(* `inForce` is the map, empty while the proxy runs without credentials;   *)
(* from the first Configure on it never is empty again, until the process  *)
(* restarts. session[c] is the request of client c. A strict authority     *)
(* refuses every key that is not in the map; one that is not strict may    *)
(* also let such a request pass without a pair of its own.                 *)
(***************************************************************************)
CONSTANTS Clients, AccessKeys, NoKey, AuthMaps, EmptyMap

VARIABLES inForce, strict, session

avars == <<inForce, strict, session>>

NoSession == [state |-> "none", ak |-> NoKey, pair |-> <<>>]

AInit ==
  /\ inForce = EmptyMap /\ strict \in BOOLEAN
  /\ session = [c \in Clients |-> NoSession]

Configure(m) == inForce' = m /\ UNCHANGED <<strict, session>>

(* The client presents an access key id, or nothing the gate understands. *)
Ask(c, ak) ==
  /\ session[c].state # "asked"
  /\ session' = [session EXCEPT ![c] = [state |-> "asked", ak |-> ak, pair |-> <<>>]]
  /\ UNCHANGED <<inForce, strict>>

Decide(c, state, pair) ==
  /\ session[c].state = "asked"
  /\ session' = [session EXCEPT ![c] = [state |-> state, ak |-> session[c].ak, pair |-> pair]]
  /\ UNCHANGED <<inForce, strict>>

(* The pair handed on is the client's own key with its secret in force. *)
Grant(c) ==
  /\ session[c].ak \in DOMAIN inForce
  /\ Decide(c, "granted", <<session[c].ak, inForce[session[c].ak]>>)

(* Without any map the request goes through with no credentials. *)
PassThrough(c) == inForce = EmptyMap /\ Decide(c, "granted", <<>>)

Unknown(c) == session[c].ak # NoKey /\ session[c].ak \notin DOMAIN inForce

FallThrough(c) == ~strict /\ Unknown(c) /\ Decide(c, "granted", <<>>)

Refuse(c) ==
  /\ inForce # EmptyMap
  /\ session[c].ak = NoKey \/ Unknown(c)
  /\ Decide(c, "refused", <<>>)

(* The process dies: connections are gone and so is the map. *)
Forget ==
  /\ inForce' = EmptyMap /\ UNCHANGED strict
  /\ session' = [c \in Clients |-> NoSession]

ANext ==
  \/ \E m \in AuthMaps : Configure(m)
  \/ \E c \in Clients, ak \in AccessKeys \cup {NoKey} : Ask(c, ak)
  \/ \E c \in Clients : Grant(c) \/ PassThrough(c) \/ FallThrough(c) \/ Refuse(c)
  \/ Forget

ASpec == AInit /\ [][ANext]_avars
=============================================================================
