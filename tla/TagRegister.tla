--------------------------- MODULE TagRegister ---------------------------
(***************************************************************************)
(* What PUT, GET and DELETE ?tagging promise to S3 clients: the tag set of *)
(* an object is one register. A PUT replaces it whole, a DELETE empties    *)
(* it, each in one step between the request and its answer and at most     *)
(* once; a GET returns a value the register had in between. Only a request *)
(* that is answered with an error may take effect later, or never.         *)
(* The promise ends when the object is replaced by another one.            *)
(***************************************************************************)
CONSTANTS Requests, TagSets, NoTags, Gone

VARIABLES
  register,  \* the tag set, or Gone
  op,        \* the requests
  replaced   \* the object is not the one it was

rvars == <<register, op, replaced>>

Fresh == [phase |-> "idle", kind |-> "GET", want |-> NoTags, applied |-> FALSE,
          got |-> NoTags]

RInit ==
  /\ register \in TagSets \cup {Gone}
  /\ op = [r \in Requests |-> Fresh]
  /\ replaced = FALSE

(* A request that has just been made. *)
Made(kinds, wants) ==
  [phase : {"open"}, kind : kinds, want : wants, applied : {FALSE}, got : {NoTags}]

Open(r) ==
  /\ op[r].phase = "idle"
  /\ op'[r] \in Made({"PUT"}, TagSets) \cup Made({"GET", "DELETE"}, {NoTags})
  /\ op' = [op EXCEPT ![r] = op'[r]]
  /\ UNCHANGED register

(* The one moment a write takes effect. *)
Take(r) ==
  /\ op[r].phase \in {"open", "error"} /\ op[r].kind # "GET"
  /\ ~op[r].applied /\ register # Gone
  /\ register' = op[r].want
  /\ op' = [op EXCEPT ![r].applied = TRUE]

Answer(r) ==
  /\ op[r].phase = "open" /\ op[r].kind # "GET" /\ op[r].applied
  /\ op' = [op EXCEPT ![r].phase = "ok"]
  /\ UNCHANGED register

AnswerGet(r) ==
  /\ op[r].phase = "open" /\ op[r].kind = "GET" /\ register # Gone
  /\ op' = [op EXCEPT ![r].phase = "ok", ![r].got = register]
  /\ UNCHANGED register

Fail(r) ==
  /\ op[r].phase = "open"
  /\ op' = [op EXCEPT ![r].phase = "error"]
  /\ UNCHANGED register

(* The object itself goes away; nothing here brings it back. *)
Vanish == register' = Gone /\ UNCHANGED op

Step ==
  \/ \E r \in Requests : Open(r) \/ Take(r) \/ Answer(r) \/ AnswerGet(r) \/ Fail(r)
  \/ Vanish

RNext ==
  \/ ~replaced /\ Step /\ UNCHANGED replaced
  \/ replaced' = TRUE

RSpec == RInit /\ [][RNext]_rvars
=============================================================================
