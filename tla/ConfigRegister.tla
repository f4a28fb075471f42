------------------------- MODULE ConfigRegister --------------------------
(***************************************************************************)
(* What PUT, GET and DELETE of a bucket's ?lifecycle, ?cors, ?logging and  *)
(* ?website promise: the bucket has one register per subresource. A write  *)
(* replaces its own register whole, in one step between request and answer *)
(* and at most once; a GET returns a value its register had in between.    *)
(* Only a request that is answered with an error may take effect later, or *)
(* never. Others (the console, another tool) write the registers too.      *)
(***************************************************************************)
CONSTANTS Requests, Subs, Configs, Nothing

VARIABLES registers, op

cvars == <<registers, op>>

Fresh == [phase |-> "idle", kind |-> "GET", sub |-> "none", want |-> Nothing,
          done |-> FALSE, got |-> Nothing]

CInit == registers \in [Subs -> Configs] /\ op = [r \in Requests |-> Fresh]

(* A request that has just been made. *)
Made(kinds, wants) ==
  [phase : {"open"}, kind : kinds, sub : Subs, want : wants, done : {FALSE}, got : {Nothing}]

Open(r) ==
  /\ op[r].phase = "idle"
  /\ op'[r] \in Made({"PUT"}, Configs) \cup Made({"GET", "DELETE"}, {Nothing})
  /\ op' = [op EXCEPT ![r] = op'[r]]
  /\ UNCHANGED registers

(* The one moment at which a request meets its register. *)
Meets(r) == op[r].phase \in {"open", "error"} /\ ~op[r].done

Write(r) ==
  /\ Meets(r) /\ op[r].kind # "GET"
  /\ registers' = [registers EXCEPT ![op[r].sub] = op[r].want]
  /\ op' = [op EXCEPT ![r].done = TRUE]

Read(r) ==
  /\ Meets(r) /\ op[r].kind = "GET"
  /\ op' = [op EXCEPT ![r].done = TRUE, ![r].got = registers[op[r].sub]]
  /\ UNCHANGED registers

Answer(r) ==
  /\ op[r].phase = "open"
  /\ \/ op[r].done /\ op' = [op EXCEPT ![r].phase = "ok"]
     \/ op' = [op EXCEPT ![r].phase = "error"]
  /\ UNCHANGED registers

Administer == registers' \in [Subs -> Configs] /\ UNCHANGED op

CNext ==
  \/ Administer
  \/ \E r \in Requests : Open(r) \/ Write(r) \/ Read(r) \/ Answer(r)

CSpec == CInit /\ [][CNext]_cvars
=============================================================================
