------------------------- MODULE RequestPipeline -------------------------
(***************************************************************************)
(* What main() wraps around every request: request log, Recoverer, metrics,*)
(* structured log and throttle, each with a ResponseWriter of its own, and *)
(* the server's shutdown. The handler in the middle is abstract: it may    *)
(* pass on an informational answer, write a header and a body, return, or  *)
(* panic (httputil.ReverseProxy panics with ErrAbortHandler when a body    *)
(* breaks off).                                                            *)
(*                                                                         *)
(* External: net/http, chi's Recoverer and Throttle, and ymlog's channel.  *)
(***************************************************************************)
EXTENDS Naturals, FiniteSets

CONSTANTS
  Requests,   \* requests, each of which arrives once
  Limit,      \* MAX_CONCURRENT_REQUESTS; no less than |Requests| is no limit
  Finals,     \* final status codes the handler writes
  Hints,      \* informational (1xx) codes that the upstream may send first
  OK200, Error500, Busy  \* 200; 500; what the throttle answers (429 in chi)

None == 0
Statuses == Finals \cup Hints \cup {OK200, Error500, Busy}

ASSUME PipelineAssumption ==
  /\ IsFiniteSet(Requests) /\ Limit \in Nat \ {0}
  /\ Statuses \subseteq Nat \ {0}
  /\ Hints \cap (Finals \cup {OK200, Error500, Busy}) = {}

(* Operators named Mut... are plausible bugs in the definition that        *)
(* follows them; nothing uses them.                                        *)

VARIABLES
  server,    \* "up", "draining" after SIGTERM, "gone"
  reqLog,    \* config.Config.ReqLogEnabled
  req,       \* per request: its goroutine and the writers it is wrapped in
  inFlight,  \* the gauge s3proxy_in_flight_requests
  inside,    \* tokens the throttle has handed out
  counted,   \* s3proxy_http_requests_total, per request: the labels counted
  line,      \* the structured log line of a request, None if there is none
  channel,   \* reqlog lines on their way to the writer
  file       \* requests with a line in the reqlog file

vars == <<server, reqLog, req, inFlight, inside, counted, line, channel, file>>

(* One stage per layer a request is in, on its way in and on its way out.  *)
Metered == {"throttle", "handler", "release", "observe", "meter"}
Admitted == {"handler", "release"}
Stages == Metered \cup {"idle", "recover", "log", "finish", "done", "cut"}

(* wire: what the client got. latched, meter: countingResponseWriter.      *)
(* observed, logged: the statusRecorders of observabilityMiddleware and of *)
(* reqlog. panic: none, a bug in the handler, or ErrAbortHandler. hint:    *)
(* history, an informational answer went through.                          *)
ReqType ==
  [pc : Stages, wire : Statuses \cup {None}, latched : BOOLEAN, meter : Statuses,
   observed : Statuses, logged : Statuses, panic : {"no", "bug", "abort"},
   hint : BOOLEAN, answer : Statuses \cup {None}]

Fresh == [pc |-> "idle", wire |-> None, latched |-> FALSE, meter |-> OK200,
          observed |-> OK200, logged |-> OK200, panic |-> "no", hint |-> FALSE,
          answer |-> None]

TypeOK ==
  /\ server \in {"up", "draining", "gone"} /\ reqLog \in BOOLEAN
  /\ req \in [Requests -> ReqType]
  /\ inFlight \in Nat /\ inside \in Nat
  /\ counted \in [Requests -> [Statuses -> Nat]]
  /\ line \in [Requests -> Statuses \cup {None}]
  /\ channel \subseteq Requests /\ file \subseteq Requests

Init ==
  /\ server = "up" /\ reqLog \in BOOLEAN
  /\ req = [r \in Requests |-> Fresh]
  /\ inFlight = 0 /\ inside = 0
  /\ counted = [r \in Requests |-> [s \in Statuses |-> 0]]
  /\ line = [r \in Requests |-> None]
  /\ channel = {} /\ file = {}

-----------------------------------------------------------------------------
(* The chain of ResponseWriters, outermost last.                           *)

(* net/http: informational codes go out at once, the first other one stays. *)
OnWire(wire, code) == IF wire # None \/ code \in Hints THEN wire ELSE code

(* WriteHeader: the two recorders overwrite their status and pass it on,   *)
(* the counting writer lets only the first call through.                   *)
WriteHeader(q, code) ==
  IF q.latched THEN [q EXCEPT !.observed = code]
  ELSE [q EXCEPT !.observed = code, !.latched = TRUE, !.meter = code,
                 !.logged = code, !.wire = OnWire(@, code)]

(* Write without a header means 200, for the counting writer and on the wire. *)
Write(q) ==
  [q EXCEPT !.latched = TRUE, !.meter = IF q.latched THEN @ ELSE OK200,
            !.wire = IF @ = None THEN OK200 ELSE @]

-----------------------------------------------------------------------------
Serving == server # "gone"
Becomes(r, q) == req' = [req EXCEPT ![r] = q]
At(r, stage) == Serving /\ req[r].pc = stage
Unlogged == UNCHANGED <<server, reqLog, counted, line, channel, file>>

(* A request arrives and enters reqlog, Recoverer, WithMetrics and         *)
(* observabilityMiddleware.                                                *)
Arrive(r) ==
  /\ server = "up" /\ req[r].pc = "idle"
  /\ Becomes(r, [Fresh EXCEPT !.pc = "throttle"])
  /\ inFlight' = inFlight + 1
  /\ UNCHANGED inside /\ Unlogged

Admit(r) ==
  /\ At(r, "throttle") /\ inside < Limit
  /\ Becomes(r, [req[r] EXCEPT !.pc = "handler"])
  /\ inside' = inside + 1
  /\ UNCHANGED inFlight /\ Unlogged

(* No token is left, or the client has already gone away. *)
Reject(r) ==
  /\ At(r, "throttle")
  /\ Becomes(r, [Write(WriteHeader(req[r], Busy)) EXCEPT !.pc = "observe", !.answer = Busy])
  /\ UNCHANGED <<inFlight, inside>> /\ Unlogged

HandlerKeeps == UNCHANGED <<inFlight, inside>> /\ Unlogged

(* ReverseProxy passes on an informational answer of the upstream. *)
Inform(r) ==
  /\ At(r, "handler") /\ req[r].answer = None
  /\ \E code \in Hints : Becomes(r, [WriteHeader(req[r], code) EXCEPT !.hint = TRUE])
  /\ HandlerKeeps

Answer(r) ==
  /\ At(r, "handler") /\ req[r].answer = None
  /\ \E code \in Finals : Becomes(r, [WriteHeader(req[r], code) EXCEPT !.answer = code])
  /\ HandlerKeeps

Body(r) ==
  /\ At(r, "handler") /\ req[r].answer # None
  /\ Becomes(r, Write(req[r]))
  /\ HandlerKeeps

Return(r) ==
  /\ At(r, "handler")
  /\ Becomes(r, [req[r] EXCEPT !.pc = "release"])
  /\ HandlerKeeps

(* A body breaks off after the header was written, or the code has a bug. *)
Panic(r) ==
  /\ At(r, "handler")
  /\ \E kind \in {"bug", "abort"} :
       /\ kind = "abort" => req[r].answer # None
       /\ Becomes(r, [req[r] EXCEPT !.pc = "release", !.panic = kind])
  /\ HandlerKeeps

-----------------------------------------------------------------------------
(* The way out. A panic unwinds through the same layers.                   *)

(* The throttle gives its token back in a deferred function. *)
MutRelease(r) ==
  /\ At(r, "release")
  /\ Becomes(r, [req[r] EXCEPT !.pc = "observe"])
  /\ inside' = IF req[r].panic = "no" THEN inside - 1 ELSE inside
  /\ UNCHANGED inFlight /\ Unlogged
Release(r) ==
  /\ At(r, "release")
  /\ Becomes(r, [req[r] EXCEPT !.pc = "observe"])
  /\ inside' = inside - 1
  /\ UNCHANGED inFlight /\ Unlogged

(* observabilityMiddleware logs after next.ServeHTTP returns: not deferred. *)
MutObserve(r) ==
  /\ At(r, "observe")
  /\ Becomes(r, [req[r] EXCEPT !.pc = "meter"])
  /\ line' = [line EXCEPT ![r] = req[r].observed]
  /\ UNCHANGED <<server, reqLog, inFlight, inside, counted, channel, file>>
Observe(r) ==
  /\ At(r, "observe")
  /\ Becomes(r, [req[r] EXCEPT !.pc = "meter"])
  /\ line' = IF req[r].panic = "no" THEN [line EXCEPT ![r] = req[r].observed] ELSE line
  /\ UNCHANGED <<server, reqLog, inFlight, inside, counted, channel, file>>

(* The label: a panic before any header counts as 500. *)
MutLabel(q) == q.meter
Label(q) == IF q.panic # "no" /\ ~q.latched THEN Error500 ELSE q.meter

(* WithMetrics' deferred function; a panic goes on to Recoverer. *)
MutMeter(r) ==
  /\ At(r, "meter")
  /\ Becomes(r, [req[r] EXCEPT !.pc = IF req[r].panic = "no" THEN "log" ELSE "recover"])
  /\ inFlight' = IF req[r].panic = "no" THEN inFlight - 1 ELSE inFlight
  /\ counted' = [counted EXCEPT ![r][Label(req[r])] = @ + 1]
  /\ UNCHANGED <<server, reqLog, inside, line, channel, file>>
MutMeterTwice(r) ==
  /\ At(r, "meter")
  /\ Becomes(r, [req[r] EXCEPT !.pc = "recover"])
  /\ inFlight' = inFlight - (IF req[r].panic = "no" THEN 1 ELSE 2)
  /\ counted' = [counted EXCEPT ![r][Label(req[r])] = @ + 1]
  /\ UNCHANGED <<server, reqLog, inside, line, channel, file>>
Meter(r) ==
  /\ At(r, "meter")
  /\ Becomes(r, [req[r] EXCEPT !.pc = IF req[r].panic = "no" THEN "log" ELSE "recover"])
  /\ inFlight' = inFlight - 1
  /\ counted' = [counted EXCEPT ![r][Label(req[r])] = @ + 1]
  /\ UNCHANGED <<server, reqLog, inside, line, channel, file>>

(* Recoverer re-panics ErrAbortHandler; after any other panic it writes a  *)
(* 500 through reqlog's recorder, which keeps it even if it comes too late. *)
MutRecover(r) ==
  /\ At(r, "recover")
  /\ Becomes(r,
       IF req[r].panic = "abort" THEN [req[r] EXCEPT !.pc = "finish"]
       ELSE [req[r] EXCEPT !.pc = "log", !.wire = OnWire(@, Error500)])
  /\ HandlerKeeps
Recover(r) ==
  /\ At(r, "recover")
  /\ Becomes(r,
       IF req[r].panic = "abort" THEN [req[r] EXCEPT !.pc = "finish"]
       ELSE [req[r] EXCEPT !.pc = "log", !.logged = Error500,
                           !.wire = OnWire(@, Error500)])
  /\ HandlerKeeps

(* reqlog.Middleware sends its line after next.ServeHTTP returns. *)
MutLogLine(r) ==
  /\ At(r, "log")
  /\ Becomes(r, [req[r] EXCEPT !.pc = "finish"])
  /\ channel' = IF reqLog /\ req[r].panic = "no" THEN channel \cup {r} ELSE channel
  /\ UNCHANGED <<server, reqLog, inFlight, inside, counted, line, file>>
LogLine(r) ==
  /\ At(r, "log")
  /\ Becomes(r, [req[r] EXCEPT !.pc = "finish"])
  /\ channel' = IF reqLog THEN channel \cup {r} ELSE channel
  /\ UNCHANGED <<server, reqLog, inFlight, inside, counted, line, file>>

(* net/http: an answer that was never begun is a 200, unless the handler   *)
(* aborted; then the connection is closed.                                 *)
Finish(r) ==
  /\ At(r, "finish")
  /\ Becomes(r, [req[r] EXCEPT
       !.pc = "done", !.wire = IF @ = None /\ req[r].panic # "abort" THEN OK200 ELSE @])
  /\ HandlerKeeps

(* ymlog's goroutine writes a line to the file. *)
WriteLine(r) ==
  /\ Serving /\ r \in channel
  /\ channel' = channel \ {r} /\ file' = file \cup {r}
  /\ UNCHANGED <<server, reqLog, req, inFlight, inside, counted, line>>

-----------------------------------------------------------------------------
(* main() after the server has started.                                    *)

Idle == \A r \in Requests : req[r].pc \in {"idle", "done"}

(* The process ends: what is in memory is gone, open connections break. *)
Exit ==
  /\ server' = "gone"
  /\ req' = [r \in Requests |-> IF req[r].pc \in {"idle", "done"} THEN req[r]
                                ELSE [req[r] EXCEPT !.pc = "cut"]]
  /\ channel' = {} /\ inFlight' = 0 /\ inside' = 0
  /\ UNCHANGED <<reqLog, counted, line, file>>

(* SIGTERM or SIGINT: srv.Shutdown stops accepting. *)
Signal ==
  /\ server = "up" /\ server' = "draining"
  /\ UNCHANGED <<reqLog, req, inFlight, inside, counted, line, channel, file>>

(* srv.Shutdown returns when every connection is idle ... *)
Drained == server = "draining" /\ Idle /\ Exit

(* ... or when its 10 s are over, and srv.Close follows. *)
MutDrainTimeout == server = "draining" /\ Idle /\ Exit
DrainTimeout == server = "draining" /\ Exit

(* ListenAndServe returns an error: main returns at once. *)
ServerError == server = "up" /\ Exit

-----------------------------------------------------------------------------
WayIn(r) == Arrive(r) \/ Admit(r) \/ Reject(r)
Handler(r) == Inform(r) \/ Answer(r) \/ Body(r) \/ Return(r) \/ Panic(r)
WayOut(r) == \/ Release(r) \/ Observe(r) \/ Meter(r) \/ Recover(r) \/ LogLine(r)
             \/ Finish(r) \/ WriteLine(r)
Life == Signal \/ Drained \/ DrainTimeout \/ ServerError

Next == (\E r \in Requests : WayIn(r) \/ Handler(r) \/ WayOut(r)) \/ Life

(* A goroutine on its way out runs on; time passes. A handler may hang: no *)
(* timeout bounds a body that is being streamed.                           *)
Fairness ==
  /\ \A r \in Requests : WF_vars(WayOut(r))
  /\ WF_vars(DrainTimeout)

Spec == Init /\ [][Next]_vars /\ Fairness

-----------------------------------------------------------------------------
(* Properties.                                                             *)

(* The gauge that SLO.md watches for saturation is exact: no request that  *)
(* panicked, was rejected or cut off leaks out of it (WithMetrics defers   *)
(* its Dec).                                                               *)
GaugeIsExact ==
  Serving => inFlight = Cardinality({r \in Requests : req[r].pc \in Metered})

(* The throttle never lets more than Limit requests through, and no panic  *)
(* costs it a token: what it has handed out is in use.                     *)
TokensConserved ==
  /\ inside <= Limit
  /\ Serving => inside = Cardinality({r \in Requests : req[r].pc \in Admitted})

(* Every request that came to an end is counted once, under the status its *)
(* client received, whichever way it ended: answered, rejected, recovered  *)
(* from a panic or broken off (the comment in WithMetrics on coercing the  *)
(* status). After an informational answer, which the counting writer takes *)
(* for the final one, dropping that (metrics.go:334), it is counted under  *)
(* the informational status, once, and whatever the handler answered its   *)
(* client gets a 200, the 500 of Recoverer, or, cut short, no status.      *)
CountedAsReceived ==
  \A r \in Requests : req[r].pc = "done" =>
    \E label \in Statuses :
      /\ \A s \in Statuses : counted[r][s] = IF s = label THEN 1 ELSE 0
      /\ IF req[r].hint THEN label \in Hints /\ req[r].wire \in {OK200, Error500, None}
         ELSE label = req[r].wire

(* The structured log agrees with the metrics: a request that has a line   *)
(* is counted under the status in that line.                               *)
LineAgreesWithLabel ==
  \A r \in Requests :
    req[r].pc \in {"log", "finish", "done"} /\ line[r] # None /\ ~req[r].hint
      => counted[r][line[r]] = 1

(* The reqlog file tells what the client received, unless the handler      *)
(* panicked after it had begun its answer: then Recoverer's late 500 is    *)
(* what the file says (the recorder sits outside of Recoverer, main.go:477). *)
FileTellsStatus ==
  \A r \in Requests :
    /\ req[r].pc = "done" /\ r \in channel \cup file /\ ~req[r].hint
    /\ req[r].logged # req[r].wire
    => req[r].panic = "bug" /\ req[r].latched /\ req[r].logged = Error500

(* A shutdown ends, even if handlers hang (README.md:166). *)
ShutdownEnds == server = "draining" ~> server = "gone"

(* reqlog writes one line for each request (OBSERVABILITY.md:105), but for *)
(* one kind: those whose body broke off, as Recoverer panics again and the *)
(* middleware does not defer. No other ending loses its line.              *)
OnlyAbortsUnlogged ==
  \A r \in Requests :
    Serving /\ reqLog /\ req[r].pc = "done" =>
      (r \notin channel \cup file <=> req[r].panic = "abort")
=============================================================================
