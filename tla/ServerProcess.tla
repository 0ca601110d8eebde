---------------------------- MODULE ServerProcess ----------------------------
(***************************************************************************)
(* The process (main.go): main's way from start-up through the calls it    *)
(* has deferred to the end, the two contexts the variable ctx stands for,  *)
(* the goroutines that serve gRPC and metrics, the variable err that main  *)
(* and the serving goroutine share, the calls (module UnaryCalls) and the  *)
(* telemetry they leave.                                                   *)
(*                                                                         *)
(* The operating system, the network and the libraries are the             *)
(* environment: a signal may come and Listen, Serve, ListenAndServe,       *)
(* Initialize, NewTracerProvider and Shutdown may fail at any time.        *)
(***************************************************************************)
EXTENDS Sequences

CONSTANTS Clients, Requests  \* as in UnaryCalls

VARIABLES
    main,          \* "auth", "listen", "serve", "tracer", "check", "notify", "wait",
                   \* "return"
    ctx,           \* the context the variable ctx holds: "root" or "signal"
    cancelled,     \* the contexts that are cancelled
    deferred,      \* the deferred calls, the next to run first, each with the context
                   \* it was given when it was deferred
    serving,       \* the serving goroutine: "off", "serving", "failed" or "gone"
    err,           \* err of main, as both goroutines use it: "nil" or "error"
    failedAt,      \* history: where main was when Serve failed, "no" if it has not
    validator, intercepting, request, call,   \* module UnaryCalls
    tracing,       \* the tracer provider: "off", "on", "down" after an orderly Shutdown,
                   \* "cut" after one with a cancelled context
    pending,       \* it has spans that are not exported yet
    signalled,     \* SIGINT or SIGTERM has arrived
    exit           \* "no", an exit status "0", "1" or "2" (panic), or "signal"

serveVars == <<serving, failedAt>>
authVars == <<validator, intercepting>>
callVars == <<request, call>>
traceVars == <<tracing, pending>>
contextVars == <<ctx, cancelled, deferred>>
mainVars == <<main, contextVars>>
vars == <<mainVars, serveVars, err, authVars, callVars, traceVars, signalled, exit>>

UC == INSTANCE UnaryCalls

ASSUME RequestsAssumption == Requests \subseteq UC!RequestSpace

MainPlaces == {"auth", "listen", "serve", "tracer", "check", "notify", "wait", "return"}

Contexts == {"root", "signal"}
Deferred(function, context) == [call |-> function, ctx |-> context]
DeferredCalls == [call : {"cancel", "Shutdown", "stop"}, ctx : Contexts]

TypeOK ==
    /\ main \in MainPlaces
    /\ serving \in {"off", "serving", "failed", "gone"}
    /\ failedAt \in {"no"} \cup (MainPlaces \ {"auth", "listen", "serve"})
    /\ err \in {"nil", "error"}
    /\ validator \in {"unset", "failed", "ready"} /\ intercepting \in BOOLEAN
    /\ ctx \in Contexts /\ cancelled \subseteq Contexts
    /\ deferred \in Seq(DeferredCalls)
    /\ tracing \in {"off", "on", "down", "cut"} /\ pending \in BOOLEAN
    /\ signalled \in BOOLEAN
    /\ exit \in {"no", "0", "1", "2", "signal"}
    /\ UC!TypeOK

\* main has made its context and deferred cancel.
Init ==
    /\ main = "auth"
    /\ ctx = "root" /\ cancelled = {} /\ deferred = <<Deferred("cancel", "root")>>
    /\ serving = "off" /\ failedAt = "no"
    /\ err = "nil"
    /\ validator = "unset" /\ intercepting = FALSE
    /\ UC!Init
    /\ tracing = "off" /\ pending = FALSE
    /\ signalled = FALSE
    /\ exit = "no"

-----------------------------------------------------------------------------
(***************************************************************************)
(* main.                                                                   *)
(***************************************************************************)
\* Mutant of SetUpAuth: a validator that failed to initialize is not kept.
SetUpAuthDropFailed ==
    /\ main = "auth"
    /\ \/ UNCHANGED authVars
       \/ intercepting' = TRUE /\ validator' \in {"unset", "ready"}
    /\ main' = "listen"
    /\ UNCHANGED <<contextVars, serveVars, err, callVars, traceVars, signalled, exit>>

\* Authorization may be disabled; the error of Initialize is only logged. Then the
\* server is put together and the metrics listener started.
SetUpAuth ==
    /\ main = "auth"
    /\ \/ UNCHANGED authVars
       \/ intercepting' = TRUE /\ validator' \in {"failed", "ready"}
    /\ main' = "listen"
    /\ UNCHANGED <<contextVars, serveVars, err, callVars, traceVars, signalled, exit>>

Listen ==
    /\ main = "listen"
    /\ \/ main' = "serve" /\ UNCHANGED <<err, exit>>
       \/ err' = "error" /\ exit' = "1" /\ UNCHANGED main
    /\ UNCHANGED <<contextVars, serveVars, authVars, callVars, traceVars, signalled>>

StartServing ==
    /\ main = "serve"
    /\ serving' = "serving"
    /\ main' = "tracer"
    /\ UNCHANGED <<contextVars, failedAt, err, authVars, callVars, traceVars, signalled, exit>>

\* tracerProvider, err := assigns to the err of Listen, the one the serving
\* goroutine uses.
NewTracerProvider ==
    /\ main = "tracer"
    /\ err' \in {"nil", "error"}
    /\ main' = "check"
    /\ UNCHANGED <<contextVars, serveVars, authVars, callVars, traceVars, signalled, exit>>

\* The provider is put to use, and its Shutdown deferred with the ctx of now.
CheckTracerProvider ==
    /\ main = "check"
    /\ IF err = "nil"
       THEN /\ tracing' = "on" /\ main' = "notify"
            /\ deferred' = <<Deferred("Shutdown", ctx)>> \o deferred
            /\ UNCHANGED exit
       ELSE exit' = "1" /\ UNCHANGED <<tracing, main, deferred>>
    /\ UNCHANGED <<ctx, cancelled, serveVars, err, authVars, callVars, pending, signalled>>

\* ctx, stop := signal.NotifyContext(ctx, ...) assigns to ctx. From here on a signal
\* cancels that context instead of killing the process.
NotifyContext ==
    /\ main = "notify"
    /\ ctx' = "signal"
    /\ deferred' = <<Deferred("stop", "signal")>> \o deferred
    /\ main' = "wait"
    /\ UNCHANGED <<cancelled, serveVars, err, authVars, callVars, traceVars, signalled, exit>>

\* Mutant of WaitForSignal: waits for the serving goroutine as well, which nobody stops.
WaitForServe ==
    /\ main = "wait" /\ ctx \in cancelled /\ serving = "gone"
    /\ main' = "return"
    /\ UNCHANGED <<contextVars, serveVars, err, authVars, callVars, traceVars, signalled, exit>>

\* <-ctx.Done()
WaitForSignal ==
    /\ main = "wait" /\ ctx \in cancelled
    /\ main' = "return"
    /\ UNCHANGED <<contextVars, serveVars, err, authVars, callVars, traceVars, signalled, exit>>

(***************************************************************************)
(* The deferred calls, once main has nothing more to do.                   *)
(***************************************************************************)
Runs(function) ==
    /\ main = "return"
    /\ deferred # <<>> /\ Head(deferred).call = function

\* After stop a signal kills the process again.
RunStop ==
    /\ Runs("stop")
    /\ cancelled' = cancelled \cup {"signal"}
    /\ deferred' = Tail(deferred)
    /\ UNCHANGED <<main, ctx, serveVars, err, authVars, callVars, traceVars, signalled, exit>>

\* Mutant of RunShutdown: the deferred function uses ctx instead of a parameter, and so
\* the context that ctx holds when it runs.
RunShutdownLatest ==
    /\ Runs("Shutdown")
    /\ \/ /\ ctx \notin cancelled
          /\ tracing' = "down" /\ pending' = FALSE
          /\ deferred' = Tail(deferred) /\ UNCHANGED exit
       \/ /\ tracing' = IF ctx \in cancelled THEN "cut" ELSE tracing
          /\ exit' = "1" /\ UNCHANGED <<pending, deferred>>
    /\ UNCHANGED <<main, ctx, cancelled, serveVars, err, authVars, callVars, signalled>>

\* tracerProvider.Shutdown exports what is pending, if its context lets it; its error
\* ends the process.
RunShutdown ==
    /\ Runs("Shutdown")
    /\ \/ /\ Head(deferred).ctx \notin cancelled
          /\ tracing' = "down" /\ pending' = FALSE
          /\ deferred' = Tail(deferred) /\ UNCHANGED exit
       \/ /\ tracing' = IF Head(deferred).ctx \in cancelled THEN "cut" ELSE tracing
          /\ exit' = "1" /\ UNCHANGED <<pending, deferred>>
    /\ UNCHANGED <<main, ctx, cancelled, serveVars, err, authVars, callVars, signalled>>

\* The context of signals is made from the root context and cancelled with it.
RunCancel ==
    /\ Runs("cancel")
    /\ cancelled' = Contexts
    /\ deferred' = Tail(deferred)
    /\ UNCHANGED <<main, ctx, serveVars, err, authVars, callVars, traceVars, signalled, exit>>

ReturnFromMain ==
    /\ main = "return" /\ deferred = <<>>
    /\ exit' = "0"
    /\ UNCHANGED <<mainVars, serveVars, err, authVars, callVars, traceVars, signalled>>

Main ==
    /\ exit = "no"
    /\ \/ SetUpAuth \/ Listen \/ StartServing \/ NewTracerProvider \/ CheckTracerProvider
       \/ NotifyContext \/ WaitForSignal
       \/ RunStop \/ RunShutdown \/ RunCancel \/ ReturnFromMain

(***************************************************************************)
(* The goroutines that serve. err = grpcServer.Serve(lis) and the test of  *)
(* err are two accesses to a shared variable.                              *)
(***************************************************************************)
ServeFails ==
    /\ exit = "no"
    /\ serving = "serving"
    /\ serving' = "failed" /\ failedAt' = main
    /\ err' = "error"
    /\ UNCHANGED <<mainVars, authVars, callVars, traceVars, signalled, exit>>

\* Mutant of TestServeError: the error is logged and nothing else.
LogServeError ==
    /\ exit = "no"
    /\ serving = "failed"
    /\ serving' = "gone"
    /\ UNCHANGED <<mainVars, failedAt, err, authVars, callVars, traceVars, signalled, exit>>

TestServeError ==
    /\ exit = "no"
    /\ serving = "failed"
    /\ serving' = "gone"
    /\ exit' = IF err = "nil" THEN exit ELSE "1"
    /\ UNCHANGED <<mainVars, failedAt, err, authVars, callVars, traceVars, signalled>>

\* http.ListenAndServe, from the end of SetUpAuth on. It has an err of its own.
MetricsFail ==
    /\ exit = "no"
    /\ main # "auth"
    /\ exit' = "1"
    /\ UNCHANGED <<mainVars, serveVars, err, authVars, callVars, traceVars, signalled>>

(***************************************************************************)
(* Calls. Connections that are open stay when Serve has returned. The span *)
(* of a call ends with its method, with a panic too.                       *)
(***************************************************************************)
SpanEnds == pending' = (pending \/ tracing = "on")

CallArrives(c) ==
    /\ exit = "no" /\ serving # "off"
    /\ \E r \in Requests : UC!Arrive(c, r)
    /\ UNCHANGED <<mainVars, serveVars, err, authVars, traceVars, signalled, exit>>

\* Mutant of CallProceeds: a panic is recovered, and its call forgotten.
CallProceedsRecovering(c) ==
    /\ exit = "no"
    /\ \/ UC!Admit(c) /\ UNCHANGED <<pending, exit>>
       \/ UC!Refuse(c) /\ SpanEnds /\ UNCHANGED exit
       \/ UC!Return(c) /\ SpanEnds /\ UNCHANGED exit
       \/ UC!Panic(c) /\ SpanEnds /\ UNCHANGED exit
    /\ UNCHANGED <<mainVars, serveVars, err, authVars, tracing, signalled>>

\* The interceptor and the unary methods.
CallProceeds(c) ==
    /\ exit = "no"
    /\ \/ UC!Admit(c) /\ UNCHANGED <<pending, exit>>
       \/ UC!Refuse(c) /\ SpanEnds /\ UNCHANGED exit
       \/ UC!Return(c) /\ SpanEnds /\ UNCHANGED exit
       \/ UC!Panic(c) /\ SpanEnds /\ exit' = "2"
    /\ UNCHANGED <<mainVars, serveVars, err, authVars, tracing, signalled>>

StreamProceeds(c) ==
    /\ exit = "no"
    /\ \/ UC!StreamStarts(c) /\ UNCHANGED <<pending, exit>>
       \/ UC!StreamRejected(c) /\ SpanEnds /\ UNCHANGED exit
       \/ UC!StreamEnds(c) /\ SpanEnds /\ UNCHANGED exit
       \/ UC!StreamPanics(c) /\ SpanEnds /\ exit' = "2"
    /\ UNCHANGED <<mainVars, serveVars, err, authVars, tracing, signalled>>

-----------------------------------------------------------------------------
\* From NotifyContext to stop.
Notifying == \E k \in DOMAIN deferred : deferred[k].call = "stop"

Signal ==
    /\ exit = "no"
    /\ signalled' = TRUE
    /\ IF Notifying
       THEN cancelled' = cancelled \cup {"signal"} /\ UNCHANGED exit
       ELSE exit' = "signal" /\ UNCHANGED cancelled
    /\ UNCHANGED <<main, ctx, deferred, serveVars, err, authVars, callVars, traceVars>>

ExporterRuns ==
    /\ exit = "no" /\ pending /\ tracing = "on"
    /\ pending' = FALSE
    /\ UNCHANGED <<mainVars, serveVars, err, authVars, callVars, tracing, signalled, exit>>

Environment == ServeFails \/ MetricsFail \/ Signal \/ ExporterRuns

Next ==
    \/ Main \/ TestServeError \/ Environment
    \/ \E c \in Clients : CallArrives(c) \/ CallProceeds(c) \/ StreamProceeds(c)

(***************************************************************************)
(* The scheduler runs what can run, and the library calls of main return.  *)
(* No failure, signal or call has to happen, and no stream has to start or *)
(* to end.                                                                 *)
(***************************************************************************)
Fairness ==
    /\ WF_vars(Main) /\ WF_vars(TestServeError)
    /\ \A c \in Clients : WF_vars(CallProceeds(c))

Spec == Init /\ [][Next]_vars /\ Fairness

-----------------------------------------------------------------------------
(***************************************************************************)
(* Properties.                                                             *)
(***************************************************************************)

\* A panic that ends the process, and all other calls with it, comes from a request
\* without its rules or ticket or from a stream under way, and with authorization
\* enabled only from a caller with a good token: the interceptors are in place before
\* the first call is served.
PanicIsExplained ==
    exit = "2" =>
        \E c \in DOMAIN request :
            /\ call[c] = "streaming" \/ (call[c] = "admitted" /\ UC!Panics(request[c]))
            /\ intercepting => request[c].token = "good"

\* What callers are refused for. No call ever finds the interceptors installed without
\* a validator; a good token is only refused by a process whose validator failed to
\* initialize; the health service answers whatever happens; and no caller without a
\* good token gets an answer of a method, be it an error, or a stream.
RefusalsAreExplained ==
    \A c \in DOMAIN request :
        LET answer == call[c]
            r == request[c]
        IN  /\ answer # "Internal"
            /\ answer = "Unauthenticated" <=>
                  r.token = "none" /\ answer \in UC!Answers /\ intercepting /\ ~UC!SkipCheck(r)
            /\ answer = "PermissionDenied" => r.token = "bad" \/ validator = "failed"
            /\ answer \in {"streaming"} \cup (UC!Answers \ UC!Denials) =>
                  ~intercepting \/ UC!SkipCheck(r) \/ r.token = "good"

\* The process only survives the end of Serve when main's own assignment to err comes
\* between the failure and the test, in the one place where it can.
SilentStopNeedsRace == serving = "gone" /\ exit = "no" => failedAt = "tracer"

\* Shutdown is never cut short by the process's own cancellations: of the two contexts
\* the variable ctx has held it was given the one that outlives it, although stop, which
\* is deferred later, runs before. So an orderly exit has exported every span that ended
\* before Shutdown.
CleanExitIsFlushed == tracing # "cut" /\ (exit = "0" => ~pending)

\* SIGINT and SIGTERM end the process, in whatever state its goroutines are.
SignalEndsProcess == signalled ~> exit # "no"

\* Every unary call is answered, by the interceptor or its method, unless the process
\* ends first; that Serve or the set-up of the authorization has failed does not matter.
UnaryCallsAreAnswered ==
    \A c \in Clients :
        c \in DOMAIN request /\ ~UC!IsStream(request[c]) ~> call[c] \in UC!Answers \/ exit # "no"

=============================================================================
