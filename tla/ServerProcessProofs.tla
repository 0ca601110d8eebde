------------------------- MODULE ServerProcessProofs -------------------------
(***************************************************************************)
(* What holds of the process however many clients it serves and whatever   *)
(* they ask.                                                               *)
(***************************************************************************)
EXTENDS ServerProcess, SequenceTheorems, TLAPS

(***************************************************************************)
(* The types are inductive together with the places main can be in while   *)
(* nothing is served, and what is true until then.                         *)
(***************************************************************************)
StartUp == {"auth", "listen", "serve"}

StartInv ==
    /\ serving = "off" <=> main \in StartUp
    /\ main \in StartUp => \A c \in Clients : call[c] = "idle"
    /\ main = "auth" => ~intercepting /\ validator = "unset"
    /\ intercepting <=> validator # "unset"

Inv == TypeOK /\ StartInv

\* The deferred calls stay a sequence of calls when one is added or run.
LEMMA DeferredTypes ==
  ASSUME NEW s \in Seq(DeferredCalls), NEW d \in DeferredCalls
  PROVE  /\ <<d>> \o s \in Seq(DeferredCalls)
         /\ s # << >> => Tail(s) \in Seq(DeferredCalls)
  <1>1. <<d>> \in Seq(DeferredCalls)
    OBVIOUS
  <1>2. <<d>> \o s \in Seq(DeferredCalls)
    BY <1>1
  <1>3. s # << >> => Tail(s) \in Seq(DeferredCalls)
    OBVIOUS
  <1> QED BY <1>2, <1>3

\* main sets up the interceptors before anything is served, and leaves the calls alone.
LEMMA MainStep == ASSUME Inv, Main PROVE Inv' /\ UNCHANGED callVars
  <1>1. UNCHANGED callVars
    BY DEF Main, SetUpAuth, Listen, StartServing, NewTracerProvider, CheckTracerProvider,
           NotifyContext, WaitForSignal, RunStop, RunShutdown, RunCancel, ReturnFromMain
  <1>2. UC!TypeOK'
    BY <1>1 DEF Inv, TypeOK, UC!TypeOK, callVars
  <1> USE DEF Inv, StartInv, TypeOK, MainPlaces, StartUp, serveVars, authVars, callVars, traceVars,
              mainVars, contextVars
  <1>3. CASE SetUpAuth
    <2>1. serving' = "off" /\ main' = "listen" /\ (intercepting' <=> validator' # "unset")
      BY <1>3 DEF SetUpAuth
    <2>2. validator' \in {"unset", "failed", "ready"} /\ intercepting' \in BOOLEAN
      BY <1>3 DEF SetUpAuth
    <2>3. TypeOK'
      BY <1>2, <1>3, <2>1, <2>2 DEF SetUpAuth
    <2> QED BY <1>1, <1>3, <2>1, <2>3 DEF SetUpAuth
  <1>4. CASE Listen \/ StartServing
    BY <1>1, <1>2, <1>4 DEF Listen, StartServing
  <1>5. CASE NewTracerProvider \/ WaitForSignal
    BY <1>1, <1>2, <1>5 DEF NewTracerProvider, WaitForSignal
  <1>6. CASE CheckTracerProvider
    <2>1. deferred' \in Seq(DeferredCalls)
      <3>1. Deferred("Shutdown", ctx) \in DeferredCalls
        BY DEF Deferred, DeferredCalls
      <3>2. deferred' \in {<<Deferred("Shutdown", ctx)>> \o deferred, deferred}
        BY <1>6 DEF CheckTracerProvider
      <3> QED BY <3>1, <3>2, DeferredTypes
    <2> QED BY <1>1, <1>2, <1>6, <2>1 DEF CheckTracerProvider
  <1>7. CASE NotifyContext
    <2>1. deferred' \in Seq(DeferredCalls)
      <3>1. Deferred("stop", "signal") \in DeferredCalls
        BY DEF Deferred, DeferredCalls, Contexts
      <3> QED BY <1>7, <3>1, DeferredTypes DEF NotifyContext
    <2> QED BY <1>1, <1>2, <1>7, <2>1 DEF NotifyContext, Contexts
  <1>8. CASE RunStop \/ RunCancel
    <2>1. deferred' \in Seq(DeferredCalls)
      BY <1>8 DEF RunStop, RunCancel, Runs
    <2>2. cancelled' \subseteq Contexts
      BY <1>8 DEF RunStop, RunCancel, Contexts
    <2> QED BY <1>1, <1>2, <1>8, <2>1, <2>2 DEF RunStop, RunCancel
  <1>9. CASE RunShutdown
    <2>1. pending' \in BOOLEAN
      BY <1>9 DEF RunShutdown
    <2>2. deferred' \in Seq(DeferredCalls)
      BY <1>9 DEF RunShutdown, Runs
    <2>3. /\ tracing' \in {tracing, "down", "cut"} /\ exit' \in {exit, "1"}
          /\ UNCHANGED <<main, ctx, cancelled, serveVars, err, authVars, signalled>>
      BY <1>9 DEF RunShutdown
    <2>4. TypeOK' /\ StartInv'
      BY <1>1, <1>2, <2>1, <2>2, <2>3
    <2> QED BY <1>1, <2>4
  <1>10. CASE ReturnFromMain
    BY <1>1, <1>2, <1>10 DEF ReturnFromMain
  <1> QED BY <1>3, <1>4, <1>5, <1>6, <1>7, <1>8, <1>9, <1>10 DEF Main

\* The serving goroutine, signals and failures leave the calls and the set-up alone.
LEMMA OtherStep ==
  ASSUME Inv, TestServeError \/ Environment
  PROVE  Inv' /\ UNCHANGED <<main, ctx, deferred, authVars, callVars, tracing>>
  <1>1. UNCHANGED <<main, ctx, deferred, authVars, callVars, tracing>>
    BY DEF Environment, TestServeError, ServeFails, MetricsFail, Signal, ExporterRuns, traceVars,
           mainVars, contextVars
  <1>2. UC!TypeOK'
    BY <1>1 DEF Inv, TypeOK, UC!TypeOK, callVars
  <1> USE DEF Inv, StartInv, TypeOK, MainPlaces, StartUp, serveVars, authVars, callVars, traceVars,
              mainVars, contextVars
  <1>3. CASE TestServeError
    BY <1>1, <1>2, <1>3 DEF TestServeError
  <1>4. CASE ServeFails
    BY <1>1, <1>2, <1>4 DEF ServeFails
  <1>5. CASE MetricsFail
    BY <1>1, <1>2, <1>5 DEF MetricsFail
  <1>6. CASE Signal
    <2>1. cancelled' \subseteq Contexts /\ exit' \in {exit, "signal"}
      BY <1>6 DEF Signal, Contexts
    <2> QED BY <1>1, <1>2, <1>6, <2>1 DEF Signal
  <1>7. CASE ExporterRuns
    <2>1. pending' \in BOOLEAN
      BY <1>7 DEF ExporterRuns
    <2>2. UNCHANGED <<serveVars, cancelled, err, signalled, exit>>
      BY <1>7 DEF ExporterRuns
    <2>3. TypeOK' /\ StartInv'
      BY <1>1, <1>2, <2>1, <2>2
    <2> QED BY <1>1, <2>3
  <1> QED BY <1>3, <1>4, <1>5, <1>6, <1>7 DEF Environment

\* A call under way is one that can be made.
LEMMA RequestTypes ==
  ASSUME Inv, NEW c \in DOMAIN request
  PROVE  /\ c \in Clients
         /\ request[c].token \in {"none", "bad", "good"}
         /\ request[c].method \in UC!Methods
         /\ request[c].rules \in {"accepted", "undecodable", "disordered", "missing"}
  BY RequestsAssumption DEF Inv, TypeOK, UC!TypeOK, UC!RequestSpace

\* What a unary method or RulesFromJSON answers with is no stage of a call, and no answer
\* of the interceptor.
LEMMA AnswerTypes ==
  ASSUME NEW r, r.method \in UC!Methods
  PROVE  /\ UC!Refusal(r) \in UC!Denials
         /\ ~UC!IsStream(r) => UC!Answer(r) \in UC!Answers \ UC!Denials
         /\ UC!RulesError(r) \in UC!Answers \ UC!Denials
  BY DEF UC!Refusal, UC!Answer, UC!Answers, UC!Denials, UC!GetStatCodes, UC!ValidateTicket,
         UC!EnrichTicket, UC!RulesError, UC!IsStream, UC!Methods

\* A call that proceeds.
Proceeds(c) == CallProceeds(c) \/ StreamProceeds(c)

\* What one step of a call does to it, and to what it leaves behind.
StreamStep(c) == UC!StreamStarts(c) \/ UC!StreamRejected(c) \/ UC!StreamEnds(c)
MethodStep(c) == UC!Return(c) \/ StreamStep(c)
PanicStep(c) == UC!Panic(c) \/ UC!StreamPanics(c)

\* A call proceeds by its own steps and ends the process by panics alone.
LEMMA ProceedsShape ==
  ASSUME NEW c \in Clients, Proceeds(c)
  PROVE  /\ UC!Admit(c) \/ UC!Refuse(c) \/ MethodStep(c) \/ PanicStep(c)
         /\ exit = "no" /\ exit' \in {exit, "2"} /\ (exit' = "2" => PanicStep(c))
         /\ UNCHANGED pending \/ SpanEnds
         /\ UNCHANGED <<mainVars, serveVars, err, authVars, tracing, signalled, request>>
  BY DEF Proceeds, CallProceeds, StreamProceeds, MethodStep, StreamStep, PanicStep, UC!Admit,
         UC!Refuse, UC!Return, UC!Panic, UC!StreamStarts, UC!StreamRejected, UC!StreamEnds,
         UC!StreamPanics

\* A call that takes a step has been made, and only its own stage changes.
LEMMA StageChanges ==
  ASSUME Inv, NEW c \in Clients,
         UC!Admit(c) \/ UC!Refuse(c) \/ MethodStep(c) \/ PanicStep(c)
  PROVE  /\ c \in DOMAIN request /\ UNCHANGED request
         /\ \E to \in (UC!Stages \ {"idle"}) \cup UC!Answers : call' = [call EXCEPT ![c] = to]
  <1>1. call \in [Clients -> UC!Stages \cup UC!Answers] /\ (call[c] = "idle" <=> c \notin DOMAIN request)
    BY DEF Inv, TypeOK, UC!TypeOK
  <1>2. call[c] # "idle" /\ UNCHANGED request
    BY DEF UC!Admit, UC!Refuse, MethodStep, StreamStep, PanicStep, UC!Return, UC!Panic,
           UC!StreamStarts, UC!StreamRejected, UC!StreamEnds, UC!StreamPanics
  <1>3. c \in DOMAIN request
    BY <1>1, <1>2
  <1>4. request[c].method \in UC!Methods
    BY <1>3, RequestTypes
  <1>5. UC!Denials \subseteq UC!Answers /\ {"ok", "Unknown", "Canceled"} \subseteq UC!Answers
    BY DEF UC!Answers
  <1>6. CASE PanicStep(c)
    <2>1. call' = [call EXCEPT ![c] = call[c]]
      BY <1>1, <1>6 DEF PanicStep, UC!Panic, UC!StreamPanics
    <2> QED BY <1>1, <1>2, <1>3, <2>1
  <1>7. CASE UC!Admit(c) \/ UC!StreamStarts(c)
    BY <1>2, <1>3, <1>7 DEF UC!Admit, UC!StreamStarts, UC!Stages
  <1>8. CASE UC!Refuse(c)
    BY <1>2, <1>3, <1>4, <1>5, <1>8, AnswerTypes DEF UC!Refuse
  <1>9. CASE UC!Return(c)
    BY <1>2, <1>3, <1>4, <1>9, AnswerTypes DEF UC!Return
  <1>10. CASE UC!StreamRejected(c) \/ UC!StreamEnds(c)
    BY <1>2, <1>3, <1>4, <1>5, <1>10, AnswerTypes DEF UC!StreamRejected, UC!StreamEnds
  <1> QED BY <1>6, <1>7, <1>8, <1>9, <1>10 DEF MethodStep, StreamStep

\* A call leaves main and the set-up alone.
LEMMA CallStep ==
  ASSUME Inv, NEW c \in Clients, CallArrives(c) \/ Proceeds(c)
  PROVE  Inv' /\ UNCHANGED <<mainVars, serveVars, err, authVars, tracing, signalled>>
  <1> USE DEF mainVars, contextVars
  <1>1. CASE CallArrives(c)
    <2>1. PICK r \in Requests : UC!Arrive(c, r)
      BY <1>1 DEF CallArrives
    <2>2. UC!TypeOK'
      BY <2>1 DEF UC!Arrive, UC!TypeOK, UC!Stages, Inv, TypeOK
    <2> QED
      BY <1>1, <2>2 DEF CallArrives, Inv, TypeOK, StartInv, serveVars, authVars, traceVars
  <1>2. CASE Proceeds(c)
    <2>1. UC!Admit(c) \/ UC!Refuse(c) \/ MethodStep(c) \/ PanicStep(c)
      BY <1>2, ProceedsShape
    <2>2. PICK to \in (UC!Stages \ {"idle"}) \cup UC!Answers : call' = [call EXCEPT ![c] = to]
      BY <2>1, StageChanges
    <2>3. c \in DOMAIN request /\ UNCHANGED request
      BY <2>1, StageChanges
    <2>4. to # "idle"
      BY DEF UC!Answers, UC!Denials
    <2>5. UC!TypeOK'
      BY <2>2, <2>3, <2>4 DEF UC!TypeOK, Inv, TypeOK
    <2>6. main \notin StartUp
      BY <2>3 DEF Inv, StartInv, TypeOK, UC!TypeOK
    <2>7. /\ UNCHANGED <<mainVars, serveVars, err, authVars, tracing, signalled>>
          /\ exit' \in {exit, "2"}
      BY <1>2, ProceedsShape
    <2>8. pending' \in BOOLEAN
      <3>1. CASE UNCHANGED pending
        BY <3>1 DEF Inv, TypeOK
      <3>2. CASE SpanEnds
        BY <3>2 DEF SpanEnds
      <3> QED BY <1>2, <3>1, <3>2, ProceedsShape
    <2> QED
      BY <2>5, <2>6, <2>7, <2>8 DEF Inv, TypeOK, StartInv, serveVars, authVars
  <1> QED BY <1>1, <1>2

\* Types and set-up hold in every state.
LEMMA InvHolds == Spec => []Inv
  <1>1. Init => Inv
    <2>1. <<Deferred("cancel", "root")>> \in Seq(DeferredCalls)
      BY DEF Deferred, DeferredCalls, Contexts
    <2> QED BY <2>1 DEF Init, Inv, StartInv, StartUp, TypeOK, MainPlaces, Contexts, UC!Init,
                         UC!TypeOK, UC!Stages
  <1>2. Inv /\ [Next]_vars => Inv'
    <2>1. Inv /\ UNCHANGED vars => Inv'
      BY DEF vars, Inv, StartInv, TypeOK, UC!TypeOK, serveVars, authVars, callVars, traceVars,
             mainVars, contextVars
    <2> QED BY <2>1, MainStep, OtherStep, CallStep DEF Next, Proceeds
  <1> QED BY <1>1, <1>2, PTL DEF Spec

\* The process keeps its types, from start-up to its end.
THEOREM TypeCorrect == Spec => []TypeOK
  BY InvHolds, PTL DEF Inv

-----------------------------------------------------------------------------
(***************************************************************************)
(* The answers. A call is affected by its own steps alone, since the       *)
(* interceptors are installed before the first call arrives.               *)
(***************************************************************************)
LetIn(c) == ~intercepting \/ UC!SkipCheck(request[c]) \/ request[c].token = "good"

AdmittedInv == \A c \in DOMAIN request : call[c] \in {"admitted", "streaming"} => LetIn(c)

\* The authorization is not set up any more once there are calls.
LEMMA CallsKeepAuth ==
  ASSUME Inv, [Next]_vars
  PROVE  UNCHANGED authVars \/ (DOMAIN request = {} /\ UNCHANGED callVars)
  <1>1. CASE Main
    <2>1. UNCHANGED authVars \/ main = "auth"
      BY <1>1 DEF Main, SetUpAuth, Listen, StartServing, NewTracerProvider, CheckTracerProvider,
                  NotifyContext, WaitForSignal, RunStop, RunShutdown, RunCancel, ReturnFromMain
    <2>2. main = "auth" => DOMAIN request = {}
      BY DEF Inv, StartInv, StartUp, TypeOK, UC!TypeOK
    <2> QED BY <1>1, <2>1, <2>2, MainStep
  <1>2. CASE TestServeError \/ Environment
    BY <1>2, OtherStep DEF authVars
  <1>3. CASE \E c \in Clients : CallArrives(c) \/ Proceeds(c)
    BY <1>3, CallStep DEF authVars
  <1> QED BY <1>1, <1>2, <1>3 DEF Next, vars, Proceeds

\* What a step does to a call: nothing, or one step of its own.
Unaffected(c) == c \in DOMAIN request /\ UNCHANGED <<authVars, request[c], call[c]>>

OwnStep(c) ==
    /\ c \in DOMAIN request /\ UNCHANGED <<authVars, request[c]>>
    /\ UC!Admit(c) \/ UC!Refuse(c) \/ MethodStep(c)

\* A step either leaves a call alone, or lets it arrive, or is its own.
LEMMA OneCall ==
  ASSUME Inv, [Next]_vars, NEW c \in DOMAIN request'
  PROVE  Unaffected(c) \/ call'[c] = "arrived" \/ OwnStep(c)
  <1>1. CASE UNCHANGED callVars
    <2>1. request' = request /\ call' = call
      BY <1>1 DEF callVars
    <2>2. c \in DOMAIN request
      BY <2>1
    <2>3. UNCHANGED authVars
      BY <2>2, CallsKeepAuth
    <2> QED BY <2>1, <2>2, <2>3 DEF Unaffected
  <1>2. CASE Main \/ TestServeError \/ Environment
    BY <1>1, <1>2, MainStep, OtherStep DEF callVars
  <1>3. ASSUME NEW d \in Clients, CallArrives(d) PROVE Unaffected(c) \/ call'[c] = "arrived" \/ OwnStep(c)
    <2>1. PICK r \in Requests : UC!Arrive(d, r)
      BY <1>3 DEF CallArrives
    <2>2. UNCHANGED authVars
      BY <1>3 DEF CallArrives
    <2>3. CASE c = d
      BY <2>1, <2>3 DEF UC!Arrive, Inv, TypeOK, UC!TypeOK
    <2>4. CASE c # d
      <3>1. c \in DOMAIN request /\ request'[c] = request[c]
        BY <2>1, <2>4 DEF UC!Arrive
      <3>2. call'[c] = call[c]
        BY <2>1, <2>4, <3>1 DEF UC!Arrive, Inv, TypeOK, UC!TypeOK
      <3> QED BY <2>2, <3>1, <3>2 DEF Unaffected
    <2> QED BY <2>3, <2>4
  <1>4. ASSUME NEW d \in Clients, Proceeds(d) PROVE Unaffected(c) \/ call'[c] = "arrived" \/ OwnStep(c)
    <2>1. UNCHANGED <<authVars, request>> /\ (UC!Admit(d) \/ UC!Refuse(d) \/ MethodStep(d) \/ PanicStep(d))
      BY <1>4, ProceedsShape
    <2>2. c \in DOMAIN request /\ c \in Clients
      BY <2>1, RequestTypes
    <2>3. CASE c = d /\ PanicStep(d)
      BY <2>1, <2>2, <2>3 DEF PanicStep, UC!Panic, UC!StreamPanics, Unaffected
    <2>4. CASE c = d /\ ~PanicStep(d)
      BY <2>1, <2>2, <2>4 DEF OwnStep
    <2>5. CASE c # d
      <3>1. call'[c] = call[c]
        BY <2>1, <2>2, <2>5, StageChanges DEF Inv, TypeOK, UC!TypeOK
      <3> QED BY <2>1, <2>2, <3>1 DEF Unaffected
    <2> QED BY <2>3, <2>4, <2>5
  <1>5. CASE UNCHANGED vars
    BY <1>1, <1>5 DEF vars
  <1> QED BY <1>2, <1>3, <1>4, <1>5 DEF Next, Proceeds

\* A method is only reached by calls that were let in, and does not deny.
LEMMA MethodResult ==
  ASSUME Inv, NEW c \in DOMAIN request, MethodStep(c)
  PROVE  /\ call[c] \in {"admitted", "streaming"}
         /\ call'[c] \in {"streaming"} \cup (UC!Answers \ UC!Denials)
  <1>1. c \in Clients /\ request[c].method \in UC!Methods
    BY RequestTypes
  <1>2. call \in [Clients -> UC!Stages \cup UC!Answers]
    BY DEF Inv, TypeOK, UC!TypeOK
  <1>3. {"ok", "Unknown", "Canceled"} \subseteq UC!Answers \ UC!Denials
    BY DEF UC!Answers, UC!Denials
  <1>4. CASE UC!Return(c)
    BY <1>1, <1>2, <1>4, AnswerTypes DEF UC!Return
  <1>5. CASE UC!StreamStarts(c)
    BY <1>1, <1>2, <1>5 DEF UC!StreamStarts
  <1>6. CASE UC!StreamRejected(c) \/ UC!StreamEnds(c)
    BY <1>1, <1>2, <1>3, <1>6, AnswerTypes DEF UC!StreamRejected, UC!StreamEnds
  <1> QED BY <1>4, <1>5, <1>6 DEF MethodStep, StreamStep

\* A call past the interceptor had a reason to be, in every state.
LEMMA AdmittedHolds == Spec => []AdmittedInv
  <1>1. Init => AdmittedInv
    BY DEF Init, AdmittedInv, UC!Init
  <1>2. Inv /\ AdmittedInv /\ [Next]_vars => AdmittedInv'
    <2> SUFFICES ASSUME Inv, AdmittedInv, [Next]_vars, NEW c \in DOMAIN request',
                        call'[c] \in {"admitted", "streaming"}
                 PROVE  LetIn(c)'
      BY DEF AdmittedInv
    <2>1. CASE Unaffected(c)
      BY <2>1 DEF Unaffected, AdmittedInv, LetIn, authVars, UC!SkipCheck
    <2>2. CASE OwnStep(c) /\ UC!Admit(c)
      BY <2>2 DEF OwnStep, UC!Admit, UC!Admits, LetIn, authVars, UC!SkipCheck
    <2>3. CASE OwnStep(c) /\ UC!Refuse(c)
      <3>1. c \in Clients /\ request[c].method \in UC!Methods
        BY <2>3, RequestTypes DEF OwnStep
      <3>2. call'[c] \in UC!Denials
        BY <2>3, <3>1, AnswerTypes DEF UC!Refuse, Inv, TypeOK, UC!TypeOK
      <3> QED BY <3>2 DEF UC!Denials
    <2>4. CASE OwnStep(c) /\ MethodStep(c)
      BY <2>4, MethodResult DEF OwnStep, AdmittedInv, LetIn, authVars, UC!SkipCheck
    <2> QED BY <2>1, <2>2, <2>3, <2>4, OneCall DEF OwnStep
  <1> QED BY <1>1, <1>2, InvHolds, PTL DEF Spec

(***************************************************************************)
(* What callers are refused for, whoever they are and whenever they call.  *)
(***************************************************************************)
Explained(c) ==
    LET answer == call[c]
        r == request[c]
    IN  /\ answer # "Internal"
        /\ answer = "Unauthenticated" <=>
              r.token = "none" /\ answer \in UC!Answers /\ intercepting /\ ~UC!SkipCheck(r)
        /\ answer = "PermissionDenied" => r.token = "bad" \/ validator = "failed"
        /\ answer \in {"streaming"} \cup (UC!Answers \ UC!Denials) =>
              ~intercepting \/ UC!SkipCheck(r) \/ r.token = "good"

\* Whatever the order of calls and start-up, a refused call has a reason its caller can
\* know, and a call that is answered or streams was let in.
THEOREM RefusalsExplained == Spec => []RefusalsAreExplained
  <1> DEFINE AllExplained == \A c \in DOMAIN request : Explained(c)
  <1>1. Init => AllExplained
    BY DEF Init, UC!Init
  <1>2. Inv /\ AdmittedInv /\ AllExplained /\ [Next]_vars => AllExplained'
    <2> SUFFICES ASSUME Inv, AdmittedInv, AllExplained, [Next]_vars, NEW c \in DOMAIN request'
                 PROVE  Explained(c)'
      OBVIOUS
    <2>1. CASE Unaffected(c)
      BY <2>1 DEF Unaffected, Explained, authVars, UC!SkipCheck
    <2>2. CASE call'[c] = "arrived"
      BY <2>2 DEF Explained, UC!Answers, UC!Denials
    <2>3. CASE OwnStep(c) /\ UC!Admit(c)
      <3>1. call'[c] = "admitted"
        BY <2>3, RequestTypes DEF OwnStep, UC!Admit, Inv, TypeOK, UC!TypeOK
      <3> QED BY <3>1 DEF Explained, UC!Answers, UC!Denials
    <2>4. CASE OwnStep(c) /\ UC!Refuse(c)
      <3>1. /\ call'[c] = UC!Refusal(request[c]) /\ request'[c] = request[c]
            /\ validator' = validator /\ intercepting' = intercepting
            /\ intercepting /\ ~UC!SkipCheck(request[c]) /\ validator # "unset"
            /\ request[c].token = "good" => validator = "failed"
        BY <2>4, RequestTypes DEF OwnStep, UC!Refuse, UC!Admits, authVars, Inv, StartInv, TypeOK,
                                  UC!TypeOK
      <3> QED BY <3>1, RequestTypes, <2>4 DEF Explained, UC!Refusal, UC!Answers, UC!Denials, OwnStep,
                 UC!SkipCheck
    <2>5. CASE OwnStep(c) /\ MethodStep(c)
      <3>1. /\ call'[c] \in {"streaming"} \cup (UC!Answers \ UC!Denials) /\ request'[c] = request[c]
            /\ validator' = validator /\ intercepting' = intercepting
            /\ LetIn(c)
        BY <2>5, MethodResult DEF OwnStep, AdmittedInv, authVars
      <3> QED BY <3>1 DEF LetIn, Explained, UC!Denials, UC!SkipCheck
    <2> QED BY <2>1, <2>2, <2>3, <2>4, <2>5, OneCall DEF OwnStep
  <1>3. AllExplained => RefusalsAreExplained
    BY DEF Explained, RefusalsAreExplained
  <1> QED BY <1>1, <1>2, <1>3, InvHolds, AdmittedHolds, PTL DEF Spec

-----------------------------------------------------------------------------
(***************************************************************************)
(* The end of the process.                                                 *)
(***************************************************************************)

\* Nothing happens after the end.
LEMMA NothingAfterExit == Next => exit = "no"
  BY DEF Next, Main, TestServeError, Environment, ServeFails, MetricsFail, Signal, ExporterRuns,
         CallArrives, CallProceeds, StreamProceeds

\* A step that ends the process with 2 is a call's panic, with 0 the return of main.
LEMMA ExitStep ==
  ASSUME Inv, Next
  PROVE  /\ exit' = "2" => \E c \in Clients : Proceeds(c) /\ PanicStep(c)
         /\ exit' = "0" => Main /\ ReturnFromMain
  <1>1. exit = "no"
    BY NothingAfterExit
  <1>2. CASE Main
    BY <1>1, <1>2 DEF Main, SetUpAuth, Listen, StartServing, NewTracerProvider,
       CheckTracerProvider, NotifyContext, WaitForSignal, RunStop, RunShutdown, RunCancel,
       ReturnFromMain
  <1>3. CASE TestServeError \/ Environment
    BY <1>1, <1>3 DEF TestServeError, Environment, ServeFails, MetricsFail, Signal, ExporterRuns
  <1>4. ASSUME NEW c \in Clients, CallArrives(c) PROVE exit' \notin {"0", "2"}
    BY <1>1, <1>4 DEF CallArrives
  <1>5. ASSUME NEW c \in Clients, Proceeds(c) PROVE exit' # "0" /\ (exit' = "2" => PanicStep(c))
    BY <1>1, <1>5, ProceedsShape
  <1> QED BY <1>2, <1>3, <1>4, <1>5 DEF Next, Proceeds

\* A panic is the work of a caller who was let in.
THEOREM PanicExplained == Spec => []PanicIsExplained
  <1>1. Init => PanicIsExplained
    BY DEF Init, PanicIsExplained
  <1>2. Inv /\ AdmittedInv /\ PanicIsExplained /\ [Next]_vars => PanicIsExplained'
    <2> SUFFICES ASSUME Inv, AdmittedInv, PanicIsExplained, [Next]_vars, exit' = "2"
                 PROVE  \E c \in DOMAIN request' :
                            /\ call'[c] = "streaming" \/ (call'[c] = "admitted" /\ UC!Panics(request'[c]))
                            /\ intercepting' => request'[c].token = "good"
      BY DEF PanicIsExplained, UC!Panics
    <2>1. CASE UNCHANGED vars
      BY <2>1 DEF vars, authVars, callVars, PanicIsExplained
    <2>2. CASE Next
      <3>1. PICK c \in Clients : Proceeds(c) /\ PanicStep(c)
        BY <2>2, ExitStep
      <3>2. c \in DOMAIN request
        BY <3>1, StageChanges
      <3>3. /\ call[c] = "streaming" \/ (call[c] = "admitted" /\ UC!Panics(request[c]))
            /\ UNCHANGED <<request, call>>
        BY <3>1 DEF PanicStep, UC!Panic, UC!StreamPanics
      <3>4. LetIn(c) /\ UNCHANGED authVars
        BY <3>1, <3>2, <3>3, ProceedsShape DEF AdmittedInv
      <3>5. ~UC!SkipCheck(request[c])
        BY <3>1 DEF PanicStep, UC!Panic, UC!StreamPanics, UC!Panics, UC!IsStream, UC!SkipCheck
      <3> QED BY <3>2, <3>3, <3>4, <3>5 DEF LetIn, authVars
    <2> QED BY <2>1, <2>2
  <1> QED BY <1>1, <1>2, InvHolds, AdmittedHolds, PTL DEF Spec

(***************************************************************************)
(* The race on err. Before main gets to assign the error of                *)
(* NewTracerProvider, a failure of Serve can only have happened at that    *)
(* place; after it nothing takes the error away.                           *)
(***************************************************************************)
RaceInv ==
    /\ serving \in {"off", "serving"} => failedAt = "no"
    /\ serving = "failed" =>
          /\ main = "tracer" => failedAt = "tracer"
          /\ failedAt = "tracer" \/ err = "error"

\* The process outlives a failure of Serve only if main wrote to err before the failure
\* was looked at.
THEOREM StopNeedsRace == Spec => []SilentStopNeedsRace
  <1>1. Init => RaceInv /\ SilentStopNeedsRace
    BY DEF Init, RaceInv, SilentStopNeedsRace
  <1>2. Inv /\ RaceInv /\ SilentStopNeedsRace /\ [Next]_vars => RaceInv' /\ SilentStopNeedsRace'
    <2> SUFFICES ASSUME Inv, RaceInv, SilentStopNeedsRace, [Next]_vars
                 PROVE  RaceInv' /\ SilentStopNeedsRace'
      OBVIOUS
    <2> USE DEF RaceInv, SilentStopNeedsRace, serveVars, mainVars
    <2>1. CASE Main
      <3>1. serving' \in {"failed", "gone"} => serving' = serving
        BY <2>1 DEF Main, SetUpAuth, Listen, StartServing, NewTracerProvider, CheckTracerProvider,
                    NotifyContext, WaitForSignal, RunStop, RunShutdown, RunCancel, ReturnFromMain
      <3> QED BY <2>1, <3>1 DEF Main, SetUpAuth, Listen, StartServing, NewTracerProvider,
                    CheckTracerProvider, NotifyContext, WaitForSignal, Runs, RunStop, RunShutdown,
                    RunCancel, ReturnFromMain, Inv, StartInv, StartUp
    <2>2. CASE TestServeError
      BY <2>2 DEF TestServeError
    <2>3. CASE Environment
      BY <2>3 DEF Environment, ServeFails, MetricsFail, Signal, ExporterRuns
    <2>4. ASSUME NEW c \in Clients, CallArrives(c) \/ Proceeds(c)
          PROVE  RaceInv' /\ SilentStopNeedsRace'
      <3>1. UNCHANGED <<main, serveVars, err>>
        BY <2>4, CallStep
      <3>2. exit = "no"
        BY <2>4, ProceedsShape DEF CallArrives
      <3> QED BY <3>1, <3>2
    <2>5. CASE UNCHANGED vars
      BY <2>5 DEF vars
    <2> QED BY <2>1, <2>2, <2>3, <2>4, <2>5 DEF Next, Proceeds
  <1> QED BY <1>1, <1>2, InvHolds, PTL DEF Spec

(***************************************************************************)
(* The flush. The deferred calls and their contexts are those of the place *)
(* main is at; the root context is only cancelled by the last of them; and *)
(* what ends after the flush is not traced any more.                       *)
(***************************************************************************)
Cancel == Deferred("cancel", "root")
Flush == Deferred("Shutdown", "root")
Stop == Deferred("stop", "signal")

DeferredInv ==
    /\ main \in StartUp \cup {"tracer", "check"} => deferred = <<Cancel>>
    /\ main = "notify" => deferred = <<Flush, Cancel>>
    /\ main = "wait" => deferred = <<Stop, Flush, Cancel>>
    /\ main = "return" =>
          deferred \in {<<Stop, Flush, Cancel>>, <<Flush, Cancel>>, <<Cancel>>, << >>}

ContextInv ==
    /\ main \notin {"wait", "return"} => ctx = "root"
    /\ "root" \in cancelled => main = "return" /\ deferred = << >>

FlushInv ==
    /\ DeferredInv
    /\ ContextInv
    /\ tracing # "cut"
    /\ main = "return" /\ deferred \in {<<Cancel>>, << >>} => tracing = "down" /\ ~pending
    /\ exit = "0" => ~pending

\* A call that is deferred comes before those that are there.
LEMMA Pushed ==
  ASSUME NEW x, NEW y, NEW z
  PROVE  <<x>> \o <<y>> = <<x, y>> /\ <<x>> \o <<y, z>> = <<x, y, z>>
  <1> DEFINE S == {x, y, z}
             two == <<x>> \o <<y>>
             pair == <<x, y>>
             three == <<x>> \o <<y, z>>
             triple == <<x, y, z>>
  <1>1. two = pair
    <2>1. two \in Seq(S) /\ pair \in Seq(S) /\ Len(two) = 2 /\ Len(pair) = 2
      OBVIOUS
    <2>2. \A i \in 1 .. 2 : two[i] = pair[i]
      OBVIOUS
    <2> HIDE DEF S, two, pair
    <2> QED BY <2>1, <2>2, SeqEqual
  <1>2. three = triple
    <2>1. three \in Seq(S) /\ triple \in Seq(S) /\ Len(three) = 3 /\ Len(triple) = 3
      OBVIOUS
    <2>2. \A i \in 1 .. 3 : three[i] = triple[i]
      OBVIOUS
    <2> HIDE DEF S, three, triple
    <2> QED BY <2>1, <2>2, SeqEqual
  <1> QED BY <1>1, <1>2

\* The deferred calls run in turn.
LEMMA DeferredCallsDiffer ==
  /\ <<Cancel>> # << >> /\ <<Flush, Cancel>> # << >> /\ <<Stop, Flush, Cancel>> # << >>
  /\ Head(<<Cancel>>) = Cancel /\ Tail(<<Cancel>>) = << >>
  /\ Head(<<Flush, Cancel>>) = Flush /\ Tail(<<Flush, Cancel>>) = <<Cancel>>
  /\ Head(<<Stop, Flush, Cancel>>) = Stop /\ Tail(<<Stop, Flush, Cancel>>) = <<Flush, Cancel>>
  /\ <<Flush, Cancel>> \notin {<<Cancel>>, << >>}
  /\ <<Stop, Flush, Cancel>> \notin {<<Cancel>>, << >>}
  /\ Cancel.call = "cancel" /\ Flush.call = "Shutdown" /\ Stop.call = "stop"
  /\ Flush.ctx = "root"
  BY DEF Cancel, Flush, Stop, Deferred

\* main keeps the flush ahead of the cancellation of its context.
LEMMA MainFlushes == ASSUME Inv, FlushInv, Main PROVE FlushInv'
  <1> USE DEF MainPlaces, StartUp
  <1>1. exit' = "0" => ReturnFromMain
    BY ExitStep DEF Next
  <1>2. CASE SetUpAuth \/ Listen \/ StartServing \/ NewTracerProvider
    <2>1. /\ main \in StartUp \cup {"tracer"} /\ main' \in StartUp \cup {"tracer", "check"}
          /\ UNCHANGED <<contextVars, traceVars>> /\ exit' # "0"
      BY <1>1, <1>2 DEF SetUpAuth, Listen, StartServing, NewTracerProvider, ReturnFromMain
    <2> QED BY <2>1 DEF FlushInv, DeferredInv, ContextInv, contextVars, traceVars
  <1>3. CASE CheckTracerProvider
    <2>1. CASE main' = "notify"
      <3>1. deferred' = <<Flush, Cancel>>
        <4>1. deferred = <<Cancel>> /\ ctx = "root" /\ main = "check"
          BY <1>3 DEF CheckTracerProvider, FlushInv, DeferredInv, ContextInv
        <4>2. deferred' = <<Flush>> \o <<Cancel>>
          BY <1>3, <2>1, <4>1 DEF CheckTracerProvider, Flush
        <4> QED BY <4>2, Pushed
      <3>2. main' = "notify" /\ tracing' = "on" /\ UNCHANGED <<ctx, cancelled>> /\ exit' # "0"
        BY <1>1, <1>3, <2>1 DEF CheckTracerProvider, ReturnFromMain
      <3> QED BY <1>3, <3>1, <3>2 DEF CheckTracerProvider, FlushInv, DeferredInv, ContextInv
    <2>2. CASE main' # "notify"
      <3>1. UNCHANGED <<main, ctx, cancelled, deferred, tracing, pending>> /\ exit' # "0"
        BY <1>1, <1>3, <2>2 DEF CheckTracerProvider, ReturnFromMain
      <3> QED BY <3>1 DEF FlushInv, DeferredInv, ContextInv
    <2> QED BY <2>1, <2>2
  <1>4. CASE NotifyContext
    <2>1. deferred' = <<Stop, Flush, Cancel>>
      <3>1. deferred' = <<Stop>> \o <<Flush, Cancel>>
        BY <1>4 DEF NotifyContext, FlushInv, DeferredInv, Stop
      <3> QED BY <3>1, Pushed
    <2>2. main = "notify" /\ main' = "wait" /\ UNCHANGED <<cancelled, traceVars>> /\ exit' # "0"
      BY <1>1, <1>4 DEF NotifyContext, ReturnFromMain
    <2> QED BY <2>1, <2>2 DEF FlushInv, DeferredInv, ContextInv, traceVars
  <1>5. CASE WaitForSignal
    <2>1. main = "wait" /\ main' = "return" /\ UNCHANGED <<contextVars, traceVars>> /\ exit' # "0"
      BY <1>1, <1>5 DEF WaitForSignal, ReturnFromMain
    <2> QED BY <2>1, DeferredCallsDiffer DEF FlushInv, DeferredInv, ContextInv, contextVars, traceVars
  <1>6. CASE RunStop
    <2>1. deferred = <<Stop, Flush, Cancel>>
      BY <1>6, DeferredCallsDiffer DEF RunStop, Runs, FlushInv, DeferredInv
    <2>2. deferred' = <<Flush, Cancel>>
      BY <1>6, <2>1, DeferredCallsDiffer DEF RunStop
    <2>3. /\ main = "return" /\ main' = "return" /\ UNCHANGED traceVars /\ exit' # "0"
          /\ cancelled' = cancelled \cup {"signal"}
      BY <1>1, <1>6 DEF RunStop, Runs, ReturnFromMain
    <2> QED BY <2>1, <2>2, <2>3, DeferredCallsDiffer DEF FlushInv, DeferredInv, ContextInv, traceVars
  <1>7. CASE RunShutdown
    <2>1. deferred = <<Flush, Cancel>> /\ main = "return" /\ main' = "return"
      BY <1>7, DeferredCallsDiffer DEF RunShutdown, Runs, FlushInv, DeferredInv
    <2>2. Head(deferred).ctx \notin cancelled
      BY <2>1, DeferredCallsDiffer DEF FlushInv, ContextInv
    <2>3. exit' # "0" /\ UNCHANGED <<ctx, cancelled>>
      BY <1>1, <1>7, DeferredCallsDiffer DEF RunShutdown, Runs, ReturnFromMain
    <2>4. \/ tracing' = "down" /\ pending' = FALSE /\ deferred' = <<Cancel>>
          \/ tracing' = tracing /\ UNCHANGED <<pending, deferred>>
      BY <1>7, <2>1, <2>2, DeferredCallsDiffer DEF RunShutdown
    <2> QED BY <2>1, <2>3, <2>4, DeferredCallsDiffer DEF FlushInv, DeferredInv, ContextInv
  <1>8. CASE RunCancel
    <2>1. deferred = <<Cancel>> /\ main = "return" /\ main' = "return"
      BY <1>8, DeferredCallsDiffer DEF RunCancel, Runs, FlushInv, DeferredInv
    <2>2. deferred' = << >> /\ UNCHANGED traceVars /\ exit' # "0"
      BY <1>1, <1>8, <2>1, DeferredCallsDiffer DEF RunCancel, ReturnFromMain
    <2> QED BY <2>1, <2>2 DEF FlushInv, DeferredInv, ContextInv, traceVars
  <1>9. CASE ReturnFromMain
    BY <1>9 DEF ReturnFromMain, FlushInv, DeferredInv, ContextInv, mainVars, contextVars, traceVars
  <1> QED BY <1>2, <1>3, <1>4, <1>5, <1>6, <1>7, <1>8, <1>9 DEF Main

\* Shutdown is never cut short, and an exit with status 0 leaves no span behind that was
\* ready before it.
THEOREM CleanExit == Spec => []CleanExitIsFlushed
  <1>1. Init => FlushInv
    BY DEF Init, FlushInv, DeferredInv, ContextInv, StartUp, Cancel
  <1>2. Inv /\ FlushInv /\ [Next]_vars => FlushInv'
    <2> SUFFICES ASSUME Inv, FlushInv, [Next]_vars PROVE FlushInv'
      OBVIOUS
    <2>1. CASE Main
      BY <2>1, MainFlushes
    <2>2. CASE TestServeError \/ Environment
      <3>1. UNCHANGED <<main, ctx, deferred, tracing>>
        BY <2>2, OtherStep
      <3>2. cancelled' \subseteq cancelled \cup {"signal"}
        BY <2>2 DEF TestServeError, Environment, ServeFails, MetricsFail, Signal, ExporterRuns,
                    mainVars, contextVars
      <3>3. pending' => pending
        BY <2>2 DEF TestServeError, Environment, ServeFails, MetricsFail, Signal, ExporterRuns,
                    traceVars
      <3>4. exit' # "0"
        BY <2>2, NothingAfterExit DEF Next, TestServeError, Environment, ServeFails, MetricsFail,
                    Signal, ExporterRuns
      <3> QED BY <3>1, <3>2, <3>3, <3>4 DEF FlushInv, DeferredInv, ContextInv
    <2>3. ASSUME NEW c \in Clients, CallArrives(c) \/ Proceeds(c) PROVE FlushInv'
      <3>1. UNCHANGED <<main, ctx, cancelled, deferred, tracing>>
        BY <2>3, CallStep DEF mainVars, contextVars
      <3>2. pending' => pending \/ tracing = "on"
        BY <2>3, ProceedsShape DEF CallArrives, SpanEnds, traceVars
      <3>3. exit' # "0"
        BY <2>3, ProceedsShape DEF CallArrives
      <3> QED BY <3>1, <3>2, <3>3 DEF FlushInv, DeferredInv, ContextInv
    <2>4. CASE UNCHANGED vars
      BY <2>4 DEF vars, mainVars, contextVars, traceVars, FlushInv, DeferredInv, ContextInv
    <2> QED BY <2>1, <2>2, <2>3, <2>4 DEF Next, Proceeds
  <1>3. FlushInv => CleanExitIsFlushed
    BY DEF FlushInv, CleanExitIsFlushed
  <1> QED BY <1>1, <1>2, <1>3, InvHolds, PTL DEF Spec

=============================================================================
