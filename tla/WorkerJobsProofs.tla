---- MODULE WorkerJobsProofs ----
(***************************************************************************)
(* Theorems about the two kinds of jobs whose handlers leave state behind  *)
(* for the next one: WebhookDelivery, for any number of events, attempts,  *)
(* secrets and configuration commands, and ReconciliationChain, for any    *)
(* number of days, clients, failures and attempts.                         *)
(***************************************************************************)
EXTENDS WebhookDelivery, ReconciliationChain, WellFoundedInduction, TLAPS

(***************************************************************************)
(* Webhook delivery                                                        *)
(***************************************************************************)

\* The endpoint has a secret exactly when it has a revision.
EndpointHasSecret == endpoint.revision # 0 => endpoint.secret \in Secrets

\* What stands behind each step towards "delivered": a 204 on its way was given for a
\* recorded event, a recorded event was applied, and so was one about to be recorded.
AnswersAreEarned ==
    /\ answered \subseteq store
    /\ store \subseteq applied
    /\ \A q \in Events \X Attempts :
          /\ inbound[q].pc = "record" => q[1] \in applied
          /\ inbound[q].pc = "answer" /\ inbound[q].status = "204" => q[1] \in answered
    /\ \A e \in Events : sender[e].pc = "report" /\ sender[e].result = "ok" => e \in answered

\* A sender that is somewhere has begun an attempt.
AttemptsBegun == \A e \in Events : sender[e] # Idle => attempt[e] # 0

\* A confirmed rotation is the step after the revision it started from.
RotationsAreSteps ==
    \A a \in confirmed : a.from # 0 => a.now.revision = a.from + 1

IInv ==
    /\ TypeOK
    /\ EndpointHasSecret
    /\ AnswersAreEarned
    /\ AttemptsBegun
    /\ DeliveredWasApplied
    /\ RotationsAreSteps
    /\ RevisionNamesOneSecret

LEMMA InitIInv == Init => IInv
<1> SUFFICES ASSUME Init PROVE IInv
  OBVIOUS
<1> USE DEF Init
<1>2. TypeOK
  <2>1. Idle \in SenderStates /\ NoRequest \in Requests /\ [pc |-> "unsent"] \in CommandStates
    BY DEF SenderStates, Requests, CommandStates
  <2>2. 0 \in 0..MaxAttempts
    BY WebhookAssumption
  <2>3. QED
    BY <2>1, <2>2 DEF TypeOK
<1>3. EndpointHasSecret /\ DeliveredWasApplied /\ RotationsAreSteps /\ RevisionNamesOneSecret
  BY DEF EndpointHasSecret, DeliveredWasApplied, RotationsAreSteps, RevisionNamesOneSecret
<1>4. AnswersAreEarned /\ AttemptsBegun
  BY DEF AnswersAreEarned, AttemptsBegun, NoRequest, Idle
<1>5. QED
  BY <1>2, <1>3, <1>4 DEF IInv

--------------------------------------------------------------------------------
(* Configuration.                                                            *)

LEMMA PrepareIInv ==
    ASSUME IInv, NEW c \in Commands, NEW s \in Secrets, NEW n \in {0, endpoint.revision},
           Prepare(c, s, n)
    PROVE  IInv'
<1> USE DEF Prepare, host
<1>1. TypeOK'
  <2>1. n \in Nat
    BY DEF IInv, TypeOK
  <2>2. [pc |-> "sent", secret |-> s, expected |-> n] \in CommandStates
    BY <2>1 DEF CommandStates
  <2>3. command' \in [Commands -> CommandStates]
    BY <2>2 DEF IInv, TypeOK
  <2>4. QED
    BY <2>3 DEF IInv, TypeOK
<1>2. (EndpointHasSecret /\ AnswersAreEarned /\ AttemptsBegun /\ DeliveredWasApplied)'
  BY DEF IInv, EndpointHasSecret, AnswersAreEarned, AttemptsBegun, DeliveredWasApplied
<1>3. (RotationsAreSteps /\ RevisionNamesOneSecret)'
  BY DEF IInv, RotationsAreSteps, RevisionNamesOneSecret
<1>4. QED
  BY <1>1, <1>2, <1>3 DEF IInv

\* What a command of Configure can find: the endpoint stays as it is, or gets the
\* command's secret and the next revision from the one it expected.
LEMMA PutOutcome ==
    ASSUME IInv, NEW w \in [pc : {"sent"}, secret : Secrets, expected : Nat]
    PROVE  \/ PutWebhookEndpoint(w) = endpoint
           \/ /\ endpoint.revision = w.expected
              /\ PutWebhookEndpoint(w) = [revision |-> w.expected + 1, secret |-> w.secret]
<1>1. endpoint.revision \in Nat /\ w.expected \in Nat
  BY DEF IInv, TypeOK
<1>2. QED
  BY <1>1 DEF PutWebhookEndpoint

LEMMA ConfigureIInv ==
    ASSUME IInv, NEW c \in Commands, Configure(c)
    PROVE  IInv'
<1> DEFINE w == command[c]
           one == [by |-> c, from |-> w.expected, now |-> endpoint']
<1>1. /\ w \in [pc : {"sent"}, secret : Secrets, expected : Nat]
      /\ endpoint \in [revision : Nat, secret : Secrets \cup {NoSecret}]
      /\ endpoint' = PutWebhookEndpoint(w)
      /\ confirmed' = confirmed \/ confirmed' = confirmed \cup {one}
      /\ command' = [command EXCEPT ![c] = [pc |-> "ended"]]
      /\ UNCHANGED <<outcome, attempt, sender, host>>
  <2>1. w \in CommandStates /\ w.pc = "sent"
    BY DEF IInv, TypeOK, Configure
  <2>2. w \in [pc : {"sent"}, secret : Secrets, expected : Nat]
    BY <2>1 DEF CommandStates
  <2>3. QED
    BY <2>2 DEF IInv, TypeOK, Configure
<1>2. \/ endpoint' = endpoint
      \/ endpoint.revision = w.expected /\ endpoint' = [revision |-> w.expected + 1, secret |-> w.secret]
  BY <1>1, PutOutcome
<1>3. endpoint' \in [revision : Nat, secret : Secrets \cup {NoSecret}]
  BY <1>1, <1>2
<1>4. EndpointHasSecret'
  BY <1>1, <1>2 DEF IInv, EndpointHasSecret
<1>5. command' \in [Commands -> CommandStates]
  <2>1. [pc |-> "ended"] \in CommandStates
    BY DEF CommandStates
  <2>2. QED
    BY <1>1, <2>1 DEF IInv, TypeOK
<1>6. CASE confirmed' = confirmed
  <2>1. TypeOK'
    BY <1>1, <1>3, <1>5, <1>6 DEF IInv, TypeOK, host
  <2>2. \A a \in confirmed : a.now.revision \in Nat /\ a.now.revision <= endpoint.revision
    BY DEF IInv, TypeOK, RevisionNamesOneSecret
  <2>3. (RotationsAreSteps /\ RevisionNamesOneSecret)'
    BY <1>1, <1>2, <1>6, <2>2 DEF IInv, RotationsAreSteps, RevisionNamesOneSecret
  <2>4. (AnswersAreEarned /\ AttemptsBegun /\ DeliveredWasApplied)'
    BY <1>1 DEF IInv, AnswersAreEarned, AttemptsBegun, DeliveredWasApplied, host
  <2>5. QED
    BY <1>4, <2>1, <2>3, <2>4 DEF IInv
<1>7. CASE confirmed' = confirmed \cup {one} /\ confirmed' # confirmed
  <2>1. w.expected = 0 => endpoint'.secret = w.secret
    BY <1>7, <1>1 DEF Configure
  <2>2. w.expected # 0 => endpoint' # endpoint
    BY <1>7, <1>1 DEF Configure
  <2>3. one \in [by : Commands, from : Nat, now : [revision : Nat, secret : Secrets]]
    BY <1>1, <1>2, <1>3, <2>1, <2>2
  <2>4. TypeOK'
    BY <1>1, <1>3, <1>5, <1>7, <2>3 DEF IInv, TypeOK, host
  <2>5. w.expected # 0 => /\ endpoint.revision = w.expected
                          /\ endpoint'.revision = w.expected + 1
    BY <1>2, <2>2
  <2>6. RotationsAreSteps'
    BY <1>7, <2>5 DEF IInv, RotationsAreSteps
  <2>7. \A a \in confirmed :
           /\ a.from \in Nat /\ a.now.revision \in Nat
           /\ a.now.revision <= endpoint.revision
           /\ a.now.revision = endpoint.revision => a.now = endpoint
           /\ a.from # 0 => a.now.revision = a.from + 1
    BY DEF IInv, TypeOK, RevisionNamesOneSecret, RotationsAreSteps
  <2>8. \A a \in confirmed :
           /\ a.from = one.from /\ a.from # 0 => FALSE
           /\ a.now.revision <= endpoint'.revision
           /\ a.now.revision = endpoint'.revision => a.now = endpoint'
    BY <1>1, <1>2, <2>5, <2>7
  <2>9. RevisionNamesOneSecret'
    BY <1>1, <1>3, <1>7, <2>8 DEF IInv, RevisionNamesOneSecret
  <2>10. (AnswersAreEarned /\ AttemptsBegun /\ DeliveredWasApplied)'
    BY <1>1 DEF IInv, AnswersAreEarned, AttemptsBegun, DeliveredWasApplied, host
  <2>11. QED
    BY <1>4, <2>4, <2>6, <2>9, <2>10 DEF IInv
<1>8. QED
  BY <1>1, <1>6, <1>7

--------------------------------------------------------------------------------
(* The sender.                                                               *)

\* Steps after which configuration and history are what they were.
LEMMA AdministrationKept ==
    ASSUME IInv, UNCHANGED <<endpoint, confirmed>>
    PROVE  EndpointHasSecret' /\ RotationsAreSteps' /\ RevisionNamesOneSecret'
BY DEF IInv, EndpointHasSecret, RotationsAreSteps, RevisionNamesOneSecret

\* What a sender may be.
LEMMA SenderPlaces ==
    /\ Idle \in SenderStates
    /\ [pc |-> "wait"] \in SenderStates
    /\ \A s \in Secrets : [pc |-> "send", secret |-> s] \in SenderStates
    /\ \A r \in {"ok", "permanent", "retryable"} : [pc |-> "report", result |-> r] \in SenderStates
BY DEF SenderStates

\* The sender goes somewhere and leaves the receiver alone.
LEMMA SenderMoves ==
    ASSUME IInv, NEW e \in Events, NEW state \in SenderStates, Sender(e, state),
           state.pc = "report" /\ state.result = "ok" => e \in answered,
           state # Idle => attempt'[e] # 0,
           \A d \in Events : attempt[d] # 0 => attempt'[d] # 0,
           attempt' \in [Events -> 0..MaxAttempts],
           outcome' \in [Events -> {"pending", "delivered", "failed"}],
           UNCHANGED <<administration, host>>
    PROVE  TypeOK' /\ AnswersAreEarned' /\ AttemptsBegun'
<1>1. sender' = [sender EXCEPT ![e] = state] /\ sender \in [Events -> SenderStates]
  BY DEF IInv, TypeOK, Sender
<1>2. sender' \in [Events -> SenderStates]
  BY <1>1
<1>3. TypeOK'
  BY <1>2 DEF IInv, TypeOK, administration, host
<1>4. \A d \in Events : sender'[d].pc = "report" /\ sender'[d].result = "ok" => d \in answered
  BY <1>1 DEF IInv, AnswersAreEarned
<1>5. AnswersAreEarned'
  BY <1>4 DEF IInv, AnswersAreEarned, host
<1>6. AttemptsBegun'
  BY <1>1 DEF IInv, AttemptsBegun
<1>7. QED
  BY <1>3, <1>5, <1>6

LEMMA LoadEndpointIInv ==
    ASSUME IInv, NEW e \in Events, LoadEndpoint(e)
    PROVE  IInv'
<1>1. UNCHANGED <<administration, outcome, host>>
  BY DEF LoadEndpoint
<1>2. attempt' \in [Events -> 0..MaxAttempts] /\ outcome' \in [Events -> {"pending", "delivered", "failed"}]
  BY <1>1, WebhookAssumption DEF LoadEndpoint, IInv, TypeOK
<1>3. attempt'[e] # 0 /\ \A d \in Events : attempt[d] # 0 => attempt'[d] # 0
  BY DEF LoadEndpoint, IInv, TypeOK
<1>4. \E state \in SenderStates :
         /\ Sender(e, state)
         /\ state.pc = "report" /\ state.result = "ok" => e \in answered
  <2>1. CASE endpoint.revision # 0 /\ Sender(e, [pc |-> "send", secret |-> endpoint.secret])
    <3>1. [pc |-> "send", secret |-> endpoint.secret] \in SenderStates
      BY <2>1, SenderPlaces DEF IInv, EndpointHasSecret
    <3>2. QED
      BY <2>1, <3>1
  <2>2. CASE Sender(e, [pc |-> "report", result |-> "permanent"])
    BY <2>2, SenderPlaces
  <2>3. CASE Sender(e, [pc |-> "report", result |-> "retryable"])
    BY <2>3, SenderPlaces
  <2>4. QED
    BY <2>1, <2>2, <2>3 DEF LoadEndpoint
<1>5. TypeOK' /\ AnswersAreEarned' /\ AttemptsBegun'
  BY <1>1, <1>2, <1>3, <1>4, SenderMoves
<1>6. EndpointHasSecret' /\ RotationsAreSteps' /\ RevisionNamesOneSecret'
  BY <1>1, AdministrationKept DEF administration
<1>7. DeliveredWasApplied'
  BY <1>1 DEF IInv, DeliveredWasApplied, host
<1>8. QED
  BY <1>5, <1>6, <1>7 DEF IInv

LEMMA TransportErrorIInv ==
    ASSUME IInv, NEW e \in Events, TransportError(e)
    PROVE  IInv'
<1>1. UNCHANGED <<administration, outcome, attempt, host>>
  BY DEF TransportError
<1>2. TypeOK' /\ AnswersAreEarned' /\ AttemptsBegun'
  <2>1. attempt' \in [Events -> 0..MaxAttempts] /\ outcome' \in [Events -> {"pending", "delivered", "failed"}]
    BY <1>1 DEF IInv, TypeOK
  <2>2. attempt[e] # 0
    BY DEF TransportError, IInv, AttemptsBegun, Idle
  <2>3. QED
    BY <1>1, <2>1, <2>2, SenderPlaces, SenderMoves DEF TransportError
<1>3. EndpointHasSecret' /\ RotationsAreSteps' /\ RevisionNamesOneSecret'
  BY <1>1, AdministrationKept DEF administration
<1>4. DeliveredWasApplied'
  BY <1>1 DEF IInv, DeliveredWasApplied, host
<1>5. QED
  BY <1>2, <1>3, <1>4 DEF IInv

LEMMA WorkerDiesIInv ==
    ASSUME IInv, NEW e \in Events, WorkerDies(e)
    PROVE  IInv'
<1>1. UNCHANGED <<administration, outcome, attempt, host>>
  BY DEF WorkerDies
<1>2. TypeOK' /\ AnswersAreEarned' /\ AttemptsBegun'
  <2>1. attempt' \in [Events -> 0..MaxAttempts] /\ outcome' \in [Events -> {"pending", "delivered", "failed"}]
    BY <1>1 DEF IInv, TypeOK
  <2>2. Idle.pc # "report"
    BY DEF Idle
  <2>3. QED
    BY <1>1, <2>1, <2>2, SenderPlaces, SenderMoves DEF WorkerDies
<1>3. EndpointHasSecret' /\ RotationsAreSteps' /\ RevisionNamesOneSecret'
  BY <1>1, AdministrationKept DEF administration
<1>4. DeliveredWasApplied'
  BY <1>1 DEF IInv, DeliveredWasApplied, host
<1>5. QED
  BY <1>2, <1>3, <1>4 DEF IInv

\* Only a 204 is recorded as delivered, and its event is among the applied ones.
LEMMA ReportIInv ==
    ASSUME IInv, NEW e \in Events, Report(e)
    PROVE  IInv'
<1>1. UNCHANGED <<administration, attempt, host>>
  BY DEF Report
<1>2. \E o \in {"pending", "delivered", "failed"} :
         /\ outcome' = [outcome EXCEPT ![e] = o]
         /\ o = "delivered" => sender[e].pc = "report" /\ sender[e].result = "ok"
  BY DEF Report
<1>3. outcome' \in [Events -> {"pending", "delivered", "failed"}]
  BY <1>2 DEF IInv, TypeOK
<1>4. TypeOK' /\ AnswersAreEarned' /\ AttemptsBegun'
  <2>1. attempt' \in [Events -> 0..MaxAttempts]
    BY <1>1 DEF IInv, TypeOK
  <2>2. Idle.pc # "report"
    BY DEF Idle
  <2>3. QED
    BY <1>1, <1>3, <2>1, <2>2, SenderPlaces, SenderMoves DEF Report
<1>5. EndpointHasSecret' /\ RotationsAreSteps' /\ RevisionNamesOneSecret'
  BY <1>1, AdministrationKept DEF administration
<1>6. DeliveredWasApplied'
  <2>1. sender[e].pc = "report" /\ sender[e].result = "ok" => e \in applied
    BY DEF IInv, AnswersAreEarned
  <2>2. outcome \in [Events -> {"pending", "delivered", "failed"}] /\ applied' = applied
    BY <1>1 DEF IInv, TypeOK, host
  <2>3. QED
    BY <1>2, <2>1, <2>2 DEF IInv, DeliveredWasApplied
<1>7. QED
  BY <1>4, <1>5, <1>6 DEF IInv

--------------------------------------------------------------------------------
(* The receiver.                                                             *)

\* The requests of the receiver, as AnswersAreEarned sees them.
RequestsEarned ==
    \A q \in Events \X Attempts :
        /\ inbound[q].pc = "record" => q[1] \in applied
        /\ inbound[q].pc = "answer" /\ inbound[q].status = "204" => q[1] \in answered

\* One request of the receiver goes somewhere, the history only grows.
LEMMA RequestMoves ==
    ASSUME IInv, NEW q \in Events \X Attempts, NEW r \in Requests,
           inbound' = [inbound EXCEPT ![q] = r],
           applied \subseteq applied', answered \subseteq answered',
           r.pc = "record" => q[1] \in applied',
           r.pc = "answer" /\ r.status = "204" => q[1] \in answered'
    PROVE  inbound' \in [Events \X Attempts -> Requests] /\ RequestsEarned'
<1>1. inbound \in [Events \X Attempts -> Requests]
  BY DEF IInv, TypeOK
<1>2. inbound' \in [Events \X Attempts -> Requests]
  BY <1>1
<1>3. ASSUME NEW p \in Events \X Attempts
      PROVE  /\ inbound'[p].pc = "record" => p[1] \in applied'
             /\ inbound'[p].pc = "answer" /\ inbound'[p].status = "204" => p[1] \in answered'
  <2>1. CASE p = q
    BY <1>1, <2>1
  <2>2. CASE p # q
    <3>1. inbound'[p] = inbound[p]
      BY <1>1, <2>2
    <3>2. QED
      BY <3>1 DEF IInv, AnswersAreEarned
  <2>3. QED
    BY <2>1, <2>2
<1>4. QED
  BY <1>2, <1>3 DEF RequestsEarned

\* A step of the receiver's handler on one request.
LEMMA ReceiverMoves ==
    ASSUME IInv, NEW q \in Events \X Attempts, NEW r \in Requests,
           inbound' = [inbound EXCEPT ![q] = r],
           applied \subseteq applied', answered \subseteq answered',
           answered' \subseteq store', store' \subseteq applied', applied' \subseteq Events,
           r.pc = "record" => q[1] \in applied',
           r.pc = "answer" /\ r.status = "204" => q[1] \in answered',
           UNCHANGED <<administration, outcome, attempt, sender, hostSecret>>
    PROVE  IInv'
<1>1. inbound' \in [Events \X Attempts -> Requests] /\ RequestsEarned'
  BY RequestMoves
<1>2. TypeOK'
  BY <1>1 DEF IInv, TypeOK, administration
<1>3. AnswersAreEarned'
  <2>1. \A e \in Events : sender'[e].pc = "report" /\ sender'[e].result = "ok" => e \in answered'
    BY DEF IInv, AnswersAreEarned
  <2>2. QED
    BY <1>1, <2>1 DEF AnswersAreEarned, RequestsEarned
<1>4. EndpointHasSecret' /\ RotationsAreSteps' /\ RevisionNamesOneSecret'
  BY AdministrationKept DEF administration
<1>5. DeliveredWasApplied' /\ AttemptsBegun'
  BY DEF IInv, DeliveredWasApplied, AttemptsBegun
<1>6. QED
  BY <1>2, <1>3, <1>4, <1>5 DEF IInv

\* What a request may be.
LEMMA RequestPlaces ==
    /\ NoRequest \in Requests
    /\ \A s \in Statuses : [pc |-> "answer", status |-> s] \in Requests
    /\ \A s \in Secrets : [pc |-> "arrived", secret |-> s] \in Requests
    /\ \A r \in Requests, place \in {"callback", "record"} :
          r.pc \in {"arrived", "callback", "record"} =>
              /\ [r EXCEPT !.pc = place] \in Requests
              /\ [r EXCEPT !.pc = place].pc = place
<1>1. ASSUME NEW r \in Requests, NEW place \in {"callback", "record"}, r.pc \in {"arrived", "callback", "record"}
      PROVE  /\ [r EXCEPT !.pc = place] \in Requests
             /\ [r EXCEPT !.pc = place].pc = place
  <2>1. r \in [pc : {"arrived", "callback", "record"}, secret : Secrets]
    BY <1>1 DEF Requests, NoRequest
  <2>2. [r EXCEPT !.pc = place] \in [pc : {"arrived", "callback", "record"}, secret : Secrets]
    BY <2>1
  <2>3. QED
    BY <2>1, <2>2 DEF Requests
<1>2. QED
  BY <1>1 DEF Requests

\* An answered request: a 204 needs a recorded event.
LEMMA AnswerIInv ==
    ASSUME IInv, NEW q \in Events \X Attempts, NEW code \in Statuses, Answer(q, code),
           code = "204" => q[1] \in store', store \subseteq store', store' \subseteq applied,
           UNCHANGED <<administration, outcome, attempt, sender, hostSecret, applied>>
    PROVE  IInv'
<1>1. [pc |-> "answer", status |-> code] \in Requests
  BY RequestPlaces
<1>2. /\ inbound' = [inbound EXCEPT ![q] = [pc |-> "answer", status |-> code]]
      /\ answered' = IF code = "204" THEN answered \cup {q[1]} ELSE answered
  BY DEF Answer
<1>3. answered \subseteq answered' /\ answered' \subseteq store' /\ store' \subseteq applied'
  BY <1>2 DEF IInv, AnswersAreEarned
<1>4. applied' \subseteq Events
  BY DEF IInv, TypeOK
<1>5. code = "204" => q[1] \in answered'
  BY <1>2
<1>6. QED
  BY <1>1, <1>2, <1>3, <1>4, <1>5, ReceiverMoves

LEMMA VerifyRequestIInv ==
    ASSUME IInv, NEW q \in Events \X Attempts, VerifyRequest(q)
    PROVE  IInv'
<1>1. UNCHANGED <<administration, outcome, attempt, sender, hostSecret, store, applied>>
  BY DEF VerifyRequest
<1>2. store \subseteq applied /\ answered \subseteq store /\ applied \subseteq Events
  BY DEF IInv, AnswersAreEarned, TypeOK
<1>3. CASE Answer(q, "401")
  BY <1>1, <1>2, <1>3, AnswerIInv DEF Statuses
<1>4. CASE q[1] \in store /\ Answer(q, "204")
  BY <1>1, <1>2, <1>4, AnswerIInv DEF Statuses
<1>5. CASE Answer(q, "503")
  BY <1>1, <1>2, <1>5, AnswerIInv DEF Statuses
<1>6. CASE ReceiverGoto(q, "callback")
  <2>1. inbound[q] \in Requests /\ inbound[q].pc = "arrived"
    BY DEF IInv, TypeOK, VerifyRequest
  <2>2. inbound' = [inbound EXCEPT ![q] = [inbound[q] EXCEPT !.pc = "callback"]] /\ answered' = answered
    BY <1>6 DEF ReceiverGoto
  <2>3. /\ [inbound[q] EXCEPT !.pc = "callback"] \in Requests
        /\ [inbound[q] EXCEPT !.pc = "callback"].pc = "callback"
    BY <2>1, RequestPlaces
  <2>4. QED
    BY <1>1, <1>2, <2>2, <2>3, ReceiverMoves
<1>7. QED
  BY <1>3, <1>4, <1>5, <1>6 DEF VerifyRequest

LEMMA OnEventIInv ==
    ASSUME IInv, NEW q \in Events \X Attempts, OnEvent(q)
    PROVE  IInv'
<1>1. UNCHANGED <<administration, outcome, attempt, sender, hostSecret, store>>
  BY DEF OnEvent
<1>2. store \subseteq applied /\ answered \subseteq store /\ applied \subseteq Events
  BY DEF IInv, AnswersAreEarned, TypeOK
<1>3. CASE Answer(q, "503") /\ UNCHANGED applied
  BY <1>1, <1>2, <1>3, AnswerIInv DEF Statuses
<1>4. CASE applied' = applied \cup {q[1]} /\ ReceiverGoto(q, "record")
  <2>1. inbound[q] \in Requests /\ inbound[q].pc = "callback"
    BY DEF IInv, TypeOK, OnEvent
  <2>2. inbound' = [inbound EXCEPT ![q] = [inbound[q] EXCEPT !.pc = "record"]] /\ answered' = answered
    BY <1>4 DEF ReceiverGoto
  <2>3. /\ [inbound[q] EXCEPT !.pc = "record"] \in Requests
        /\ [inbound[q] EXCEPT !.pc = "record"].pc = "record"
    BY <2>1, RequestPlaces
  <2>4. applied \subseteq applied' /\ applied' \subseteq Events /\ q[1] \in applied'
    BY <1>2, <1>4
  <2>5. QED
    BY <1>1, <1>2, <2>2, <2>3, <2>4, ReceiverMoves
<1>5. QED
  BY <1>3, <1>4 DEF OnEvent

LEMMA MarkHandledIInv ==
    ASSUME IInv, NEW q \in Events \X Attempts, MarkHandled(q)
    PROVE  IInv'
<1>1. UNCHANGED <<administration, outcome, attempt, sender, hostSecret, applied>>
  BY DEF MarkHandled
<1>2. store \subseteq applied /\ q[1] \in applied
  BY DEF IInv, AnswersAreEarned, MarkHandled
<1>3. CASE store' = store \cup {q[1]} /\ Answer(q, "204")
  BY <1>1, <1>2, <1>3, AnswerIInv DEF Statuses
<1>4. CASE UNCHANGED store /\ Answer(q, "503")
  BY <1>1, <1>2, <1>4, AnswerIInv DEF Statuses
<1>5. QED
  BY <1>3, <1>4 DEF MarkHandled

LEMMA HostRestartsIInv ==
    ASSUME IInv, NEW s \in Secrets, HostRestarts(s)
    PROVE  IInv'
<1>1. /\ UNCHANGED <<administration, outcome, attempt, sender, store, applied, answered>>
      /\ hostSecret' = s /\ inbound' = [q \in Events \X Attempts |-> NoRequest]
  BY DEF HostRestarts
<1>2. TypeOK'
  BY <1>1, RequestPlaces DEF IInv, TypeOK, administration
<1>3. AnswersAreEarned'
  BY <1>1 DEF IInv, AnswersAreEarned, NoRequest
<1>4. EndpointHasSecret' /\ RotationsAreSteps' /\ RevisionNamesOneSecret'
  BY <1>1, AdministrationKept DEF administration
<1>5. DeliveredWasApplied' /\ AttemptsBegun'
  BY <1>1 DEF IInv, DeliveredWasApplied, AttemptsBegun
<1>6. QED
  BY <1>2, <1>3, <1>4, <1>5 DEF IInv

--------------------------------------------------------------------------------
(* The sender and the receiver together.                                     *)

\* A sender that waits, or is about to send, names a request of the receiver.
LEMMA SenderNamesRequest ==
    ASSUME IInv, NEW e \in Events, sender[e].pc \in {"send", "wait"}
    PROVE  <<e, attempt[e]>> \in Events \X Attempts
<1>1. attempt[e] # 0
  BY DEF IInv, AttemptsBegun, Idle
<1>2. attempt[e] \in 0..MaxAttempts /\ MaxAttempts \in Nat
  BY WebhookAssumption DEF IInv, TypeOK
<1>3. QED
  BY <1>1, <1>2 DEF Attempts

\* A step of the sender that also changes its request.
LEMMA ExchangeMoves ==
    ASSUME IInv, NEW e \in Events, NEW state \in SenderStates, Sender(e, state),
           state.pc = "report" /\ state.result = "ok" => e \in answered,
           sender[e] # Idle,
           inbound' \in [Events \X Attempts -> Requests], RequestsEarned',
           UNCHANGED <<administration, outcome, attempt, hostSecret, store, applied, answered>>
    PROVE  IInv'
<1>1. sender' = [sender EXCEPT ![e] = state] /\ sender \in [Events -> SenderStates]
  BY DEF IInv, TypeOK, Sender
<1>2. TypeOK'
  BY <1>1 DEF IInv, TypeOK, administration
<1>3. \A d \in Events : sender'[d].pc = "report" /\ sender'[d].result = "ok" => d \in answered
  BY <1>1 DEF IInv, AnswersAreEarned
<1>4. AnswersAreEarned'
  BY <1>3 DEF IInv, AnswersAreEarned, RequestsEarned
<1>5. AttemptsBegun'
  BY <1>1 DEF IInv, AttemptsBegun
<1>6. EndpointHasSecret' /\ RotationsAreSteps' /\ RevisionNamesOneSecret'
  BY AdministrationKept DEF administration
<1>7. DeliveredWasApplied'
  BY DEF IInv, DeliveredWasApplied
<1>8. QED
  BY <1>2, <1>4, <1>5, <1>6, <1>7 DEF IInv

LEMMA SendIInv ==
    ASSUME IInv, NEW e \in Events, Send(e)
    PROVE  IInv'
<1> DEFINE r == [pc |-> "arrived", secret |-> sender[e].secret]
<1>1. /\ sender[e].pc = "send" /\ Sender(e, [pc |-> "wait"]) /\ sender[e] # Idle
      /\ UNCHANGED <<administration, outcome, attempt, hostSecret, store, applied, answered>>
  BY DEF Send, Idle
<1>2. sender[e].secret \in Secrets
  <2>1. sender[e] \in SenderStates
    BY DEF IInv, TypeOK
  <2>2. QED
    BY <1>1, <2>1 DEF SenderStates, Idle
<1>3. inbound' \in [Events \X Attempts -> Requests] /\ RequestsEarned'
  <2>1. CASE inbound' = [inbound EXCEPT ![<<e, attempt[e]>>] = r]
    <3>1. r \in Requests /\ r.pc = "arrived"
      BY <1>2, RequestPlaces
    <3>2. <<e, attempt[e]>> \in Events \X Attempts
      BY <1>1, SenderNamesRequest
    <3> HIDE DEF r
    <3>3. QED
      BY <1>1, <2>1, <3>1, <3>2, RequestMoves
  <2>2. CASE UNCHANGED inbound
    BY <1>1, <2>2 DEF IInv, TypeOK, AnswersAreEarned, RequestsEarned
  <2>3. QED
    BY <2>1, <2>2 DEF Send
<1>4. QED
  BY <1>1, <1>3, SenderPlaces, ExchangeMoves

LEMMA ReceiveStatusIInv ==
    ASSUME IInv, NEW e \in Events, ReceiveStatus(e)
    PROVE  IInv'
<1> DEFINE q == <<e, attempt[e]>>
<1>1. /\ sender[e].pc = "wait" /\ sender[e] # Idle /\ inbound[q].pc = "answer"
      /\ inbound' = [inbound EXCEPT ![q] = NoRequest]
      /\ UNCHANGED <<administration, outcome, attempt, hostSecret, store, applied, answered>>
  BY DEF ReceiveStatus, Idle
<1>2. q \in Events \X Attempts
  BY <1>1, SenderNamesRequest
<1>3. inbound[q].status \in Statuses
  <2>1. inbound[q] \in Requests
    BY <1>2 DEF IInv, TypeOK
  <2>2. QED
    BY <1>1, <2>1 DEF Requests, NoRequest
<1>4. \E result \in {"ok", "permanent", "retryable"} :
         /\ Sender(e, [pc |-> "report", result |-> result])
         /\ result = "ok" => inbound[q].status = "204"
  BY <1>3 DEF ReceiveStatus, Statuses
<1>5. inbound[q].status = "204" => e \in answered
  BY <1>1, <1>2 DEF IInv, AnswersAreEarned
<1>6. inbound' \in [Events \X Attempts -> Requests] /\ RequestsEarned'
  <2>1. NoRequest \in Requests /\ NoRequest.pc = "none"
    BY RequestPlaces DEF NoRequest
  <2> HIDE DEF q
  <2>2. QED
    BY <1>1, <1>2, <2>1, RequestMoves
<1>7. QED
  BY <1>1, <1>4, <1>5, <1>6, SenderPlaces, ExchangeMoves

--------------------------------------------------------------------------------

LEMMA NextIInv == IInv /\ [Next]_vars => IInv'
<1> SUFFICES ASSUME IInv, [Next]_vars PROVE IInv'
  OBVIOUS
<1>1. ASSUME NEW c \in Commands, NEW s \in Secrets, NEW n \in {0, endpoint.revision}, Prepare(c, s, n)
      PROVE  IInv'
  BY <1>1, PrepareIInv
<1>2. ASSUME NEW c \in Commands, Configure(c) PROVE IInv'
  BY <1>2, ConfigureIInv
<1>3. ASSUME NEW e \in Events, LoadEndpoint(e) \/ Send(e) \/ ReceiveStatus(e) PROVE IInv'
  BY <1>3, LoadEndpointIInv, SendIInv, ReceiveStatusIInv
<1>4. ASSUME NEW e \in Events, TransportError(e) \/ Report(e) \/ WorkerDies(e) PROVE IInv'
  BY <1>4, TransportErrorIInv, ReportIInv, WorkerDiesIInv
<1>5. ASSUME NEW q \in Events \X Attempts, VerifyRequest(q) \/ OnEvent(q) \/ MarkHandled(q) PROVE IInv'
  BY <1>5, VerifyRequestIInv, OnEventIInv, MarkHandledIInv
<1>6. ASSUME NEW s \in Secrets, HostRestarts(s) PROVE IInv'
  BY <1>6, HostRestartsIInv
<1>7. ASSUME UNCHANGED vars PROVE IInv'
  <2>1. TypeOK' /\ EndpointHasSecret' /\ RotationsAreSteps' /\ RevisionNamesOneSecret'
    BY <1>7 DEF vars, IInv, TypeOK, EndpointHasSecret, RotationsAreSteps, RevisionNamesOneSecret
  <2>2. AnswersAreEarned' /\ AttemptsBegun' /\ DeliveredWasApplied'
    BY <1>7 DEF vars, IInv, AnswersAreEarned, AttemptsBegun, DeliveredWasApplied
  <2>3. QED
    BY <2>1, <2>2 DEF IInv
<1>8. QED
  BY <1>1, <1>2, <1>3, <1>4, <1>5, <1>6, <1>7 DEF Next

\* The inductive invariant holds throughout.
THEOREM WebhookInvariant == Spec => []IInv
BY InitIInv, NextIInv, PTL DEF Spec

\* The shape of the rows, the sender's and the receiver's places, and what they carry,
\* for any number of events, attempts and secrets.
THEOREM WebhookTypeCorrect == Spec => []TypeOK
<1>1. IInv => TypeOK
  BY DEF IInv
<1>2. QED
  BY WebhookInvariant, <1>1, PTL

\* Deliver, ServeHTTP: what the queue records as delivered was applied by the host,
\* whichever attempts overlap and whoever restarts.
THEOREM DeliveredIsApplied == Spec => []DeliveredWasApplied
<1>1. IInv => DeliveredWasApplied
  BY DEF IInv
<1>2. QED
  BY WebhookInvariant, <1>1, PTL

\* Configure, PutWebhookEndpoint: any number of administrators and rotations.
THEOREM RevisionsNameOneSecret == Spec => []RevisionNamesOneSecret
<1>1. IInv => RevisionNamesOneSecret
  BY DEF IInv
<1>2. QED
  BY WebhookInvariant, <1>1, PTL

\* No request starts the callback of an event that some request was answered 204 for.
LEMMA HandledOnceStep ==
    ASSUME IInv, [Next]_vars, NEW p \in Events \X Attempts,
           inbound[p].pc = "arrived", inbound'[p].pc = "callback"
    PROVE  p[1] \notin answered
<1>1. inbound \in [Events \X Attempts -> Requests] /\ answered \subseteq store
  BY DEF IInv, TypeOK, AnswersAreEarned
<1>2. ASSUME NEW q \in Events \X Attempts, VerifyRequest(q) PROVE p[1] \notin answered
  <2>1. p = q
    BY <1>1, <1>2 DEF VerifyRequest, Answer, ReceiverGoto
  <2>2. CASE ReceiverGoto(q, "callback") /\ q[1] \notin store
    BY <1>1, <2>1, <2>2
  <2>3. CASE \E code \in Statuses : Answer(q, code)
    BY <1>1, <2>1, <2>3 DEF Answer
  <2>4. QED
    BY <1>2, <2>2, <2>3 DEF VerifyRequest, Statuses
<1>3. ASSUME NEW q \in Events \X Attempts, OnEvent(q) \/ MarkHandled(q) PROVE FALSE
  <2>1. inbound[q].pc # "arrived"
    BY <1>3 DEF OnEvent, MarkHandled
  <2>2. inbound'[p] = inbound[p]
    BY <1>1, <1>3, <2>1 DEF OnEvent, MarkHandled, Answer, ReceiverGoto
  <2>3. QED
    BY <2>2
<1>4. ASSUME NEW e \in Events, Send(e) \/ ReceiveStatus(e) PROVE FALSE
  <2>1. \/ inbound'[p] = inbound[p]
        \/ inbound'[p].pc \in {"arrived", "none"}
    BY <1>1, <1>4 DEF Send, ReceiveStatus, NoRequest
  <2>2. QED
    BY <2>1
<1>5. ASSUME NEW s \in Secrets, HostRestarts(s) PROVE FALSE
  BY <1>5 DEF HostRestarts, NoRequest
<1>6. ASSUME NEW e \in Events, LoadEndpoint(e) \/ TransportError(e) \/ Report(e) \/ WorkerDies(e) PROVE FALSE
  BY <1>6 DEF LoadEndpoint, TransportError, Report, WorkerDies, host
<1>7. ASSUME NEW c \in Commands, \/ Configure(c)
                                 \/ \E s \in Secrets, n \in {0, endpoint.revision} : Prepare(c, s, n)
      PROVE FALSE
  BY <1>7 DEF Configure, Prepare, host
<1>8. ~ UNCHANGED vars
  BY DEF vars
<1>9. QED
  BY <1>2, <1>3, <1>4, <1>5, <1>6, <1>7, <1>8 DEF Next

\* VerifyRequest, MarkHandled: across any retries, overlaps and restarts.
THEOREM HandledOnlyOnce == Spec => HandledOnce
<1>1. IInv /\ [Next]_vars =>
         [\A q \in Events \X Attempts :
             inbound[q].pc = "arrived" /\ inbound'[q].pc = "callback" => q[1] \notin answered]_vars
  BY HandledOnceStep
<1>2. QED
  BY WebhookInvariant, <1>1, PTL DEF Spec, HandledOnce

(***************************************************************************)
(* The daily refresh                                                       *)
(***************************************************************************)
ChainPlaces == {"idle", "clock", "schedule", "verify", "retire", "complete", "finish", "fail"}

\* The state that the proofs read, and what values it takes.
ChainTypeOK ==
    /\ day \in 0..MaxDay
    /\ lineage \in {"active", "ended"}
    /\ status \in [Generations -> {"absent", "open", "done", "failed"}]
    /\ job \in [Generations -> {"none", "scheduled", "running", "final"}]
    /\ pc \in [Generations -> ChainPlaces]
    /\ next \in [Generations -> Generations \cup {0}]
    /\ attempts \in [Generations -> 0..ChainAttempts]
    /\ client \in [Clients -> Generations \cup {0}]
    /\ saved \subseteq Generations
    /\ everEnded \in BOOLEAN

\* Where a worker is tells what it has done: the generation is due and its job runs, the
\* successor it names is later, it is saved before the provider is asked, only the end of
\* the lineage leads to a retirement, and a worker that is to fail its row, or that holds
\* the last attempt, is known to be on a last run.
PlaceFits(g) ==
    /\ status[g] = "absent" => job[g] = "none" /\ pc[g] = "idle"
    /\ job[g] = "none" => attempts[g] = 0
    /\ job[g] = "scheduled" => attempts[g] < ChainAttempts
    /\ attempts[g] = ChainAttempts \/ pc[g] = "fail" => g \in lastRuns
    /\ pc[g] # "idle" => job[g] = "running" /\ g <= day
    /\ pc[g] = "schedule" => next[g] \in Generations /\ next[g] > g
    /\ pc[g] \in {"verify", "retire", "complete"} =>
          g \in saved /\ next[g] \in Generations /\ status[next[g]] # "absent"
    /\ pc[g] = "retire" => everEnded

PlacesFit ==
    /\ lineage = "ended" => everEnded
    /\ \A g \in Generations : PlaceFits(g)

\* A generation whose worker has saved a successor is not the last one.
SavedHasLater ==
    \A g \in saved : \E h \in Generations : h > g /\ status[h] # "absent"

\* A generation that has not saved a successor runs, or has ended with a last run, unless
\* the end of the lineage retired it.
UnsavedRuns ==
    \A g \in Generations :
        ~everEnded /\ status[g] # "absent" /\ g \notin saved =>
            /\ (Ended(g) /\ g \in lastRuns) \/ Runnable(g)
            /\ pc[g] = "finish" => status[g] = "failed"
            /\ status[g] # "done"

ChainIInv == ChainTypeOK /\ PlacesFit /\ SavedHasLater /\ UnsavedRuns

LEMMA InitChainIInv == ChainInit => ChainIInv
<1> SUFFICES ASSUME ChainInit PROVE ChainIInv
  OBVIOUS
<1>1. ChainTypeOK
  <2>1. 0 \in 0..MaxDay /\ "idle" \in ChainPlaces
    BY ChainAssumption DEF ChainPlaces
  <2>2. status \in [Generations -> {"absent", "open", "done", "failed"}]
        /\ job \in [Generations -> {"none", "scheduled", "running", "final"}]
    BY DEF ChainInit
  <2>3. pc \in [Generations -> ChainPlaces] /\ next \in [Generations -> Generations \cup {0}]
        /\ client \in [Clients -> Generations \cup {0}]
    BY <2>1 DEF ChainInit
  <2>5. attempts \in [Generations -> 0..ChainAttempts]
    BY ChainAssumption DEF ChainInit
  <2>4. QED
    BY <2>1, <2>2, <2>3, <2>5 DEF ChainInit, ChainTypeOK
<1>2. PlacesFit /\ SavedHasLater /\ UnsavedRuns
  BY ChainAssumption DEF ChainInit, PlacesFit, PlaceFits, SavedHasLater, UnsavedRuns
<1>3. QED
  BY <1>1, <1>2 DEF ChainIInv

--------------------------------------------------------------------------------
(* The clock, the provider and the clients.                                  *)

LEMMA MidnightIInv == ASSUME ChainIInv, Midnight PROVE ChainIInv'
<1> USE DEF Midnight
<1>1. ChainTypeOK'
  BY ChainAssumption DEF ChainIInv, ChainTypeOK
<1>2. PlacesFit'
  <2>1. \A g \in Generations : PlaceFits(g) => PlaceFits(g)'
    BY ChainAssumption DEF ChainIInv, ChainTypeOK, PlaceFits, Generations
  <2>2. QED
    BY <2>1 DEF ChainIInv, PlacesFit
<1>3. SavedHasLater' /\ UnsavedRuns'
  BY DEF ChainIInv, SavedHasLater, UnsavedRuns, Runnable, Ended
<1>4. QED
  BY <1>1, <1>2, <1>3 DEF ChainIInv

LEMMA ProviderChangesIInv == ASSUME ChainIInv, ProviderChanges PROVE ChainIInv'
<1> USE DEF ProviderChanges
<1>1. ChainTypeOK'
  BY DEF ChainIInv, ChainTypeOK
<1>2. PlacesFit'
  BY DEF ChainIInv, ChainTypeOK, PlacesFit, PlaceFits
<1>3. SavedHasLater' /\ UnsavedRuns'
  BY DEF ChainIInv, ChainTypeOK, SavedHasLater, UnsavedRuns, Runnable, Ended
<1>4. QED
  BY <1>1, <1>2, <1>3 DEF ChainIInv

LEMMA ClientVerifiesIInv == ASSUME ChainIInv, NEW c \in Clients, ClientVerifies(c) PROVE ChainIInv'
<1> USE DEF ClientVerifies
<1>1. ChainTypeOK'
  BY ChainAssumption DEF ChainIInv, ChainTypeOK, NextReconciliationTime, Generations
<1>2. PlacesFit'
  BY DEF ChainIInv, PlacesFit, PlaceFits
<1>3. SavedHasLater' /\ UnsavedRuns'
  BY DEF ChainIInv, SavedHasLater, UnsavedRuns, Runnable, Ended
<1>4. QED
  BY <1>1, <1>2, <1>3 DEF ChainIInv

\* Saving a generation starts one that was absent and takes nothing from the others.
LEMMA SaveKeeps ==
    ASSUME ChainIInv, NEW h \in Generations, SaveReconciliationJob(h)
    PROVE  /\ status' \in [Generations -> {"absent", "open", "done", "failed"}]
           /\ job' \in [Generations -> {"none", "scheduled", "running", "final"}]
           /\ status'[h] # "absent"
           /\ \A g \in Generations :
                 /\ status[g] # "absent" => status'[g] # "absent" /\ job'[g] \in {job[g], "scheduled"}
                 /\ status[g] # "absent" /\ job[g] # "none" => job'[g] = job[g]
                 /\ status[g] \in {"open", "failed"} => status'[g] = status[g]
                 /\ job'[g] = job[g] \/ (job[g] = "none" /\ job'[g] = "scheduled")
                 /\ status'[g] # "absent" /\ status[g] = "absent" =>
                       g = h /\ status'[g] = "open" /\ job'[g] = "scheduled"
                 /\ status'[g] = "absent" => status[g] = "absent" /\ job'[g] = job[g]
<1>1. /\ status' = [status EXCEPT ![h] = IF @ \in {"absent", "done"} THEN "open" ELSE @]
      /\ job' = [job EXCEPT ![h] = IF @ = "none" THEN "scheduled" ELSE @]
      /\ status \in [Generations -> {"absent", "open", "done", "failed"}]
      /\ job \in [Generations -> {"none", "scheduled", "running", "final"}]
  BY DEF SaveReconciliationJob, ChainIInv, ChainTypeOK
<1>2. \A g \in Generations : status[g] = "absent" => job[g] = "none"
  BY DEF ChainIInv, PlacesFit, PlaceFits
<1>3. \A g \in Generations :
         /\ g # h => status'[g] = status[g] /\ job'[g] = job[g]
         /\ job'[g] = job[g] \/ (job[g] = "none" /\ job'[g] = "scheduled")
  BY <1>1
<1>4. /\ status' \in [Generations -> {"absent", "open", "done", "failed"}]
      /\ job' \in [Generations -> {"none", "scheduled", "running", "final"}]
      /\ status'[h] # "absent"
      /\ status[h] \in {"absent", "done"} => status'[h] = "open"
      /\ status[h] \notin {"absent", "done"} => status'[h] = status[h]
      /\ job[h] = "none" => job'[h] = "scheduled"
  BY <1>1
<1>5. QED
  BY <1>1, <1>2, <1>3, <1>4

\* What UnsavedRuns needs of a step that saves a generation.
LEMMA SaveIInv ==
    ASSUME ChainIInv, NEW h \in Generations, SaveReconciliationJob(h),
           saved \subseteq saved', saved' \subseteq Generations,
           \A g \in saved' : g \in saved \/ h > g,
           pc' \in [Generations -> ChainPlaces], next' = next,
           \A g \in Generations : \/ pc'[g] = pc[g]
                                  \/ pc[g] = "schedule" /\ pc'[g] = "verify" /\ g \in saved' /\ next[g] = h,
           client' \in [Clients -> Generations \cup {0}],
           UNCHANGED <<day, lineage, attempts, lastRuns, everEnded>>
    PROVE  ChainIInv'
<1> USE SaveKeeps
<1>1. ChainTypeOK'
  BY DEF ChainIInv, ChainTypeOK
<1>2. ASSUME NEW g \in Generations PROVE PlaceFits(g)'
  <2>1. PlaceFits(g)
    BY DEF ChainIInv, PlacesFit
  <2>2. job[g] = "running" => job'[g] = "running"
    BY <2>1 DEF PlaceFits
  <2>3. attempts[g] \in 0..ChainAttempts
    BY DEF ChainIInv, ChainTypeOK
  <2>4. job'[g] = "none" => attempts[g] = 0
    BY <2>1 DEF PlaceFits
  <2>5. job'[g] = "scheduled" => attempts[g] < ChainAttempts
    BY <2>1, <2>3, ChainAssumption DEF PlaceFits
  <2>6. QED
    BY <2>1, <2>2, <2>4, <2>5 DEF PlaceFits
<1>3. PlacesFit'
  BY <1>2 DEF ChainIInv, PlacesFit
<1>4. SavedHasLater'
  BY DEF ChainIInv, SavedHasLater
<1>5. ASSUME NEW g \in Generations, ~everEnded', status'[g] # "absent", g \notin saved'
      PROVE  /\ (Ended(g)' /\ g \in lastRuns') \/ Runnable(g)'
             /\ pc'[g] = "finish" => status'[g] = "failed"
             /\ status'[g] # "done"
  <2>1. CASE status[g] = "absent"
    <3>1. pc[g] = "idle" /\ pc'[g] = "idle"
      BY <1>5, <2>1 DEF ChainIInv, PlacesFit, PlaceFits
    <3>2. QED
      BY <1>5, <2>1, <3>1 DEF Runnable
  <2>2. CASE status[g] # "absent"
    <3>1. /\ (Ended(g) /\ g \in lastRuns) \/ Runnable(g)
          /\ pc[g] = "finish" => status[g] = "failed"
          /\ status[g] # "done"
      BY <1>5, <2>2 DEF ChainIInv, UnsavedRuns
    <3>2. pc'[g] = pc[g]
      BY <1>5
    <3>3. QED
      BY <2>2, <3>1, <3>2 DEF Runnable, Ended, ChainIInv, ChainTypeOK
  <2>3. QED
    BY <2>1, <2>2
<1>6. UnsavedRuns'
  BY <1>5 DEF UnsavedRuns
<1>7. QED
  BY <1>1, <1>3, <1>4, <1>6 DEF ChainIInv

LEMMA ClientSchedulesIInv == ASSUME ChainIInv, NEW c \in Clients, ClientSchedules(c) PROVE ChainIInv'
<1>1. /\ client[c] \in Generations
      /\ client' \in [Clients -> Generations \cup {0}]
      /\ UNCHANGED <<day, lineage, pc, next, attempts, saved, lastRuns, everEnded>>
  BY DEF ClientSchedules, ChainIInv, ChainTypeOK
<1>2. CASE SaveReconciliationJob(client[c])
  <2>1. saved \subseteq Generations /\ pc \in [Generations -> ChainPlaces]
    BY DEF ChainIInv, ChainTypeOK
  <2>2. QED
    BY <1>1, <1>2, <2>1, SaveIInv
<1>3. CASE UNCHANGED <<status, job>>
  <2>1. ChainTypeOK'
    BY <1>1, <1>3 DEF ChainIInv, ChainTypeOK
  <2>2. PlacesFit' /\ SavedHasLater' /\ UnsavedRuns'
    BY <1>1, <1>3 DEF ChainIInv, PlacesFit, PlaceFits, SavedHasLater, UnsavedRuns, Runnable, Ended
  <2>3. QED
    BY <2>1, <2>2 DEF ChainIInv
<1>4. QED
  BY <1>2, <1>3 DEF ClientSchedules

--------------------------------------------------------------------------------
(* The worker.                                                               *)

LEMMA ScheduleNextIInv == ASSUME ChainIInv, NEW g \in Generations, ScheduleNext(g) PROVE ChainIInv'
<1>1. /\ pc[g] = "schedule" /\ pc' = [pc EXCEPT ![g] = "verify"]
      /\ SaveReconciliationJob(next[g])
      /\ saved' = saved \cup {g}
      /\ UNCHANGED <<next, attempts, lastRuns, day, lineage, client, everEnded>>
  BY DEF ScheduleNext, WorkerUnchanged
<1>2. next[g] \in Generations /\ next[g] > g
  BY <1>1 DEF ChainIInv, PlacesFit, PlaceFits
<1>3. pc' \in [Generations -> ChainPlaces] /\ saved' \subseteq Generations
  BY <1>1 DEF ChainIInv, ChainTypeOK, ChainPlaces
<1>4. \A h \in Generations : \/ pc'[h] = pc[h]
                             \/ pc[h] = "schedule" /\ pc'[h] = "verify" /\ h \in saved' /\ next[h] = next[g]
  BY <1>1 DEF ChainIInv, ChainTypeOK
<1>5. client' \in [Clients -> Generations \cup {0}]
  BY <1>1 DEF ChainIInv, ChainTypeOK
<1>6. QED
  BY <1>1, <1>2, <1>3, <1>4, <1>5, SaveIInv

\* A step of one generation's worker that saves nothing: no row becomes absent, a row
\* closes only when its generation is saved or the lineage has ended, and the worker's
\* new place fits.
LEMMA WorkerMoves ==
    ASSUME ChainIInv, NEW g \in Generations, ChainTypeOK',
           \A h \in Generations : status'[h] = "absent" <=> status[h] = "absent",
           \A h \in Generations : h # g => /\ job'[h] = job[h] /\ pc'[h] = pc[h]
                                               /\ next'[h] = next[h] /\ attempts'[h] = attempts[h],
           status[g] # "absent",
           PlaceFits(g)',
           \A h \in Generations : ~everEnded /\ h \notin saved =>
               \/ h # g /\ status'[h] = status[h]
               \/ h = g /\ Ended(g)' /\ g \in lastRuns' /\ pc'[g] # "finish" /\ status'[g] # "done"
               \/ h = g /\ status'[g] = "failed" /\ g \in lastRuns'
               \/ h = g /\ Runnable(g)' /\ pc'[g] # "finish"
               \/ status[h] = "absent",
           lastRuns \subseteq lastRuns',
           UNCHANGED <<day, lineage, saved, everEnded>>
    PROVE  ChainIInv'
<1>1. ASSUME NEW h \in Generations PROVE PlaceFits(h)'
  <2>1. CASE h = g
    BY <2>1
  <2>2. CASE h # g
    BY <2>2 DEF ChainIInv, PlacesFit, PlaceFits
  <2>3. QED
    BY <2>1, <2>2
<1>2. PlacesFit'
  BY <1>1 DEF ChainIInv, PlacesFit
<1>3. SavedHasLater'
  BY DEF ChainIInv, ChainTypeOK, SavedHasLater
<1>4. UnsavedRuns'
  BY DEF ChainIInv, UnsavedRuns, Runnable, Ended
<1>5. QED
  BY <1>2, <1>3, <1>4 DEF ChainIInv

\* A generation with a job, or with a worker, has a row.
LEMMA WorkedOn ==
    ASSUME ChainIInv, NEW g \in Generations, job[g] # "none" \/ pc[g] # "idle"
    PROVE  PlaceFits(g) /\ status[g] # "absent"
BY DEF ChainIInv, PlacesFit, PlaceFits

LEMMA StartIInv == ASSUME ChainIInv, NEW g \in Generations, Start(g) PROVE ChainIInv'
<1>1. /\ job[g] = "scheduled" /\ day >= g
      /\ attempts' = [attempts EXCEPT ![g] = @ + 1]
      /\ lastRuns \subseteq lastRuns' /\ (attempts[g] + 1 = ChainAttempts => g \in lastRuns')
      /\ UNCHANGED <<status, next, saved, day, lineage, client, everEnded>>
  BY DEF Start, WorkerUnchanged
<1>2. PlaceFits(g) /\ status[g] # "absent" /\ pc[g] = "idle"
  BY <1>1, WorkedOn DEF PlaceFits
<1>3. /\ attempts' \in [Generations -> 0..ChainAttempts]
      /\ attempts'[g] = attempts[g] + 1 /\ \A h \in Generations : h # g => attempts'[h] = attempts[h]
  BY <1>1, <1>2, ChainAssumption DEF ChainIInv, ChainTypeOK, PlaceFits
<1>4. CASE status[g] = "open" /\ job' = [job EXCEPT ![g] = "running"] /\ pc' = [pc EXCEPT ![g] = "clock"]
  <2>1. ChainTypeOK'
    BY <1>1, <1>3, <1>4 DEF ChainIInv, ChainTypeOK, ChainPlaces
  <2>2. job'[g] = "running" /\ pc'[g] = "clock" /\ \A h \in Generations : h # g => job'[h] = job[h] /\ pc'[h] = pc[h]
    BY <1>4 DEF ChainIInv, ChainTypeOK
  <2>3. PlaceFits(g)'
    BY <1>1, <1>2, <1>3, <2>2 DEF ChainIInv, ChainTypeOK, PlaceFits, Generations
  <2>4. Runnable(g)'
    BY <1>1, <1>4, <2>2 DEF Runnable
  <2>5. QED
    BY <1>1, <1>2, <1>3, <2>1, <2>2, <2>3, <2>4, WorkerMoves
<1>5. CASE status[g] \in {"done", "failed"} /\ job' = [job EXCEPT ![g] = "final"] /\ UNCHANGED pc
  <2>1. ChainTypeOK'
    BY <1>1, <1>3, <1>5 DEF ChainIInv, ChainTypeOK
  <2>2. job'[g] = "final" /\ \A h \in Generations : h # g => job'[h] = job[h]
    BY <1>5 DEF ChainIInv, ChainTypeOK
  <2>3. PlaceFits(g)'
    BY <1>1, <1>2, <1>3, <1>5, <2>2 DEF PlaceFits
  <2>4. ~everEnded /\ g \notin saved => status[g] = "failed" /\ g \in lastRuns
    BY <1>2, <1>5 DEF ChainIInv, UnsavedRuns, Runnable
  <2>5. QED
    BY <1>1, <1>2, <1>3, <1>5, <2>1, <2>2, <2>3, <2>4, WorkerMoves
<1>6. QED
  BY <1>4, <1>5 DEF Start

\* A worker that only moves on keeps its generation running.
LEMMA PlaceMoves ==
    ASSUME ChainIInv, NEW g \in Generations, NEW place \in ChainPlaces \ {"idle", "finish"},
           pc[g] # "idle", pc[g] # "finish",
           pc' = [pc EXCEPT ![g] = place],
           next' \in [Generations -> Generations \cup {0}],
           \A h \in Generations : h # g => next'[h] = next[h],
           PlaceFits(g)',
           UNCHANGED <<status, job, attempts, saved, lastRuns, day, lineage, client, everEnded>>
    PROVE  ChainIInv'
<1>1. ChainTypeOK'
  BY DEF ChainIInv, ChainTypeOK
<1>2. pc'[g] = place /\ \A h \in Generations : h # g => pc'[h] = pc[h]
  BY DEF ChainIInv, ChainTypeOK
<1>3. status[g] # "absent"
  BY WorkedOn
<1>4. job[g] = "running"
  BY DEF ChainIInv, PlacesFit, PlaceFits
<1>5. ~everEnded /\ g \notin saved => \/ status[g] = "failed" /\ g \in lastRuns
                                      \/ Runnable(g)'
  BY <1>3, <1>4 DEF ChainIInv, UnsavedRuns, Runnable, Ended
<1>6. QED
  BY <1>1, <1>2, <1>3, <1>5, WorkerMoves

LEMMA ReadClockIInv == ASSUME ChainIInv, NEW g \in Generations, ReadClock(g) PROVE ChainIInv'
<1>1. /\ pc[g] = "clock" /\ pc' = [pc EXCEPT ![g] = "schedule"]
      /\ next' = [next EXCEPT ![g] = day + 1]
      /\ UNCHANGED <<status, job, attempts, saved, lastRuns, day, lineage, client, everEnded>>
  BY DEF ReadClock, WorkerUnchanged, NextReconciliationTime
<1>2. PlaceFits(g) /\ g <= day
  BY <1>1, WorkedOn DEF PlaceFits
<1>3. day + 1 \in Generations /\ day + 1 > g
  BY <1>2, ChainAssumption DEF ChainIInv, ChainTypeOK, Generations
<1>4. /\ next' \in [Generations -> Generations \cup {0}] /\ next'[g] = day + 1
      /\ \A h \in Generations : h # g => next'[h] = next[h]
  BY <1>1, <1>3 DEF ChainIInv, ChainTypeOK
<1>5. pc'[g] = "schedule"
  BY <1>1 DEF ChainIInv, ChainTypeOK
<1>6. PlaceFits(g)'
  BY <1>1, <1>2, <1>3, <1>4, <1>5 DEF PlaceFits
<1>7. QED
  BY <1>1, <1>4, <1>6, PlaceMoves DEF ChainPlaces

LEMMA VerifyIInv == ASSUME ChainIInv, NEW g \in Generations, Verify(g) PROVE ChainIInv'
<1>1. PICK place \in {"retire", "complete"} :
         /\ pc[g] = "verify" /\ pc' = [pc EXCEPT ![g] = place]
         /\ place = "retire" => lineage = "ended"
         /\ UNCHANGED <<status, job, next, attempts, saved, lastRuns, day, lineage, client, everEnded>>
  BY DEF Verify, WorkerUnchanged
<1>2. PlaceFits(g) /\ (place = "retire" => everEnded)
  BY <1>1, WorkedOn DEF ChainIInv, PlacesFit
<1>3. pc'[g] = place /\ next \in [Generations -> Generations \cup {0}]
  BY <1>1 DEF ChainIInv, ChainTypeOK
<1>4. PlaceFits(g)'
  BY <1>1, <1>2, <1>3 DEF PlaceFits
<1>5. QED
  BY <1>1, <1>3, <1>4, PlaceMoves DEF ChainPlaces

LEMMA RetireIInv == ASSUME ChainIInv, NEW g \in Generations, Retire(g) PROVE ChainIInv'
<1>1. /\ pc[g] = "retire" /\ pc' = [pc EXCEPT ![g] = "complete"]
      /\ status' = status \/ status' = [status EXCEPT ![next[g]] = "done"]
      /\ UNCHANGED <<job, next, attempts, saved, lastRuns, day, lineage, client, everEnded>>
  BY DEF Retire, WorkerUnchanged
<1>2. PlaceFits(g) /\ status[g] # "absent" /\ everEnded
  BY <1>1, WorkedOn DEF PlaceFits
<1>3. ChainTypeOK'
  BY <1>1 DEF ChainIInv, ChainTypeOK, ChainPlaces
<1>4. next[g] \in Generations /\ status[next[g]] # "absent"
  BY <1>1, <1>2 DEF PlaceFits
<1>5. \A h \in Generations : status'[h] = "absent" <=> status[h] = "absent"
  BY <1>1, <1>4 DEF ChainIInv, ChainTypeOK
<1>6. pc'[g] = "complete" /\ \A h \in Generations : h # g => pc'[h] = pc[h]
  BY <1>1 DEF ChainIInv, ChainTypeOK
<1>7. PlaceFits(g)'
  BY <1>1, <1>2, <1>4, <1>5, <1>6 DEF PlaceFits
<1>8. QED
  BY <1>1, <1>2, <1>3, <1>5, <1>6, <1>7, WorkerMoves

LEMMA CompleteIInv == ASSUME ChainIInv, NEW g \in Generations, Complete(g) PROVE ChainIInv'
<1>1. /\ pc[g] = "complete" /\ pc' = [pc EXCEPT ![g] = "finish"]
      /\ status' = [status EXCEPT ![g] = "done"]
      /\ UNCHANGED <<job, next, attempts, saved, lastRuns, day, lineage, client, everEnded>>
  BY DEF Complete, WorkerUnchanged
<1>2. PlaceFits(g) /\ status[g] # "absent" /\ g \in saved
  BY <1>1, WorkedOn DEF PlaceFits
<1>3. ChainTypeOK'
  BY <1>1 DEF ChainIInv, ChainTypeOK, ChainPlaces
<1>4. /\ status'[g] = "done" /\ pc'[g] = "finish"
      /\ \A h \in Generations : h # g => pc'[h] = pc[h] /\ status'[h] = status[h]
  BY <1>1 DEF ChainIInv, ChainTypeOK
<1>5. PlaceFits(g)'
  BY <1>1, <1>2, <1>4 DEF PlaceFits
<1>6. QED
  BY <1>1, <1>2, <1>3, <1>4, <1>5, WorkerMoves

LEMMA FinishIInv == ASSUME ChainIInv, NEW g \in Generations, Finish(g) PROVE ChainIInv'
<1>1. /\ pc[g] = "finish" /\ pc' = [pc EXCEPT ![g] = "idle"]
      /\ job' = [job EXCEPT ![g] = "final"]
      /\ UNCHANGED <<status, next, attempts, saved, lastRuns, day, lineage, client, everEnded>>
  BY DEF Finish, WorkerUnchanged
<1>2. PlaceFits(g) /\ status[g] # "absent"
  BY <1>1, WorkedOn DEF PlaceFits
<1>3. ChainTypeOK'
  BY <1>1 DEF ChainIInv, ChainTypeOK, ChainPlaces
<1>4. /\ job'[g] = "final" /\ pc'[g] = "idle"
      /\ \A h \in Generations : h # g => pc'[h] = pc[h] /\ job'[h] = job[h]
  BY <1>1 DEF ChainIInv, ChainTypeOK
<1>5. PlaceFits(g)'
  BY <1>1, <1>2, <1>4 DEF PlaceFits
<1>6. ~everEnded /\ g \notin saved => status[g] = "failed" /\ g \in lastRuns
  BY <1>1, <1>2 DEF ChainIInv, UnsavedRuns, Runnable
<1>7. QED
  BY <1>1, <1>2, <1>3, <1>4, <1>5, <1>6, WorkerMoves

\* A run that ends badly and goes back to River with attempts left.
LEMMA RunsAgain ==
    ASSUME ChainIInv, NEW g \in Generations, pc[g] # "idle",
           job' = [job EXCEPT ![g] = "scheduled"], pc' = [pc EXCEPT ![g] = "idle"],
           attempts' \in [Generations -> 0..ChainAttempts], attempts'[g] < ChainAttempts,
           \A h \in Generations : h # g => attempts'[h] = attempts[h],
           UNCHANGED <<status, next, saved, lastRuns, day, lineage, client, everEnded>>
    PROVE  ChainIInv'
<1>1. PlaceFits(g) /\ status[g] # "absent"
  BY WorkedOn
<1>2. ChainTypeOK'
  BY DEF ChainIInv, ChainTypeOK, ChainPlaces
<1>3. /\ job'[g] = "scheduled" /\ pc'[g] = "idle"
      /\ \A h \in Generations : h # g => pc'[h] = pc[h] /\ job'[h] = job[h]
  BY DEF ChainIInv, ChainTypeOK
<1>4. PlaceFits(g)'
  <2>1. attempts'[g] # ChainAttempts
    BY <1>2, ChainAssumption DEF ChainTypeOK
  <2>2. QED
    BY <1>1, <1>3, <2>1 DEF PlaceFits
<1>5. ~everEnded /\ g \notin saved => \/ status[g] = "failed" /\ g \in lastRuns
                                      \/ Runnable(g)'
  BY <1>1, <1>3 DEF ChainIInv, UnsavedRuns, Runnable, Ended, PlaceFits
<1>6. QED
  BY <1>1, <1>2, <1>3, <1>4, <1>5, WorkerMoves

LEMMA TriesOutcomeAgain ==
    ASSUME ChainIInv, NEW g \in Generations, pc[g] # "idle", TryOutcomeAgain(g),
           UNCHANGED <<status, next, saved, lastRuns, day, lineage, client, everEnded>>
    PROVE  ChainIInv'
<1>1. /\ attempts' = [attempts EXCEPT ![g] = IF @ < ChainAttempts THEN @ ELSE @ - 1]
      /\ attempts \in [Generations -> 0..ChainAttempts]
  BY DEF TryOutcomeAgain, ChainIInv, ChainTypeOK
<1>2. /\ attempts' \in [Generations -> 0..ChainAttempts] /\ attempts'[g] < ChainAttempts
      /\ \A h \in Generations : h # g => attempts'[h] = attempts[h]
  BY <1>1, ChainAssumption
<1>3. QED
  BY <1>2, RunsAgain DEF TryOutcomeAgain

LEMMA RefreshFailsIInv ==
    ASSUME ChainIInv, NEW g \in Generations, NEW retryable \in BOOLEAN, RefreshFails(g, retryable)
    PROVE  ChainIInv'
<1>1. /\ pc[g] \in {"clock", "schedule", "verify"}
      /\ UNCHANGED <<status, attempts, next, saved, day, lineage, client, everEnded>>
  BY DEF RefreshFails, EndsBadly, WorkerUnchanged
<1>2. PlaceFits(g) /\ status[g] # "absent" /\ job[g] = "running"
  BY <1>1, WorkedOn DEF PlaceFits
<1>3. CASE /\ attempts[g] < ChainAttempts /\ UNCHANGED lastRuns
           /\ job' = [job EXCEPT ![g] = "scheduled"] /\ pc' = [pc EXCEPT ![g] = "idle"]
  <2>1. attempts' \in [Generations -> 0..ChainAttempts] /\ attempts' = attempts
    BY <1>1 DEF ChainIInv, ChainTypeOK
  <2>2. QED
    BY <1>1, <1>3, <2>1, RunsAgain
<1>4. CASE pc' = [pc EXCEPT ![g] = "fail"] /\ lastRuns' = lastRuns \cup {g} /\ UNCHANGED job
  <2>1. ChainTypeOK'
    BY <1>1, <1>4 DEF ChainIInv, ChainTypeOK, ChainPlaces
  <2>2. pc'[g] = "fail" /\ \A h \in Generations : h # g => pc'[h] = pc[h]
    BY <1>4 DEF ChainIInv, ChainTypeOK
  <2>3. PlaceFits(g)'
    BY <1>1, <1>2, <1>4, <2>2 DEF PlaceFits
  <2>4. ~everEnded /\ g \notin saved => \/ status'[g] = "failed" /\ g \in lastRuns'
                                        \/ Runnable(g)'
    BY <1>1, <1>2, <1>4 DEF ChainIInv, UnsavedRuns, Runnable, Ended
  <2>5. QED
    BY <1>1, <1>2, <1>4, <2>1, <2>2, <2>3, <2>4, WorkerMoves
<1>5. QED
  BY <1>3, <1>4 DEF RefreshFails

LEMMA FailRowIInv == ASSUME ChainIInv, NEW g \in Generations, FailRow(g) PROVE ChainIInv'
<1>1. /\ pc[g] = "fail"
      /\ UNCHANGED <<next, saved, lastRuns, day, lineage, client, everEnded>>
  BY DEF FailRow, WorkerUnchanged
<1>2. PlaceFits(g) /\ status[g] # "absent" /\ g \in lastRuns
  BY <1>1, WorkedOn DEF PlaceFits
<1>3. CASE /\ status' = [status EXCEPT ![g] = "failed"] /\ pc' = [pc EXCEPT ![g] = "finish"]
           /\ UNCHANGED <<job, attempts>>
  <2>1. ChainTypeOK'
    BY <1>1, <1>3 DEF ChainIInv, ChainTypeOK, ChainPlaces
  <2>2. /\ status'[g] = "failed" /\ pc'[g] = "finish"
        /\ \A h \in Generations : h # g => pc'[h] = pc[h] /\ status'[h] = status[h]
    BY <1>3 DEF ChainIInv, ChainTypeOK
  <2>3. PlaceFits(g)'
    BY <1>1, <1>2, <1>3, <2>2 DEF PlaceFits
  <2>4. QED
    BY <1>1, <1>2, <1>3, <2>1, <2>2, <2>3, WorkerMoves
<1>4. CASE TryOutcomeAgain(g) /\ UNCHANGED status
  BY <1>1, <1>4, TriesOutcomeAgain
<1>5. QED
  BY <1>3, <1>4 DEF FailRow

LEMMA OutcomeLostIInv == ASSUME ChainIInv, NEW g \in Generations, OutcomeLost(g) PROVE ChainIInv'
<1>1. /\ pc[g] # "idle" /\ TryOutcomeAgain(g)
      /\ UNCHANGED <<status, next, saved, lastRuns, day, lineage, client, everEnded>>
  BY DEF OutcomeLost, EndsBadly, WorkerUnchanged
<1>2. QED
  BY <1>1, TriesOutcomeAgain

\* A death on the last attempt leaves the row as it is: the generation has ended, and
\* it is known to have begun its last attempt.
LEMMA RunDiesIInv == ASSUME ChainIInv, NEW g \in Generations, RunDies(g) PROVE ChainIInv'
<1>1. /\ pc[g] # "idle" /\ pc' = [pc EXCEPT ![g] = "idle"]
      /\ UNCHANGED <<status, next, attempts, saved, lastRuns, day, lineage, client, everEnded>>
  BY DEF RunDies, EndsBadly, WorkerUnchanged
<1>2. PlaceFits(g) /\ status[g] # "absent" /\ attempts \in [Generations -> 0..ChainAttempts]
  BY <1>1, WorkedOn DEF ChainIInv, ChainTypeOK
<1>3. CASE attempts[g] < ChainAttempts /\ job' = [job EXCEPT ![g] = "scheduled"]
  BY <1>1, <1>2, <1>3, RunsAgain
<1>4. CASE ~(attempts[g] < ChainAttempts) /\ job' = [job EXCEPT ![g] = "final"]
  <2>1. g \in lastRuns
    BY <1>2, <1>4, ChainAssumption DEF PlaceFits
  <2>2. ChainTypeOK'
    BY <1>1, <1>4 DEF ChainIInv, ChainTypeOK, ChainPlaces
  <2>3. /\ job'[g] = "final" /\ pc'[g] = "idle"
        /\ \A h \in Generations : h # g => pc'[h] = pc[h] /\ job'[h] = job[h]
    BY <1>1, <1>4 DEF ChainIInv, ChainTypeOK
  <2>4. PlaceFits(g)'
    BY <1>1, <1>2, <2>1, <2>3 DEF PlaceFits
  <2>5. Ended(g)' /\ (~everEnded /\ g \notin saved => status[g] # "done")
    BY <1>2, <2>3 DEF Ended, ChainIInv, UnsavedRuns
  <2>6. QED
    BY <1>1, <1>2, <2>1, <2>2, <2>3, <2>4, <2>5, WorkerMoves
<1>5. QED
  BY <1>3, <1>4 DEF RunDies

--------------------------------------------------------------------------------

LEMMA NextChainIInv == ChainIInv /\ [ChainNext]_chainVars => ChainIInv'
<1> SUFFICES ASSUME ChainIInv, [ChainNext]_chainVars PROVE ChainIInv'
  OBVIOUS
<1>1. CASE Midnight \/ ProviderChanges
  BY <1>1, MidnightIInv, ProviderChangesIInv
<1>2. ASSUME NEW c \in Clients, ClientVerifies(c) \/ ClientSchedules(c) PROVE ChainIInv'
  BY <1>2, ClientVerifiesIInv, ClientSchedulesIInv
<1>3. ASSUME NEW g \in Generations, \/ Start(g) \/ Work(g) \/ OutcomeLost(g) \/ RunDies(g)
                                    \/ \E retryable \in BOOLEAN : RefreshFails(g, retryable)
      PROVE  ChainIInv'
  BY <1>3, StartIInv, ReadClockIInv, ScheduleNextIInv, VerifyIInv, RetireIInv, CompleteIInv,
     FinishIInv, FailRowIInv, OutcomeLostIInv, RunDiesIInv, RefreshFailsIInv DEF Work
<1>4. CASE UNCHANGED chainVars
  <2>1. ChainTypeOK'
    BY <1>4 DEF chainVars, ChainIInv, ChainTypeOK
  <2>2. PlacesFit' /\ SavedHasLater' /\ UnsavedRuns'
    BY <1>4 DEF chainVars, ChainIInv, PlacesFit, PlaceFits, SavedHasLater, UnsavedRuns, Runnable, Ended
  <2>3. QED
    BY <2>1, <2>2 DEF ChainIInv
<1>5. QED
  BY <1>1, <1>2, <1>3, <1>4 DEF ChainNext

\* Every nonempty set of generations has a last one.
LEMMA LastGeneration ==
    ASSUME NEW G, G \subseteq Generations, G # {}
    PROVE  \E m \in G : \A g \in G : g <= m
<1> DEFINE T == {n \in Nat : \E g \in G : n = MaxDay + 1 - g}
<1>1. \A g \in G : g \in Nat /\ MaxDay + 1 - g \in Nat
  BY ChainAssumption DEF Generations
<1>2. T \subseteq Nat /\ T # {}
  BY <1>1
<1>3. PICK x \in T : \A y \in T : ~ (<<y, x>> \in OpToRel(<, Nat))
  <2> HIDE DEF T
  <2>1. QED
    BY <1>2, WFMin, NatLessThanWellFounded
<1>4. \A y \in T : ~(y < x)
  BY <1>3 DEF OpToRel
<1>5. PICK m \in G : x = MaxDay + 1 - m
  BY <1>3
<1>6. \A g \in G : ~(MaxDay + 1 - g < MaxDay + 1 - m)
  BY <1>1, <1>4, <1>5
<1>7. QED
  BY <1>1, <1>5, <1>6, ChainAssumption

\* The last generation of a chain cannot have saved a successor, so it runs.
LEMMA IInvKeepsChain == ChainIInv => ChainAlive
<1> SUFFICES ASSUME ChainIInv, ~everEnded, ~ChainCut, NEW a \in Generations, status[a] # "absent"
             PROVE  \E g \in Generations : Runnable(g)
  BY DEF ChainAlive
<1> DEFINE G == {g \in Generations : status[g] # "absent"}
<1>1. PICK m \in G : \A g \in G : g <= m
  <2>1. G \subseteq Generations /\ G # {}
    OBVIOUS
  <2> HIDE DEF G
  <2>2. QED
    BY <2>1, LastGeneration
<1>2. m \notin saved
  BY <1>1, ChainAssumption DEF ChainIInv, SavedHasLater, Generations
<1>3. (Ended(m) /\ m \in lastRuns) \/ Runnable(m)
  BY <1>2 DEF ChainIInv, UnsavedRuns
<1>4. \A h \in Generations : h > m => status[h] = "absent"
  BY <1>1, ChainAssumption DEF Generations
<1>5. QED
  BY <1>2, <1>3, <1>4 DEF ChainCut

\* The inductive invariant holds throughout.
THEOREM ChainInvariant == ChainSpec => []ChainIInv
BY InitChainIInv, NextChainIInv, PTL DEF ChainSpec

\* scheduleNext before verify: for any number of days, requests, failures, deaths and
\* attempts, the refresh of a lineage the provider never ended keeps a generation that
\* will run, unless the latest one ended on a last run before it had saved its successor.
THEOREM ChainStaysAlive == ChainSpec => []ChainAlive
BY ChainInvariant, IInvKeepsChain, PTL

====
