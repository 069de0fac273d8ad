--------------------------- MODULE HttpCallProofs ---------------------------
(***************************************************************************)
(* Proofs about HttpCall for any number of calls to any endpoints.         *)
(***************************************************************************)
EXTENDS HttpCall, TLAPS

Preparing == {"sign", "build", "edit", "do"}

\* The gateway gets a request after it is sent, and once.
SentInv ==
    \A c \in Calls :
        /\ pc[c] \in Preparing => ~sent[c] /\ ~served[c]
        /\ sent[c] => ~served[c]

\* A call that is done has a response, and a reply is the server's.
ResponseInv ==
    \A c \in Calls :
        /\ pc[c] \in {"read", "parse"} => response[c] # NoResponse
        /\ response[c] # NoResponse /\ response[c].body = "reply" => served[c]

\* A call has an outcome when it has returned, and has closed its body then.
ReturnInv ==
    \A c \in Calls :
        /\ outcome[c] = "pending" <=> pc[c] # "returned"
        /\ bodyOpen[c] => pc[c] \in {"read", "parse"}

IInv == TypeOK /\ SentInv /\ ResponseInv /\ ReturnInv

-----------------------------------------------------------------------------
\* The invariant holds before the first step of any call.
LEMMA InvInit == Init => IInv
<1> SUFFICES ASSUME Init
             PROVE  IInv
  OBVIOUS
<1> USE DEF Init
<1>1. \A c \in Calls : pc[c] \in Preparing
  BY DEF FirstStep, Preparing
<1>2. TypeOK
  BY <1>1 DEF TypeOK, PcValues, Outcomes, Preparing
<1>3. SentInv /\ ResponseInv /\ ReturnInv
  BY <1>1, NoResponseAssumption DEF SentInv, ResponseInv, ReturnInv, Preparing
<1> QED
  BY <1>2, <1>3 DEF IInv

\* The calls whose answers nothing else passes for, and what passes for others.
Distinctive == {c \in Calls : endpoint[c] = "GetHeadSlot"}
Forged == {c \in Calls : response[c] \in Foreign(endpoint[c])}

\* What the client takes for an answer is the server's reply, or has the status
\* and the content type of one, and then nobody can tell.
LEMMA JSON200IsReplyOrForged ==
    ASSUME IInv, NEW c \in Calls, pc[c] = "parse", JSON200(c)
    PROVE  \/ response[c].body = "reply" /\ served[c]
           \/ response[c].body # "reply" /\ c \in Forged \ Distinctive
<1>1. response[c] \in Response
  BY DEF IInv, ResponseInv, TypeOK
<1>2. CASE response[c].body = "reply"
  BY <1>2 DEF IInv, ResponseInv
<1>3. CASE response[c].body # "reply"
  <2>1. /\ response[c].body \in {"object", "list", "null"}
        /\ endpoint[c] # "GetHeadSlot"
        /\ endpoint[c] = "ReserveBlockspace" => response[c].body = "null"
    BY <1>3 DEF JSON200, Decodes
  <2>2. response[c].status = 200 /\ response[c].json = TRUE
    BY <1>1, <2>1 DEF JSON200, TakenAsJSON, Response
  <2> QED
    BY <1>1, <1>3, <2>1, <2>2 DEF Forged, Distinctive, Foreign, Response
<1> QED
  BY <1>2, <1>3

\* The client's steps keep the invariant.
LEMMA ClientStep == ASSUME IInv, NEW c \in Calls, Call(c) PROVE IInv'
<1> USE DEF IInv
<1>1. ASSUME NEW label \in PcValues \ {"returned"}, Goto(c, label), pc[c] # "returned",
             UNCHANGED <<bodyOpen, server>>, label \in Preparing => pc[c] \in Preparing,
             label \in {"read", "parse"} => response[c] # NoResponse,
             pc[c] = "read" => label = "parse", pc[c] # "parse"
      PROVE  IInv'
  <2> USE <1>1 DEF Goto, server
  <2>1. TypeOK'
    BY DEF TypeOK
  <2>2. pc' = [pc EXCEPT ![c] = label] /\ pc \in [Calls -> PcValues]
    BY DEF TypeOK
  <2>3. SentInv' /\ ResponseInv'
    BY <2>2 DEF SentInv, ResponseInv
  <2>4. ReturnInv'
    BY <2>2 DEF ReturnInv
  <2> QED
    BY <2>1, <2>3, <2>4
<1>2. ASSUME NEW result \in Outcomes \ {"pending"}, Return(c, result), UNCHANGED server,
             bodyOpen' \in [Calls -> BOOLEAN], ~bodyOpen'[c],
             \A d \in Calls : d # c => bodyOpen'[d] = bodyOpen[d]
      PROVE  IInv'
  <2> USE <1>2 DEF Return, server
  <2>1. TypeOK'
    BY DEF TypeOK, PcValues
  <2>2. pc' = [pc EXCEPT ![c] = "returned"] /\ pc \in [Calls -> PcValues]
    BY DEF TypeOK
  <2>3. SentInv' /\ ResponseInv'
    BY <2>2 DEF SentInv, ResponseInv, Preparing
  <2>4. ReturnInv'
    BY <2>2 DEF ReturnInv, TypeOK
  <2> QED
    BY <2>1, <2>3, <2>4
<1>3. CASE Sign(c) \/ Build(c) \/ ApplyEditors(c) \/ ReadBody(c)
  BY <1>1, <1>3 DEF Sign, Build, ApplyEditors, ReadBody, Preparing, PcValues, ResponseInv
<1>4. CASE PreparationFails(c) \/ DoFails(c)
  <2>1. ~bodyOpen[c] /\ bodyOpen \in [Calls -> BOOLEAN]
    BY <1>4 DEF PreparationFails, DoFails, ReturnInv, TypeOK
  <2> QED
    BY <1>2, <1>4, <2>1 DEF PreparationFails, DoFails, Outcomes
<1>5. CASE ReadBodyFails(c)
  <2>1. /\ bodyOpen' \in [Calls -> BOOLEAN] /\ ~bodyOpen'[c]
        /\ \A d \in Calls : d # c => bodyOpen'[d] = bodyOpen[d]
    BY <1>5 DEF ReadBodyFails, TypeOK
  <2> QED
    BY <1>2, <1>5, <2>1 DEF ReadBodyFails, Outcomes
<1>6. CASE Parse(c)
  <2>1. /\ bodyOpen' \in [Calls -> BOOLEAN] /\ ~bodyOpen'[c]
        /\ \A d \in Calls : d # c => bodyOpen'[d] = bodyOpen[d]
    BY <1>6 DEF Parse, TypeOK
  <2> QED
    BY <1>2, <1>6, <2>1 DEF Parse, Outcomes
<1>7. CASE Do(c)
  <2> USE <1>7 DEF Do, Goto
  <2>1. TypeOK'
    BY DEF TypeOK, PcValues
  <2>2. /\ pc' = [pc EXCEPT ![c] = "await"] /\ pc \in [Calls -> PcValues]
        /\ sent' = [sent EXCEPT ![c] = TRUE] /\ sent \in [Calls -> BOOLEAN]
    BY DEF TypeOK
  <2>3. SentInv' /\ ResponseInv' /\ ReturnInv'
    BY <2>2 DEF SentInv, ResponseInv, ReturnInv, Preparing
  <2> QED
    BY <2>1, <2>3
<1>8. CASE DoReturns(c)
  <2> USE <1>8 DEF DoReturns, Goto, server
  <2>1. TypeOK'
    BY DEF TypeOK, PcValues
  <2>2. /\ pc' = [pc EXCEPT ![c] = "read"] /\ pc \in [Calls -> PcValues]
        /\ bodyOpen' = [bodyOpen EXCEPT ![c] = TRUE] /\ bodyOpen \in [Calls -> BOOLEAN]
    BY DEF TypeOK
  <2>3. SentInv' /\ ResponseInv' /\ ReturnInv'
    BY <2>2 DEF SentInv, ResponseInv, ReturnInv, Preparing
  <2> QED
    BY <2>1, <2>3
<1> QED
  BY <1>3, <1>4, <1>5, <1>6, <1>7, <1>8 DEF Call

\* So does what the gateway, or something before it, answers.
LEMMA ServerStep ==
    ASSUME IInv, NEW c \in Calls, Serve(c) \/ Refuse(c) \/ Intercept(c)
    PROVE  IInv'
<1> USE DEF IInv, client
<1>1. ASSUME NEW status \in Statuses, NEW json \in BOOLEAN, NEW body \in Bodies,
             Respond(c, status, json, body), UNCHANGED client,
             sent' \in [Calls -> BOOLEAN], served' \in [Calls -> BOOLEAN],
             \A d \in Calls : d # c => sent'[d] = sent[d] /\ served'[d] = served[d],
             served[c] => served'[c], sent'[c] => sent[c] /\ ~served'[c],
             served'[c] => served[c] \/ sent[c],
             body = "reply" => served'[c]
      PROVE  IInv'
  <2> USE <1>1
  <2> DEFINE r == [status |-> status, json |-> json, body |-> body]
  <2>1. r \in Response /\ r # NoResponse
    BY NoResponseAssumption DEF Response
  <2>2. /\ response' \in [Calls -> Response \cup {NoResponse}]
        /\ \A d \in Calls : response'[d] = response[d] \/ (d = c /\ response'[d] = r)
    BY <2>1 DEF Respond, TypeOK
  <2>3. TypeOK'
    BY <2>2 DEF TypeOK
  <2>4. SentInv'
    BY DEF SentInv
  <2>5. ResponseInv'
    BY <2>1, <2>2 DEF ResponseInv
  <2>6. ReturnInv'
    BY DEF ReturnInv
  <2> QED
    BY <2>3, <2>4, <2>5, <2>6
<1>2. sent \in [Calls -> BOOLEAN] /\ served \in [Calls -> BOOLEAN]
  BY DEF TypeOK
<1>3. CASE Serve(c)
  <2>1. /\ sent' = [sent EXCEPT ![c] = FALSE] /\ sent[c]
        /\ served' = [served EXCEPT ![c] = TRUE]
        /\ UNCHANGED client /\ Respond(c, 200, TRUE, "reply")
    BY <1>3 DEF Serve
  <2>2. /\ sent' \in [Calls -> BOOLEAN] /\ ~sent'[c]
        /\ served' \in [Calls -> BOOLEAN] /\ served'[c]
        /\ \A d \in Calls : d # c => sent'[d] = sent[d] /\ served'[d] = served[d]
    BY <1>2, <2>1
  <2>3. 200 \in Statuses /\ "reply" \in Bodies /\ TRUE \in BOOLEAN
    BY DEF Statuses, Bodies
  <2>4. /\ served[c] => served'[c]
        /\ sent'[c] => sent[c] /\ ~served'[c]
        /\ served'[c] => served[c] \/ sent[c]
        /\ "reply" = "reply" => served'[c]
    BY <2>1, <2>2
  <2> HIDE DEF client, IInv
  <2> QED
    BY <1>1, <2>1, <2>2, <2>3, <2>4
<1>4. CASE Refuse(c)
  <2> HIDE DEF client, IInv
  <2>1. PICK status \in {400, 500}, json \in BOOLEAN :
           Respond(c, status, json, "object")
    BY <1>4 DEF Refuse
  <2>2. status \in Statuses
    BY DEF Statuses
  <2>3. /\ sent' = [sent EXCEPT ![c] = FALSE] /\ sent[c]
        /\ UNCHANGED client /\ UNCHANGED served
    BY <1>4 DEF Refuse
  <2>4. /\ sent' \in [Calls -> BOOLEAN] /\ ~sent'[c]
        /\ \A d \in Calls : d # c => sent'[d] = sent[d]
    BY <1>2, <2>3
  <2>5. "object" \in Bodies
    BY DEF Bodies
  <2>6. /\ served' \in [Calls -> BOOLEAN] /\ UNCHANGED client
        /\ \A d \in Calls : served'[d] = served[d]
    BY <1>2, <2>3
  <2>7. /\ served[c] => served'[c]
        /\ sent'[c] => sent[c] /\ ~served'[c]
        /\ served'[c] => served[c] \/ sent[c]
        /\ "object" = "reply" => served'[c]
    BY <2>2, <2>4, <2>6
  <2> QED
    BY <1>1, <2>1, <2>2, <2>4, <2>5, <2>6, <2>7
<1>5. CASE Intercept(c)
  <2>1. PICK status \in Statuses, json \in BOOLEAN, body \in Bodies \ {"reply"} :
           Respond(c, status, json, body)
    BY <1>5 DEF Intercept
  <2>2. UNCHANGED client /\ UNCHANGED <<sent, served>>
    BY <1>5 DEF Intercept
  <2>3. /\ body \in Bodies
        /\ \A d \in Calls : sent'[d] = sent[d] /\ served'[d] = served[d]
        /\ sent' \in [Calls -> BOOLEAN] /\ served' \in [Calls -> BOOLEAN]
    BY <1>2, <2>2 DEF Bodies
  <2>4. /\ served[c] => served'[c]
        /\ sent'[c] => sent[c] /\ ~served'[c]
        /\ served'[c] => served[c] \/ sent[c]
        /\ body = "reply" => served'[c]
    BY <2>3 DEF SentInv
  <2> HIDE DEF client, IInv
  <2> QED
    BY <1>1, <2>1, <2>2, <2>3, <2>4
<1> QED
  BY <1>3, <1>4, <1>5

\* Every step keeps the invariant.
LEMMA InvNext == IInv /\ [Next]_vars => IInv'
<1>1. ASSUME IInv, UNCHANGED vars
      PROVE  IInv'
  BY <1>1 DEF IInv, vars, client, server, TypeOK, SentInv, ResponseInv, ReturnInv
<1> QED
  BY <1>1, ClientStep, ServerStep DEF Next

\* The inductive invariant holds for any number of calls.
THEOREM Invariance == Spec => []IInv
  BY InvInit, InvNext, PTL DEF Spec

-----------------------------------------------------------------------------
\* No call dereferences an answer it did not get: every call ends with the
\* gateway's reply, values that decoded, or an error.
THEOREM TypeCorrect == Spec => []TypeOK
<1>1. IInv => TypeOK
  BY DEF IInv
<1> QED
  BY <1>1, Invariance, PTL

\* Each call that got a response has closed its body when it returns, on the
\* failing paths too.
THEOREM NoBodyLeaked == Spec => []BodiesClosed
<1>1. IInv => BodiesClosed
  BY DEF IInv, ReturnInv, BodiesClosed
<1> QED
  BY <1>1, Invariance, PTL

\* Answers from elsewhere change only what is at hand for one call.
LEMMA RespondForges ==
    ASSUME NEW c \in Calls, NEW r, response' = IF pc[c] = "await"
                                               THEN [response EXCEPT ![c] = r]
                                               ELSE response,
           UNCHANGED endpoint, TypeOK
    PROVE  Forged' \in {Forged \cup {c}, Forged \ {c}}
<1>1. \A d \in Calls : d # c => response'[d] = response[d]
  BY DEF TypeOK
<1>2. \A d \in Calls : d # c => (d \in Forged' <=> d \in Forged)
  BY <1>1 DEF Forged
<1>3. Forged' \subseteq Calls /\ Forged \subseteq Calls
  BY DEF Forged
<1>4. CASE c \in Forged'
  <2>1. Forged' = Forged \cup {c}
    BY <1>2, <1>3, <1>4
  <2> QED
    BY <2>1
<1>5. CASE c \notin Forged'
  <2>1. Forged' = Forged \ {c}
    BY <1>2, <1>3, <1>5
  <2> QED
    BY <2>1
<1> QED
  BY <1>4, <1>5

\* The server's reply is no answer from elsewhere.
LEMMA ReplyIsNotForged ==
    ASSUME IInv, NEW c \in Calls, Serve(c)
    PROVE  Forged' \in {Forged, Forged \ {c}}
<1>1. /\ response' = IF pc[c] = "await"
                     THEN [response EXCEPT ![c] = [status |-> 200, json |-> TRUE, body |-> "reply"]]
                     ELSE response
      /\ TypeOK /\ UNCHANGED endpoint
  BY DEF Serve, Respond, IInv, client
<1>2. CASE pc[c] # "await"
  BY <1>1, <1>2 DEF Forged
<1>3. CASE pc[c] = "await"
  <2>1. response'[c].body = "reply"
    BY <1>1, <1>3 DEF TypeOK
  <2>2. c \notin Forged'
    BY <2>1 DEF Forged, Foreign
  <2>3. Forged' \in {Forged \cup {c}, Forged \ {c}}
    BY <1>1, RespondForges, Zenon
  <2> QED
    BY <2>2, <2>3
<1> QED
  BY <1>2, <1>3

\* Every step is one of a remote call, or none.
LEMMA RefinementNext == IInv /\ [Next]_vars => [RemoteCall!Next]_(RemoteCall!vars)
<1> SUFFICES ASSUME IInv, [Next]_vars
             PROVE  [RemoteCall!Next]_(RemoteCall!vars)
  OBVIOUS
<1>1. UNCHANGED endpoint => Distinctive' = Distinctive
  BY DEF Distinctive
<1>2. UNCHANGED <<endpoint, response>> => Forged' = Forged
  BY DEF Forged
<1>3. UNCHANGED <<endpoint, served, response, outcome>> => UNCHANGED RemoteCall!vars
  BY <1>1, <1>2 DEF RemoteCall!vars, Distinctive, Forged
<1>4. ASSUME NEW c \in Calls, NEW result, Return(c, result), pc[c] # "returned", UNCHANGED server
      PROVE  RemoteCall!Return(c, result)
  <2>1. outcome[c] = "pending" /\ outcome' = [outcome EXCEPT ![c] = result]
    BY <1>4 DEF IInv, ReturnInv, Return
  <2>2. UNCHANGED served /\ Distinctive' = Distinctive /\ Forged' = Forged
    BY <1>1, <1>2, <1>4 DEF Return, server
  <2> QED
    BY <2>1, <2>2 DEF RemoteCall!Return, Distinctive, Forged
<1>5. ASSUME NEW c \in Calls, Parse(c)
      PROVE  RemoteCall!Next
  <2>1. /\ Return(c, IF ~JSON200(c) THEN "error"
                     ELSE IF response[c].body = "reply" THEN "reply" ELSE "invented")
        /\ pc[c] # "returned" /\ UNCHANGED server
    BY <1>5 DEF Parse
  <2>2. CASE ~JSON200(c)
    BY <1>4, <2>1, <2>2 DEF RemoteCall!Next, RemoteCall!Error
  <2>3. CASE JSON200(c) /\ response[c].body = "reply" /\ served[c]
    BY <1>4, <2>1, <2>3 DEF RemoteCall!Next, RemoteCall!Reply
  <2>4. CASE JSON200(c) /\ response[c].body # "reply" /\ c \in Forged \ Distinctive
    BY <1>4, <2>1, <2>4 DEF RemoteCall!Next, RemoteCall!Invent, Forged, Distinctive
  <2> QED
    BY <1>5, <2>2, <2>3, <2>4, JSON200IsReplyOrForged DEF Parse
<1>6. ASSUME NEW c \in Calls, Call(c)
      PROVE  RemoteCall!Next \/ UNCHANGED RemoteCall!vars
  <2>1. CASE Parse(c)
    BY <1>5, <2>1
  <2>2. CASE PreparationFails(c) \/ DoFails(c) \/ ReadBodyFails(c)
    <3>1. Return(c, "error") /\ pc[c] # "returned" /\ UNCHANGED server
      BY <2>2 DEF PreparationFails, DoFails, ReadBodyFails
    <3> QED
      BY <1>4, <3>1 DEF RemoteCall!Next, RemoteCall!Error
  <2>3. CASE Sign(c) \/ Build(c) \/ ApplyEditors(c) \/ Do(c) \/ DoReturns(c) \/ ReadBody(c)
    <3>1. UNCHANGED <<endpoint, served, response, outcome>>
      BY <2>3 DEF Sign, Build, ApplyEditors, Do, DoReturns, ReadBody, Goto, server
    <3> QED
      BY <1>3, <3>1
  <2> QED
    BY <1>6, <2>1, <2>2, <2>3 DEF Call
<1>7. ASSUME NEW c \in Calls, Serve(c)
      PROVE  RemoteCall!Next
  <2>1. /\ ~served[c] /\ served' = [served EXCEPT ![c] = TRUE]
        /\ UNCHANGED outcome /\ Distinctive' = Distinctive
    BY <1>1, <1>7 DEF Serve, client, IInv, SentInv
  <2>2. Forged' \in {Forged, Forged \ {c}}
    BY <1>7, ReplyIsNotForged
  <2> QED
    BY <2>1, <2>2 DEF RemoteCall!Next, RemoteCall!Serve, Distinctive, Forged
<1>8. ASSUME NEW c \in Calls, Refuse(c) \/ Intercept(c)
      PROVE  RemoteCall!Next
  <2>1. UNCHANGED <<endpoint, served, outcome>> /\ Distinctive' = Distinctive /\ TypeOK
    BY <1>1, <1>8 DEF Refuse, Intercept, client, IInv
  <2>2. \E r : response' = IF pc[c] = "await" THEN [response EXCEPT ![c] = r] ELSE response
    BY <1>8 DEF Refuse, Intercept, Respond
  <2>3. Forged' \in {Forged \cup {c}, Forged \ {c}}
    BY <2>1, <2>2, RespondForges, Zenon
  <2> QED
    BY <2>1, <2>3 DEF RemoteCall!Next, RemoteCall!Answer, Distinctive, Forged
<1>9. CASE UNCHANGED vars
  BY <1>3, <1>9 DEF vars, client, server
<1> QED
  BY <1>6, <1>7, <1>8, <1>9 DEF Next

\* A result is the server's reply to this call, or made up from JSON that
\* something else answered with status 200, a reservation id only from null and a
\* head slot never; the server serves a call at most once, whatever happens to
\* requests and answers.
THEOREM RemoteCallImplemented == Spec => ImplementsRemoteCall
<1>1. Init => RemoteCall!Init
  <2> SUFFICES ASSUME Init
               PROVE  RemoteCall!Init
    OBVIOUS
  <2>1. Forged = {}
    BY NoResponseAssumption DEF Init, Forged, Foreign, Response, Statuses, Bodies
  <2>2. Distinctive \in SUBSET Calls
    BY DEF Distinctive
  <2> QED
    BY <2>1, <2>2 DEF Init, RemoteCall!Init, Forged, Distinctive
<1> QED
  BY <1>1, Invariance, RefinementNext, PTL DEF Spec, ImplementsRemoteCall, RemoteCall!Spec
=============================================================================
