------------------------------ MODULE HttpCall ------------------------------
(***************************************************************************)
(* A call of client.Client (client/client.go) down to the HTTP exchange    *)
(* the generated client makes for it (internal/client/client.gen.go):      *)
(* sign, build the request, apply the editors, exchange it, read the body, *)
(* decode it by status and content type, and return.  The sender's query   *)
(* of the beacon node (getHeadSlot) takes the same steps from the exchange *)
(* on.  Calls run side by side.  The servers, and what stands between them *)
(* and the client, are modelled from openapi.yaml and from what the client *)
(* allows for.  What is not the server may answer anything that does not   *)
(* spell out a reservation id or a head slot.                              *)
(***************************************************************************)
EXTENDS Naturals, Sequences

CONSTANTS
    Calls,          \* the calls made, each to one endpoint
    NoResponse      \* nothing came back yet

Endpoints ==
    {"GetSlots", "GetFee", "ReserveBlockspace", "SubmitTransaction", "GetHeadSlot"}

\* The bodies: the server's reply of the 200 schema; some other JSON object, such
\* as an error object with code and message; some other JSON list of objects; the
\* JSON null; or anything else, such as a page that is not JSON.
Bodies == {"reply", "object", "list", "null", "page"}
\* 500 stands for every other status, such as a proxy's.
Statuses == {200, 400, 500}
Response == [status : Statuses, json : BOOLEAN, body : Bodies]

ASSUME NoResponseAssumption == NoResponse \notin Response

VARIABLES
    endpoint,       \* the endpoint of each call
    pc,             \* what each call does next
    sent,           \* the request is on its way to the server
    served,         \* the server did what the call asks for
    response,       \* the response to the call
    bodyOpen,       \* the response's body is not closed
    outcome         \* "pending", or what the call returned

client == <<endpoint, pc, bodyOpen, outcome>>
server == <<sent, served, response>>
vars == <<client, server>>

PcValues == {"sign", "build", "edit", "do", "await", "read", "parse", "returned"}
Outcomes == {"pending", "reply", "invented", "error"}

\* ReserveBlockspace and SubmitTransaction sign the digest of the request.
Signed == {"ReserveBlockspace", "SubmitTransaction"}

\* http.Get sends its URL as it is.
FirstStep(e) == IF e \in Signed THEN "sign" ELSE IF e = "GetHeadSlot" THEN "do" ELSE "build"

Init ==
    /\ endpoint \in [Calls -> Endpoints]
    /\ pc = [c \in Calls |-> FirstStep(endpoint[c])]
    /\ sent = [c \in Calls |-> FALSE]
    /\ served = [c \in Calls |-> FALSE]
    /\ response = [c \in Calls |-> NoResponse]
    /\ bodyOpen = [c \in Calls |-> FALSE]
    /\ outcome = [c \in Calls |-> "pending"]

Goto(c, label) ==
    /\ pc' = [pc EXCEPT ![c] = label]
    /\ UNCHANGED <<endpoint, outcome>>

Return(c, result) ==
    /\ pc' = [pc EXCEPT ![c] = "returned"]
    /\ outcome' = [outcome EXCEPT ![c] = result]
    /\ UNCHANGED endpoint

-----------------------------------------------------------------------------
(* Before the request is sent.                                             *)

Sign(c) ==
    /\ pc[c] = "sign"
    /\ Goto(c, "build")
    /\ UNCHANGED <<bodyOpen, server>>

\* New...Request: encode the body, join the URL, set the headers.
Build(c) ==
    /\ pc[c] = "build"
    /\ Goto(c, "edit")
    /\ UNCHANGED <<bodyOpen, server>>

\* The editors of the client; the calls of client.Client add none.
ApplyEditors(c) ==
    /\ pc[c] = "edit"
    /\ Goto(c, "do")
    /\ UNCHANGED <<bodyOpen, server>>

\* A signature, an encoding or an editor fails: nothing is sent.
PreparationFails(c) ==
    /\ pc[c] \in {"sign", "build", "edit"}
    /\ Return(c, "error")
    /\ UNCHANGED <<bodyOpen, server>>

-----------------------------------------------------------------------------
(* The exchange, c.Client.Do(req) or http.Get(url).                        *)

Do(c) ==
    /\ pc[c] = "do"
    /\ sent' = [sent EXCEPT ![c] = TRUE]
    /\ Goto(c, "await")
    /\ UNCHANGED <<bodyOpen, served, response>>

\* No connection, or the ctx is done (http.Get has none); a request already sent
\* stays sent.
DoFails(c) ==
    /\ pc[c] \in {"do", "await"}
    /\ Return(c, "error")
    /\ UNCHANGED <<bodyOpen, server>>

DoReturns(c) ==
    /\ pc[c] = "await"
    /\ response[c] # NoResponse
    /\ bodyOpen' = [bodyOpen EXCEPT ![c] = TRUE]
    /\ Goto(c, "read")
    /\ UNCHANGED server

-----------------------------------------------------------------------------
(* Parse...Response and the checks of client.Client, or getHeadSlot's.     *)

ReadBody(c) ==
    /\ pc[c] = "read"
    /\ Goto(c, "parse")
    /\ UNCHANGED <<bodyOpen, server>>

\* The early return ahead of the deferred Close.
ReadBodyFailsOpen(c) ==
    /\ pc[c] = "read"
    /\ Return(c, "error")
    /\ UNCHANGED <<bodyOpen, server>>

\* The body is closed on this path too: the defer stands before the return.
ReadBodyFails(c) ==
    /\ pc[c] = "read"
    /\ bodyOpen' = [bodyOpen EXCEPT ![c] = FALSE]
    /\ Return(c, "error")
    /\ UNCHANGED server

\* json.Unmarshal into the type of the 200 answer: fields that are missing stay
\* zero, so any object passes for a fee or a commitment and any list of objects
\* for slots, and null leaves any type at its zero value, a UUID too.  Only a head
\* slot is safe: the zero head_slot is the empty string, which ParseUint refuses.
Decodes(e, body) ==
    \/ body = "reply"
    \/ body = "null" /\ e # "GetHeadSlot"
    \/ body = "object" /\ e \in {"GetFee", "SubmitTransaction"}
    \/ body = "list" /\ e = "GetSlots"

\* client.gen.go decodes what calls itself JSON, getHeadSlot whatever it gets.
TakenAsJSON(c) == response[c].json \/ endpoint[c] = "GetHeadSlot"

AnyJSON(c) == TakenAsJSON(c) /\ Decodes(endpoint[c], response[c].body)

\* resp.JSON200 # nil.  The decoding of other statuses only words the error.
JSON200(c) ==
    /\ TakenAsJSON(c)
    /\ response[c].status = 200
    /\ Decodes(endpoint[c], response[c].body)

\* JSON200 dereferenced without the check for nil.
ParseUnchecked(c) ==
    /\ pc[c] = "parse"
    /\ bodyOpen' = [bodyOpen EXCEPT ![c] = FALSE]
    /\ Return(c, IF JSON200(c) THEN "reply" ELSE "nilDereferenced")
    /\ UNCHANGED server

Parse(c) ==
    /\ pc[c] = "parse"
    /\ bodyOpen' = [bodyOpen EXCEPT ![c] = FALSE]
    /\ Return(c, IF ~JSON200(c) THEN "error"
                 ELSE IF response[c].body = "reply" THEN "reply" ELSE "invented")
    /\ UNCHANGED server

-----------------------------------------------------------------------------
(* The gateway, the beacon node and the network.                           *)

\* A response reaches a call that is still waiting for it.
Respond(c, status, json, body) ==
    response' = IF pc[c] = "await"
                THEN [response EXCEPT ![c] = [status |-> status, json |-> json, body |-> body]]
                ELSE response

\* The server gets a request once; it serves it and replies...
Serve(c) ==
    /\ sent[c]
    /\ sent' = [sent EXCEPT ![c] = FALSE]
    /\ served' = [served EXCEPT ![c] = TRUE]
    /\ Respond(c, 200, TRUE, "reply")
    /\ UNCHANGED client

\* ...or refuses it with an error object.
Refuse(c) ==
    /\ sent[c]
    /\ sent' = [sent EXCEPT ![c] = FALSE]
    /\ \E status \in {400, 500} : Respond(c, status, TRUE, "object")
    /\ UNCHANGED <<client, served>>

\* Something on the way answers in the server's place, with any status and
\* content, whether or not the request goes on to the server or its reply was
\* under way.
Intercept(c) ==
    /\ pc[c] = "await"
    /\ \E status \in Statuses, json \in BOOLEAN, body \in Bodies \ {"reply"} :
          Respond(c, status, json, body)
    /\ UNCHANGED <<client, sent, served>>

-----------------------------------------------------------------------------
Call(c) ==
    \/ Sign(c)
    \/ Build(c)
    \/ ApplyEditors(c)
    \/ PreparationFails(c)
    \/ Do(c)
    \/ DoFails(c)
    \/ DoReturns(c)
    \/ ReadBody(c)
    \/ ReadBodyFails(c)
    \/ Parse(c)

Next == \E c \in Calls : Call(c) \/ Serve(c) \/ Refuse(c) \/ Intercept(c)

Spec == Init /\ [][Next]_vars

-----------------------------------------------------------------------------
TypeOK ==
    /\ endpoint \in [Calls -> Endpoints]
    /\ pc \in [Calls -> PcValues]
    /\ sent \in [Calls -> BOOLEAN]
    /\ served \in [Calls -> BOOLEAN]
    /\ response \in [Calls -> Response \cup {NoResponse}]
    /\ bodyOpen \in [Calls -> BOOLEAN]
    /\ outcome \in [Calls -> Outcomes]

\* What else may pass for a server's answer, by its status and content type: for a
\* reservation id only null.
Foreign(e) ==
    [status : {200}, json : {TRUE},
     body : IF e = "ReserveBlockspace" THEN {"null"} ELSE {"object", "list", "null"}]

\* The result of a call is the server's reply to this call, which it served, or
\* was made up from JSON that something else answered with status 200: never
\* from an error of the server, a reservation id only from null, and a head slot
\* never.  The server serves a call at most once, before or after an error was
\* returned.
RemoteCall ==
    INSTANCE RemoteCall WITH
        distinctive <- {c \in Calls : endpoint[c] = "GetHeadSlot"},
        forged <- {c \in Calls : response[c] \in Foreign(endpoint[c])}

ImplementsRemoteCall == RemoteCall!Spec

\* Every path that got a response closes its body, so that its connection goes
\* back to the pool: a client that keeps polling does not run out of them.
BodiesClosed == \A c \in Calls : pc[c] = "returned" => ~bodyOpen[c]
=============================================================================
